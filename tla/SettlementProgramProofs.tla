---------------------- MODULE SettlementProgramProofs ----------------------
(***************************************************************************)
(* What holds of the on-chain program for every set of wallets, namespaces *)
(* and events, every request and every rent.                               *)
(*                                                                         *)
(* The inductive invariant joins the type invariant, the shape of the      *)
(* program's accounts and their rent: a settlement is authorised only by a *)
(* namespace of the program because every account the program owns was     *)
(* made by it, at the address derived for it.                              *)
(***************************************************************************)
EXTENDS SettlementProgram, ArithmeticProofs, TLAPS

-----------------------------------------------------------------------------
(* Transfers *)

\* A sum over the slots is no more than two others that cover it slot by slot,
\* with one slot topped up.
LEMMA TotalCovered ==
  ASSUME NEW p \in [1..8 -> Nat], NEW c \in [1..8 -> Nat], NEW s \in [1..8 -> Nat],
         NEW m \in 1..8, NEW x \in Nat,
         \A k \in 1..8 : p[k] <= c[k] + s[k] + IF k = m THEN x ELSE 0
  PROVE  Total(p) <= Total(c) + Total(s) + x
<1>1. /\ p[1] \in Nat /\ p[2] \in Nat /\ p[3] \in Nat /\ p[4] \in Nat
      /\ p[5] \in Nat /\ p[6] \in Nat /\ p[7] \in Nat /\ p[8] \in Nat
      /\ c[1] \in Nat /\ c[2] \in Nat /\ c[3] \in Nat /\ c[4] \in Nat
      /\ c[5] \in Nat /\ c[6] \in Nat /\ c[7] \in Nat /\ c[8] \in Nat
      /\ s[1] \in Nat /\ s[2] \in Nat /\ s[3] \in Nat /\ s[4] \in Nat
      /\ s[5] \in Nat /\ s[6] \in Nat /\ s[7] \in Nat /\ s[8] \in Nat
  OBVIOUS
<1>2. p[1] + p[2] + p[3] + p[4] + p[5] + p[6] + p[7] + p[8]
        <= (c[1] + c[2] + c[3] + c[4] + c[5] + c[6] + c[7] + c[8])
           + (s[1] + s[2] + s[3] + s[4] + s[5] + s[6] + s[7] + s[8]) + x
  BY <1>1
<1> QED
  BY <1>2 DEF Total

\* A sum over the slots is a natural number.
LEMMA TotalNat ==
  ASSUME NEW f \in [1..8 -> Nat]
  PROVE  Total(f) \in Nat
  BY DEF Total

\* What an account is credited is a natural number.
LEMMA CreditedNat ==
  ASSUME NEW pays \in [1..8 -> Nat], NEW to, NEW a
  PROVE  CreditedTo(pays, to, a) \in Nat
<1> DEFINE c == [j \in 1..8 |-> IF j <= Len(to) /\ to[j] = a THEN pays[j] ELSE 0]
<1>1. c \in [1..8 -> Nat]
  OBVIOUS
<1> HIDE DEF c
<1>2. Total(c) \in Nat
  BY <1>1, TotalNat
<1> QED
  BY <1>2 DEF CreditedTo, c, Slots, MAX_SHARES

\* A payer that can afford each transfer in turn can afford all of them, counting
\* what it pays itself.
LEMMA PayerCovers ==
  ASSUME NEW pays \in [1..8 -> Nat], NEW to, NEW payer, NEW m \in 1..8,
         Len(to) = m, \A k \in 1..8 : k > m => pays[k] = 0,
         NEW balance \in Nat, Affordable(balance, pays, to, payer)
  PROVE  Total(pays) <= balance + CreditedTo(pays, to, payer)
<1>1. PICK c \in [1..8 -> Nat] :
        c = [j \in 1..8 |-> IF j <= Len(to) /\ to[j] = payer THEN pays[j] ELSE 0]
  OBVIOUS
<1>2. PICK s \in [1..8 -> Nat] :
        s = [j \in 1..8 |-> IF j < m /\ j <= Len(to) /\ to[j] # payer
                            THEN pays[j] ELSE 0]
  OBVIOUS
<1>3. PICK x \in Nat : x = pays[m]
  OBVIOUS
<1>4. PICK p \in Nat : p = Total(pays)
  BY TotalNat
<1>5. PICK credited \in Nat : credited = Total(c)
  BY TotalNat
<1>6. PICK spent \in Nat : spent = Total(s)
  BY TotalNat
<1>7. credited = CreditedTo(pays, to, payer)
  BY <1>1, <1>5 DEF CreditedTo, Slots, MAX_SHARES
<1>8. spent = SpentBefore(pays, to, payer, m)
  BY <1>2, <1>6 DEF SpentBefore, Slots, MAX_SHARES
<1>9. ASSUME NEW k \in 1..8
      PROVE  pays[k] <= c[k] + s[k] + IF k = m THEN x ELSE 0
  <2>1. PICK pk \in Nat, ck \in Nat, sk \in Nat, extra \in Nat :
          /\ pk = pays[k] /\ ck = c[k] /\ sk = s[k]
          /\ extra = IF k = m THEN x ELSE 0
    OBVIOUS
  <2>2. k = m => pk = extra
    BY <1>3, <2>1
  <2>3. k > m => pk = 0
    BY <2>1
  <2>4. k < m => pk = ck \/ pk = sk
    <3>1. k < m => k <= Len(to)
      OBVIOUS
    <3>2. k <= Len(to) /\ to[k] = payer => ck = pk
      BY <1>1, <2>1
    <3>3. k < m /\ k <= Len(to) /\ to[k] # payer => sk = pk
      BY <1>2, <2>1
    <3> QED
      BY <3>1, <3>2, <3>3
  <2>5. pk = extra \/ pk = 0 \/ pk = ck \/ pk = sk
    BY <2>2, <2>3, <2>4
  <2>6. pk <= ck + sk + extra
    BY <2>5
  <2> QED
    BY <2>1, <2>6
<1>10. p <= credited + spent + x
  BY <1>4, <1>5, <1>6, <1>9, TotalCovered
<1>11. spent + x <= balance
  <2>1. m \in 1..Len(to)
    OBVIOUS
  <2>2. balance >= SpentBefore(pays, to, payer, m) + pays[m]
    BY <2>1 DEF Affordable
  <2> QED
    BY <1>3, <1>8, <2>2
<1>12. p <= balance + credited
  BY <1>10, <1>11
<1> QED
  BY <1>4, <1>7, <1>12

\* After the transfers every balance is a natural number, and only the payer may
\* hold less than before.
LEMMA TransferredNat ==
  ASSUME NEW X, NEW l \in [X -> Nat], NEW pays \in [1..8 -> Nat], NEW to,
         NEW payer \in X, Total(pays) <= l[payer] + CreditedTo(pays, to, payer)
  PROVE  /\ Transferred(l, pays, to, payer) \in [X -> Nat]
         /\ \A a \in X : a # payer => Transferred(l, pays, to, payer)[a] >= l[a]
<1>1. Total(pays) \in Nat
  BY TotalNat
<1>3. ASSUME NEW a \in X
      PROVE  /\ Transferred(l, pays, to, payer)[a] \in Nat
             /\ a # payer => Transferred(l, pays, to, payer)[a] >= l[a]
  <2>1. PICK c \in Nat : c = CreditedTo(pays, to, a)
    BY CreditedNat
  <2>2. PICK p \in Nat : p = Total(pays)
    BY <1>1
  <2>3. PICK v \in Nat : v = l[a]
    OBVIOUS
  <2>4. Transferred(l, pays, to, payer)[a]
          = v + c - IF a = payer THEN p ELSE 0
    BY <2>1, <2>2, <2>3 DEF Transferred
  <2>5. CASE a = payer
    <3>1. p <= v + c
      BY <2>1, <2>2, <2>3, <2>5
    <3>2. v + c - p \in Nat
      BY <3>1
    <3> QED
      BY <2>4, <2>5, <3>2
  <2>6. CASE a # payer
    <3>1. v + c \in Nat /\ v + c >= v
      OBVIOUS
    <3>2. Transferred(l, pays, to, payer)[a] = v + c
      BY <2>4, <2>6
    <3> QED
      BY <2>3, <2>6, <3>1, <3>2
  <2> QED
    BY <2>5, <2>6
<1>4. Transferred(l, pays, to, payer)
        = [a \in X |-> Transferred(l, pays, to, payer)[a]]
  BY DEF Transferred
<1> QED
  BY <1>3, <1>4

\* Topping an address up takes no more than the payer has, leaves the address
\* with its rent and nobody else with less.
LEMMA ToppedUpFacts ==
  ASSUME NEW X, NEW l \in [X -> Nat], NEW payer \in X, NEW a \in X, payer # a,
         NEW rent \in Nat, l[payer] >= Shortfall(l, a, rent)
  PROVE  /\ ToppedUp(l, payer, a, rent) \in [X -> Nat]
         /\ ToppedUp(l, payer, a, rent)[a] >= rent
         /\ \A b \in X : b # payer => ToppedUp(l, payer, a, rent)[b] >= l[b]
<1>1. PICK s \in Nat : s = Shortfall(l, a, rent) /\ l[a] + s >= rent
  BY DEF Shortfall
<1>2. ToppedUp(l, payer, a, rent) = [l EXCEPT ![payer] = @ - s, ![a] = @ + s]
  BY <1>1 DEF ToppedUp
<1>3. l[payer] \in Nat /\ l[a] \in Nat /\ l[payer] - s \in Nat /\ l[a] + s \in Nat
  BY <1>1
<1> QED
  BY <1>1, <1>2, <1>3

-----------------------------------------------------------------------------
(* Addresses and data *)

\* Derived addresses belong to nobody's key, and tell what they derive from.
LEMMA DerivedAddresses ==
  /\ \A c \in Creators, id \in NamespaceIds : NamespaceAddr(c, id) \in NamespaceAddrs
  /\ \A n \in NamespaceAddrs \cup Impostors, e \in Events : RecordAddr(n, e) \in RecordAddrs
  /\ NamespaceAddrs \subseteq Addresses /\ RecordAddrs \subseteq Addresses
  /\ Impostors \subseteq Addresses /\ Keys \subseteq Addresses
  /\ NamespaceAddrs \cap RecordAddrs = {}
  /\ Keys \cap (NamespaceAddrs \cup RecordAddrs) = {}
  /\ Impostors \cap (NamespaceAddrs \cup RecordAddrs) = {}
<1>1. \A c \in Creators, id \in NamespaceIds : NamespaceAddr(c, id) \in NamespaceAddrs
  BY DEF NamespaceAddrs
<1>2. \A n \in NamespaceAddrs \cup Impostors, e \in Events : RecordAddr(n, e) \in RecordAddrs
  BY DEF RecordAddrs
<1>3. /\ NamespaceAddrs \subseteq Addresses /\ RecordAddrs \subseteq Addresses
      /\ Impostors \subseteq Addresses /\ Keys \subseteq Addresses
  BY DEF Addresses
<1>4. /\ NamespaceAddrs \cap RecordAddrs = {}
      /\ Keys \cap (NamespaceAddrs \cup RecordAddrs) = {}
      /\ Impostors \cap (NamespaceAddrs \cup RecordAddrs) = {}
  BY AddressAssumption
<1> QED
  BY <1>1, <1>2, <1>3, <1>4

\* The rent of what the program writes.
LEMMA MinBalanceOfData ==
  /\ \A c, id, k : MinBalance(NamespaceData(c, id, k)) = NamespaceRent
  /\ \A e, amount : MinBalance(RecordData(e, amount)) = RecordRent
  BY DEF MinBalance, NamespaceData, RecordData

\* Handing a namespace over changes its authority and nothing else.
LEMMA NewAuthority ==
  ASSUME NEW c, NEW id, NEW k, NEW new
  PROVE  [NamespaceData(c, id, k) EXCEPT !.authority = new] = NamespaceData(c, id, new)
  BY DEF NamespaceData

Authorities == (AuthorityArgs \cup Keys) \ {ZeroKey}

IInv == TypeOK /\ ProgramAccounts /\ RentExempt

\* Whoever settles or hands over was authorised by a namespace of the program.
LEMMA AuthorizedByNamespace ==
  ASSUME IInv, NEW n \in NamespaceAddrs \cup Impostors, NEW S, NEW k,
         Authorized(owner, data, S, k, n)
  PROVE  IsNamespace(n) /\ n \in NamespaceAddrs
<1>1. /\ owner[n] = "program" /\ data[n].kind = "namespace" /\ n \in Addresses
  BY DerivedAddresses DEF Authorized
<1>2. IsNamespace(n) \/ IsRecord(n)
  BY <1>1 DEF IInv, ProgramAccounts
<1>3. ~IsRecord(n)
  <2>1. \A e, amount : RecordData(e, amount).kind = "record"
    BY DEF RecordData
  <2>2. IsRecord(n) => data[n].kind = "record"
    BY <2>1 DEF IsRecord
  <2> QED
    BY <1>1, <2>2
<1> QED
  BY <1>2, <1>3, DerivedAddresses DEF IsNamespace

-----------------------------------------------------------------------------
(* What every step does *)

\* The program's accounts stay its own; at most an authority changes.
Kept ==
  \A a \in Addresses : owner[a] = "program" =>
    /\ owner'[a] = "program"
    /\ \/ data'[a] = data[a]
       \/ \E c \in Creators, id \in NamespaceIds, k \in Authorities, new \in Authorities :
            /\ a = NamespaceAddr(c, id)
            /\ data[a] = NamespaceData(c, id, k)
            /\ data'[a] = NamespaceData(c, id, new)

\* What it makes is a namespace or a record, with its rent.
Made ==
  \A a \in Addresses : owner[a] # "program" /\ owner'[a] = "program" =>
    /\ IsNamespace(a)' \/ IsRecord(a)'
    /\ lamports'[a] >= MinBalance(data'[a])

\* Who has less than before signed.
SignedDebits ==
  /\ \A a \in Addresses : lamports'[a] < lamports[a] => a \in signers' /\ a \in Keys
  /\ \A t \in TokenAccounts : tokens'[t] < tokens[t] => Holder[t] \in signers'

StepFacts == TypeOK' /\ Kept /\ Made /\ SignedDebits

\* The program's accounts are not wallets.
LEMMA ProgramAccountsNotKeys ==
  ASSUME IInv, NEW a \in Addresses, owner[a] = "program"
  PROVE  a \notin Keys
<1>1. a \in NamespaceAddrs \cup RecordAddrs
  BY DerivedAddresses DEF IInv, ProgramAccounts, IsNamespace, IsRecord
<1> QED
  BY <1>1, DerivedAddresses

\* A namespace stays one.
LEMMA NamespacesStay ==
  ASSUME Kept, NEW n \in Addresses, IsNamespace(n)
  PROVE  IsNamespace(n)'
<1>1. PICK c \in Creators, id \in NamespaceIds, k \in Authorities :
        /\ n = NamespaceAddr(c, id)
        /\ owner[n] = "program"
        /\ data[n] = NamespaceData(c, id, k)
  BY DEF IsNamespace, Authorities
<1>2. owner'[n] = "program"
  BY <1>1 DEF Kept
<1>3. \E c2 \in Creators, id2 \in NamespaceIds, new \in Authorities :
        n = NamespaceAddr(c2, id2) /\ data'[n] = NamespaceData(c2, id2, new)
  <2>1. CASE data'[n] = data[n]
    BY <1>1, <2>1
  <2>2. CASE data'[n] # data[n]
    BY <1>1, <2>2 DEF Kept
  <2> QED
    BY <2>1, <2>2
<1> QED
  BY <1>2, <1>3 DEF IsNamespace, Authorities

\* A step of which these facts hold preserves the invariant.
LEMMA FactsPreserve ==
  ASSUME IInv, StepFacts
  PROVE  IInv'
<1>1. ASSUME NEW a \in Addresses, owner'[a] = "program"
      PROVE  IsNamespace(a)' \/ IsRecord(a)'
  <2>1. CASE owner[a] # "program"
    BY <1>1, <2>1 DEF StepFacts, Made
  <2>2. CASE owner[a] = "program"
    <3>1. CASE IsNamespace(a)
      BY <3>1, NamespacesStay DEF StepFacts
    <3>2. CASE IsRecord(a)
      <4>1. PICK n \in NamespaceAddrs, e \in Events, amount \in Amounts \ {0} :
              /\ a = RecordAddr(n, e)
              /\ data[a] = RecordData(e, amount)
              /\ IsNamespace(n)
        BY <3>2 DEF IsRecord
      <4>2. IsNamespace(n)'
        BY <4>1, NamespacesStay, DerivedAddresses DEF StepFacts
      <4>3. data'[a] = data[a]
        <5>1. a \in RecordAddrs
          BY <4>1, DerivedAddresses
        <5>2. \A c \in Creators, id \in NamespaceIds : a # NamespaceAddr(c, id)
          BY <5>1, DerivedAddresses
        <5> QED
          BY <2>2, <5>2 DEF StepFacts, Kept
      <4> QED
        BY <1>1, <4>1, <4>2, <4>3 DEF IsRecord
    <3> QED
      BY <2>2, <3>1, <3>2 DEF IInv, ProgramAccounts
  <2> QED
    BY <2>1, <2>2
<1>2. ASSUME NEW a \in Addresses, owner'[a] = "program"
      PROVE  lamports'[a] >= MinBalance(data'[a])
  <2>1. CASE owner[a] # "program"
    BY <1>2, <2>1 DEF StepFacts, Made
  <2>2. CASE owner[a] = "program"
    <3>1. a \notin Keys
      BY <2>2, ProgramAccountsNotKeys
    <3>2. ~(lamports'[a] < lamports[a])
      BY <3>1 DEF StepFacts, SignedDebits
    <3>3. MinBalance(data'[a]) = MinBalance(data[a])
      BY <2>2, MinBalanceOfData DEF StepFacts, Kept
    <3>4. lamports[a] >= MinBalance(data[a])
      BY <2>2 DEF IInv, RentExempt
    <3>5. lamports[a] \in Nat /\ lamports'[a] \in Nat
      BY DEF IInv, StepFacts, TypeOK
    <3>6. MinBalance(data[a]) \in Nat
      BY <2>2, MinBalanceOfData, InputAssumption
      DEF IInv, ProgramAccounts, IsNamespace, IsRecord
    <3> QED
      BY <3>2, <3>3, <3>4, <3>5, <3>6
  <2> QED
    BY <2>1, <2>2
<1> QED
  BY <1>1, <1>2 DEF IInv, StepFacts, ProgramAccounts, RentExempt

-----------------------------------------------------------------------------
(* One lemma per transaction *)

\* CreateNamespace makes a namespace and charges the payer its rent.
LEMMA CreateNamespaceStep ==
  ASSUME IInv, NEW S \in SUBSET Keys, signers' = S,
         NEW payer \in Keys, NEW creator \in Creators, NEW id \in NamespaceIds,
         NEW k \in AuthorityArgs,
         CreateNamespace(S, payer, creator, id, k)
  PROVE  StepFacts
<1>1. PICK n \in NamespaceAddrs : n = NamespaceAddr(creator, id)
  BY DerivedAddresses
<1>2. n \in Addresses /\ payer \in Addresses /\ payer # n /\ n \notin Keys
  BY <1>1, DerivedAddresses
<1>3. /\ k # ZeroKey /\ payer \in S /\ owner[n] = "system"
      /\ lamports[payer] >= Shortfall(lamports, n, NamespaceRent)
      /\ owner' = [owner EXCEPT ![n] = "program"]
      /\ data' = [data EXCEPT ![n] = NamespaceData(creator, id, k)]
      /\ lamports' = ToppedUp(lamports, payer, n, NamespaceRent)
      /\ settling' = {} /\ tokens' = tokens
  BY <1>1 DEF CreateNamespace, CreateNamespaceOk, Creatable, Free
<1>4. /\ owner \in [Addresses -> Owners] /\ data \in [Addresses -> DataValues]
      /\ lamports \in [Addresses -> Nat] /\ tokens \in [TokenAccounts -> Nat]
      /\ NamespaceRent \in Nat
  BY InputAssumption DEF IInv, TypeOK
<1>5. /\ lamports' \in [Addresses -> Nat]
      /\ lamports'[n] >= NamespaceRent
      /\ \A b \in Addresses : b # payer => lamports'[b] >= lamports[b]
  BY <1>2, <1>3, <1>4, ToppedUpFacts
<1>6. TypeOK'
  <2>1. NamespaceData(creator, id, k) \in DataValues
    BY DEF DataValues
  <2>2. "program" \in Owners
    BY DEF Owners
  <2>3. owner' \in [Addresses -> Owners] /\ data' \in [Addresses -> DataValues]
    BY <1>2, <1>3, <1>4, <2>1, <2>2
  <2> QED
    BY <1>3, <1>4, <1>5, <2>3 DEF TypeOK
<1>7. Kept
  BY <1>3, <1>4 DEF Kept
<1>8. Made
  <2> SUFFICES ASSUME NEW a \in Addresses, owner[a] # "program", owner'[a] = "program"
               PROVE  /\ IsNamespace(a)' \/ IsRecord(a)'
                      /\ lamports'[a] >= MinBalance(data'[a])
    BY DEF Made
  <2>1. a = n
    BY <1>2, <1>3, <1>4
  <2>2. data'[a] = NamespaceData(creator, id, k)
    BY <1>2, <1>3, <1>4, <2>1
  <2>3. IsNamespace(a)'
    BY <1>1, <1>3, <2>1, <2>2 DEF IsNamespace
  <2> QED
    BY <1>5, <2>1, <2>2, <2>3, MinBalanceOfData
<1>9. SignedDebits
  <2>1. \A a \in Addresses : lamports'[a] < lamports[a] => a = payer
    BY <1>4, <1>5
  <2>2. \A t \in TokenAccounts : ~(tokens'[t] < tokens[t])
    BY <1>3, <1>4
  <2> QED
    BY <1>3, <2>1, <2>2 DEF SignedDebits
<1> QED
  BY <1>6, <1>7, <1>8, <1>9 DEF StepFacts

\* SetNamespaceAuthority changes the authority of a namespace, by its authority.
LEMMA SetNamespaceAuthorityStep ==
  ASSUME IInv, NEW S \in SUBSET Keys, signers' = S,
         NEW k \in Keys, NEW n \in NamespaceAddrs \cup Impostors, NEW new \in AuthorityArgs,
         SetNamespaceAuthority(S, k, n, new)
  PROVE  StepFacts
<1>1. /\ new # ZeroKey /\ Authorized(owner, data, S, k, n)
      /\ data' = [data EXCEPT ![n].authority = new]
      /\ settling' = {} /\ owner' = owner /\ lamports' = lamports /\ tokens' = tokens
  BY DEF SetNamespaceAuthority
<1>2. /\ owner \in [Addresses -> Owners] /\ data \in [Addresses -> DataValues]
      /\ lamports \in [Addresses -> Nat] /\ tokens \in [TokenAccounts -> Nat]
  BY DEF IInv, TypeOK
<1>3. IsNamespace(n) /\ n \in Addresses
  BY <1>1, AuthorizedByNamespace, DerivedAddresses
<1>4. PICK c \in Creators, id \in NamespaceIds, old \in Authorities :
        n = NamespaceAddr(c, id) /\ data[n] = NamespaceData(c, id, old)
  BY <1>3 DEF IsNamespace, Authorities
<1>5. data' = [data EXCEPT ![n] = NamespaceData(c, id, new)]
  <2>1. data' = [data EXCEPT ![n] = [data[n] EXCEPT !.authority = new]]
    BY <1>1
  <2>2. [data[n] EXCEPT !.authority = new] = NamespaceData(c, id, new)
    BY <1>4, NewAuthority
  <2> QED
    BY <2>1, <2>2
<1>6. TypeOK'
  <2>1. NamespaceData(c, id, new) \in DataValues
    BY DEF DataValues
  <2>2. data' \in [Addresses -> DataValues]
    BY <1>2, <1>3, <1>5, <2>1
  <2> QED
    BY <1>1, <1>2, <2>2 DEF TypeOK
<1>7. Kept
  <2>1. new \in Authorities
    BY <1>1 DEF Authorities
  <2>2. \A a \in Addresses : a # n => data'[a] = data[a]
    BY <1>2, <1>5
  <2>3. data'[n] = NamespaceData(c, id, new)
    BY <1>2, <1>3, <1>5
  <2> QED
    BY <1>1, <1>4, <2>1, <2>2, <2>3 DEF Kept
<1>8. Made /\ SignedDebits
  BY <1>1, <1>2 DEF Made, SignedDebits
<1> QED
  BY <1>6, <1>7, <1>8 DEF StepFacts

\* A plain transfer takes from a wallet that signs and makes nothing.
LEMMA DepositStep ==
  ASSUME IInv, NEW S \in SUBSET Keys, signers' = S,
         NEW from \in Keys, NEW to \in DepositTargets, NEW amount \in Deposits,
         Deposit(S, from, to, amount)
  PROVE  StepFacts
<1>1. /\ from \in S /\ from # to /\ lamports[from] >= amount
      /\ lamports' = [lamports EXCEPT ![from] = @ - amount, ![to] = @ + amount]
      /\ settling' = {} /\ owner' = owner /\ data' = data /\ tokens' = tokens
  BY DEF Deposit
<1>2. /\ owner \in [Addresses -> Owners] /\ data \in [Addresses -> DataValues]
      /\ lamports \in [Addresses -> Nat] /\ tokens \in [TokenAccounts -> Nat]
      /\ amount \in Nat /\ from \in Addresses /\ to \in Addresses
  BY InputAssumption, DerivedAddresses DEF IInv, TypeOK
<1>3. lamports[from] \in Nat /\ lamports[to] \in Nat
  BY <1>2
<1>4. lamports[from] - amount \in Nat /\ lamports[to] + amount \in Nat
  BY <1>1, <1>2, <1>3
<1>5. lamports' \in [Addresses -> Nat]
  BY <1>1, <1>2, <1>4
<1>6. \A a \in Addresses : a # from => ~(lamports'[a] < lamports[a])
  BY <1>1, <1>2, <1>3
<1>7. TypeOK'
  BY <1>1, <1>2, <1>5 DEF TypeOK
<1>8. Kept /\ Made
  BY <1>1 DEF Kept, Made
<1>9. SignedDebits
  BY <1>1, <1>2, <1>6 DEF SignedDebits
<1> QED
  BY <1>7, <1>8, <1>9 DEF StepFacts

\* What settling takes: any payer that passes the checks on funded balances l has
\* them all left natural, and nobody but the payer has less.
LEMMA SettledBalances ==
  ASSUME IInv, NEW l \in [Addresses -> Nat], NEW o, NEW d, NEW S,
         NEW payer \in Keys, NEW k, NEW n \in NamespaceAddrs \cup Impostors,
         NEW to, NEW e \in Events, NEW amount \in Amounts, NEW bps \in BpsVectors,
         SettleOk(o, d, l, S, payer, k, n, to, e, amount, bps)
  PROVE  /\ amount # 0 /\ payer \in S
         /\ Authorized(o, d, S, k, n)
         /\ Free(o, d, l, RecordAddr(n, e))
         /\ Settled(l, payer, n, to, e, amount, bps) \in [Addresses -> Nat]
         /\ Settled(l, payer, n, to, e, amount, bps)[RecordAddr(n, e)] >= RecordRent
         /\ \A a \in Addresses : a # payer =>
              Settled(l, payer, n, to, e, amount, bps)[a] >= l[a]
<1>1. PICK r \in Addresses : r = RecordAddr(n, e)
  BY DerivedAddresses
<1>2. payer \in Addresses /\ payer # r
  BY <1>1, DerivedAddresses
<1>3. PICK f : f = ToppedUp(l, payer, r, RecordRent)
  OBVIOUS
<1>4. PICK pays : pays = Payouts(amount, bps)
  OBVIOUS
<1>5. /\ SplitVerdict(amount, bps) = "ok" /\ Len(to) = Len(bps)
      /\ Authorized(o, d, S, k, n)
      /\ payer \in S /\ Free(o, d, l, r)
      /\ l[payer] >= Shortfall(l, r, RecordRent)
      /\ Affordable(f[payer], pays, to, payer)
  BY <1>1, <1>3, <1>4 DEF SettleOk, Creatable
<1>6. RecordRent \in Nat /\ amount \in Nat /\ bps \in Seq(Nat)
  BY InputAssumption
<1>7. /\ Len(bps) \in 1..8 /\ pays \in [1..8 -> Nat]
      /\ \A j \in 1..8 : j > Len(bps) => pays[j] = 0
  BY <1>4, <1>5, <1>6, PayoutsWellFormed
<1>8. /\ f \in [Addresses -> Nat] /\ f[r] >= RecordRent
      /\ \A a \in Addresses : a # payer => f[a] >= l[a]
  BY <1>2, <1>3, <1>5, <1>6, ToppedUpFacts
<1>9. Total(pays) <= f[payer] + CreditedTo(pays, to, payer)
  <2>1. PICK m \in 1..8 : m = Len(to)
    BY <1>5, <1>7
  <2>2. f[payer] \in Nat
    BY <1>2, <1>8
  <2>3. \A j \in 1..8 : j > m => pays[j] = 0
    BY <1>5, <1>7, <2>1
  <2> QED
    BY <1>5, <1>7, <2>1, <2>2, <2>3, PayerCovers
<1>10. PICK t : t = Transferred(f, pays, to, payer)
  OBVIOUS
<1>11. /\ t \in [Addresses -> Nat]
       /\ \A a \in Addresses : a # payer => t[a] >= f[a]
  BY <1>2, <1>7, <1>8, <1>9, <1>10, TransferredNat
<1>12. t = Settled(l, payer, n, to, e, amount, bps)
  BY <1>1, <1>3, <1>4, <1>10 DEF Settled
<1>13. t[r] >= RecordRent
  BY <1>2, <1>6, <1>8, <1>11
<1>14. \A a \in Addresses : a # payer => t[a] >= l[a]
  BY <1>8, <1>11
<1>15. amount # 0
  BY <1>5, <1>6 DEF SplitVerdict
<1> QED
  BY <1>1, <1>5, <1>11, <1>12, <1>13, <1>14, <1>15

\* Writing the record of an event of an existing namespace into a free account.
LEMMA RecordMade ==
  ASSUME IInv, NEW S \in SUBSET Keys, signers' = S, NEW payer \in S,
         NEW n \in NamespaceAddrs, NEW e \in Events, NEW amount \in Amounts \ {0},
         NEW r, r = RecordAddr(n, e),
         IsNamespace(n), owner[r] = "system",
         owner' = [owner EXCEPT ![r] = "program"],
         data' = [data EXCEPT ![r] = RecordData(e, amount)],
         lamports' \in [Addresses -> Nat], lamports'[r] >= RecordRent,
         \A a \in Addresses : a # payer => lamports'[a] >= lamports[a],
         tokens' \in [TokenAccounts -> Nat],
         \A t \in TokenAccounts : tokens'[t] < tokens[t] => Holder[t] \in S,
         settling' = {r}
  PROVE  StepFacts
<1>1. /\ owner \in [Addresses -> Owners] /\ data \in [Addresses -> DataValues]
      /\ lamports \in [Addresses -> Nat]
  BY DEF IInv, TypeOK
<1>2. /\ r \in Addresses /\ r \in RecordAddrs /\ n \in Addresses /\ n # r
  BY DerivedAddresses
<1>3. TypeOK'
  <2>1. RecordData(e, amount) \in DataValues
    BY DEF DataValues
  <2>2. "program" \in Owners
    BY DEF Owners
  <2>3. owner' \in [Addresses -> Owners] /\ data' \in [Addresses -> DataValues]
    BY <1>1, <1>2, <2>1, <2>2
  <2> QED
    BY <1>2, <2>3 DEF TypeOK
<1>4. Kept
  BY <1>1 DEF Kept
<1>5. IsNamespace(n)'
  BY <1>2, <1>4, NamespacesStay
<1>6. Made
  <2> SUFFICES ASSUME NEW a \in Addresses, owner[a] # "program", owner'[a] = "program"
               PROVE  /\ IsNamespace(a)' \/ IsRecord(a)'
                      /\ lamports'[a] >= MinBalance(data'[a])
    BY DEF Made
  <2>1. a = r
    BY <1>1, <1>2
  <2>2. data'[a] = RecordData(e, amount)
    BY <1>1, <1>2, <2>1
  <2>3. IsRecord(a)'
    BY <1>5, <2>1, <2>2 DEF IsRecord
  <2> QED
    BY <2>1, <2>2, <2>3, MinBalanceOfData
<1>7. SignedDebits
  <2>1. \A a \in Addresses : lamports'[a] < lamports[a] => a = payer
    BY <1>1
  <2> QED
    BY <2>1 DEF SignedDebits
<1> QED
  BY <1>3, <1>4, <1>6, <1>7 DEF StepFacts

\* SettleN pays out of the payer and records the event.
LEMMA SettleNStep ==
  ASSUME IInv, NEW S \in SUBSET Keys, signers' = S,
         NEW payer \in Keys, NEW k \in Keys, NEW n \in NamespaceAddrs \cup Impostors,
         NEW to \in RecipientVectors, NEW e \in Events, NEW amount \in Amounts,
         NEW bps \in BpsVectors,
         SettleN(S, payer, k, n, to, e, amount, bps)
  PROVE  StepFacts
<1>1. PICK r \in Addresses : r = RecordAddr(n, e)
  BY DerivedAddresses
<1>2. /\ SettleOk(owner, data, lamports, S, payer, k, n, to, e, amount, bps)
      /\ owner' = [owner EXCEPT ![r] = "program"]
      /\ data' = [data EXCEPT ![r] = RecordData(e, amount)]
      /\ lamports' = Settled(lamports, payer, n, to, e, amount, bps)
      /\ settling' = {r} /\ tokens' = tokens
  BY <1>1 DEF SettleN
<1>3. lamports \in [Addresses -> Nat] /\ tokens \in [TokenAccounts -> Nat]
  BY DEF IInv, TypeOK
<1>4. /\ amount # 0 /\ payer \in S
      /\ Authorized(owner, data, S, k, n)
      /\ Free(owner, data, lamports, r)
      /\ lamports' \in [Addresses -> Nat]
      /\ lamports'[r] >= RecordRent
      /\ \A a \in Addresses : a # payer => lamports'[a] >= lamports[a]
  BY <1>1, <1>2, <1>3, SettledBalances
<1>5. IsNamespace(n) /\ n \in NamespaceAddrs
  BY <1>4, AuthorizedByNamespace
<1>6. \A t \in TokenAccounts : ~(tokens'[t] < tokens[t])
  BY <1>2, <1>3
<1> QED
  BY <1>1, <1>2, <1>3, <1>4, <1>5, <1>6, RecordMade DEF Free

\* A payer that holds the whole amount can afford each transfer in turn.
LEMMA WholeAmountCovers ==
  ASSUME NEW pays \in [1..8 -> Nat], NEW to, NEW payer, NEW balance \in Nat,
         balance >= Total(pays)
  PROVE  Total(pays) <= balance + CreditedTo(pays, to, payer)
<1>1. CreditedTo(pays, to, payer) \in Nat /\ Total(pays) \in Nat
  BY CreditedNat, TotalNat
<1> QED
  BY <1>1

\* SettleTokenN moves tokens of the payer and records the event.
LEMMA SettleTokenNStep ==
  ASSUME IInv, NEW S \in SUBSET Keys, signers' = S,
         NEW payer \in Keys, NEW k \in Keys, NEW n \in NamespaceAddrs \cup Impostors,
         NEW source \in TokenAccounts, NEW mint \in Mints,
         NEW to \in RecipientVectors, NEW e \in Events, NEW amount \in Amounts,
         NEW decimals \in DecimalsArgs, NEW bps \in BpsVectors,
         SettleTokenN(S, payer, k, n, source, mint, to, e, amount, decimals, bps)
  PROVE  StepFacts
<1>1. PICK r \in Addresses : r = RecordAddr(n, e)
  BY DerivedAddresses
<1>2. PICK pays : pays = Payouts(amount, bps)
  OBVIOUS
<1>3. /\ SplitVerdict(amount, bps) = "ok"
      /\ Authorized(owner, data, S, k, n)
      /\ payer \in S /\ owner[r] = "system"
      /\ lamports[payer] >= Shortfall(lamports, r, RecordRent)
      /\ owner' = [owner EXCEPT ![r] = "program"]
      /\ data' = [data EXCEPT ![r] = RecordData(e, amount)]
      /\ lamports' = ToppedUp(lamports, payer, r, RecordRent)
      /\ tokens' = Transferred(tokens, pays, to, source)
      /\ settling' = {r}
      /\ Holder[source] = payer
      /\ tokens[source] >= Total(pays)
  BY <1>1, <1>2 DEF SettleTokenN, Creatable, Free, TokenAccountsOk
<1>4. /\ lamports \in [Addresses -> Nat] /\ tokens \in [TokenAccounts -> Nat]
      /\ RecordRent \in Nat /\ amount \in Nat /\ bps \in Seq(Nat)
  BY InputAssumption DEF IInv, TypeOK
<1>5. pays \in [1..8 -> Nat] /\ amount # 0
  BY <1>2, <1>3, <1>4, PayoutsWellFormed DEF SplitVerdict
<1>6. payer \in Addresses /\ payer # r
  BY <1>1, DerivedAddresses
<1>7. /\ lamports' \in [Addresses -> Nat]
      /\ lamports'[r] >= RecordRent
      /\ \A a \in Addresses : a # payer => lamports'[a] >= lamports[a]
  BY <1>3, <1>4, <1>6, ToppedUpFacts
<1>8. Total(pays) <= tokens[source] + CreditedTo(pays, to, source)
  <2>1. tokens[source] \in Nat
    BY <1>4
  <2> QED
    BY <1>3, <1>5, <2>1, WholeAmountCovers
<1>9. /\ tokens' \in [TokenAccounts -> Nat]
      /\ \A t \in TokenAccounts : t # source => tokens'[t] >= tokens[t]
  BY <1>3, <1>4, <1>5, <1>8, TransferredNat
<1>10. \A t \in TokenAccounts : tokens'[t] < tokens[t] => Holder[t] \in S
  <2> SUFFICES ASSUME NEW t \in TokenAccounts, t # source
               PROVE  ~(tokens'[t] < tokens[t])
    BY <1>3
  <2>1. tokens'[t] \in Nat /\ tokens[t] \in Nat /\ tokens'[t] >= tokens[t]
    BY <1>4, <1>9
  <2> QED
    BY <2>1
<1>11. IsNamespace(n) /\ n \in NamespaceAddrs
  BY <1>3, AuthorizedByNamespace
<1> QED
  BY <1>1, <1>3, <1>5, <1>7, <1>9, <1>10, <1>11, RecordMade

\* FirstSettlement makes a namespace and, in it, a record.
LEMMA FirstSettlementStep ==
  ASSUME IInv, NEW S \in SUBSET Keys, signers' = S,
         NEW payer \in Keys, NEW creator \in Creators, NEW id \in NamespaceIds,
         NEW k \in Keys,
         NEW to \in RecipientVectors, NEW e \in Events, NEW amount \in Amounts,
         NEW bps \in BpsVectors,
         FirstSettlement(S, payer, creator, id, k, to, e, amount, bps)
  PROVE  StepFacts
<1>1. PICK n \in NamespaceAddrs : n = NamespaceAddr(creator, id)
  BY DerivedAddresses
<1>2. PICK r \in RecordAddrs : r = RecordAddr(n, e)
  BY DerivedAddresses
<1>3. /\ n \in Addresses /\ r \in Addresses /\ n # r
      /\ payer \in Addresses /\ payer # n /\ payer # r
  BY DerivedAddresses
<1>4. PICK o : o = [owner EXCEPT ![n] = "program"]
  OBVIOUS
<1>5. PICK d : d = [data EXCEPT ![n] = NamespaceData(creator, id, k)]
  OBVIOUS
<1>6. PICK l : l = ToppedUp(lamports, payer, n, NamespaceRent)
  OBVIOUS
<1>7. /\ k # ZeroKey /\ owner[n] = "system"
      /\ lamports[payer] >= Shortfall(lamports, n, NamespaceRent)
  BY <1>1 DEF FirstSettlement, CreateNamespaceOk, Creatable, Free
<1>8. /\ SettleOk(o, d, l, S, payer, k, n, to, e, amount, bps)
      /\ owner' = [o EXCEPT ![r] = "program"]
      /\ data' = [d EXCEPT ![r] = RecordData(e, amount)]
      /\ lamports' = Settled(l, payer, n, to, e, amount, bps)
      /\ settling' = {r} /\ tokens' = tokens
  BY <1>1, <1>2, <1>4, <1>5, <1>6 DEF FirstSettlement
<1>9. /\ owner \in [Addresses -> Owners] /\ data \in [Addresses -> DataValues]
      /\ lamports \in [Addresses -> Nat] /\ tokens \in [TokenAccounts -> Nat]
      /\ NamespaceRent \in Nat /\ RecordRent \in Nat
  BY InputAssumption DEF IInv, TypeOK
<1>10. /\ l \in [Addresses -> Nat] /\ l[n] >= NamespaceRent
       /\ \A a \in Addresses : a # payer => l[a] >= lamports[a]
  BY <1>3, <1>6, <1>7, <1>9, ToppedUpFacts
<1>11. /\ amount # 0 /\ payer \in S
       /\ Free(o, d, l, r)
       /\ lamports' \in [Addresses -> Nat]
       /\ lamports'[r] >= RecordRent
       /\ \A a \in Addresses : a # payer => lamports'[a] >= l[a]
  BY <1>2, <1>8, <1>10, SettledBalances
<1>12. owner[r] = "system"
  BY <1>3, <1>4, <1>9, <1>11 DEF Free
<1>13. owner' = [owner EXCEPT ![n] = "program", ![r] = "program"]
  BY <1>4, <1>8
<1>14. data' = [data EXCEPT ![n] = NamespaceData(creator, id, k),
                            ![r] = RecordData(e, amount)]
  BY <1>5, <1>8
<1>15. TypeOK'
  <2>1. NamespaceData(creator, id, k) \in DataValues /\ RecordData(e, amount) \in DataValues
    BY DEF DataValues
  <2>2. "program" \in Owners
    BY DEF Owners
  <2>3. owner' \in [Addresses -> Owners] /\ data' \in [Addresses -> DataValues]
    BY <1>3, <1>9, <1>13, <1>14, <2>1, <2>2
  <2> QED
    BY <1>8, <1>9, <1>11, <2>3 DEF TypeOK
<1>16. Kept
  BY <1>7, <1>9, <1>12, <1>13, <1>14 DEF Kept
<1>17. /\ owner'[n] = "program" /\ data'[n] = NamespaceData(creator, id, k)
       /\ owner'[r] = "program" /\ data'[r] = RecordData(e, amount)
  BY <1>3, <1>9, <1>13, <1>14
<1>18. IsNamespace(n)'
  BY <1>1, <1>7, <1>17 DEF IsNamespace
<1>19. IsRecord(r)'
  BY <1>2, <1>11, <1>17, <1>18 DEF IsRecord
<1>20. Made
  <2> SUFFICES ASSUME NEW a \in Addresses, owner[a] # "program", owner'[a] = "program"
               PROVE  /\ IsNamespace(a)' \/ IsRecord(a)'
                      /\ lamports'[a] >= MinBalance(data'[a])
    BY DEF Made
  <2>1. a = n \/ a = r
    BY <1>3, <1>9, <1>13
  <2>2. CASE a = n
    <3>1. lamports'[n] >= NamespaceRent
      BY <1>3, <1>9, <1>10, <1>11
    <3> QED
      BY <1>17, <1>18, <2>2, <3>1, MinBalanceOfData
  <2>3. CASE a = r
    BY <1>11, <1>17, <1>19, <2>3, MinBalanceOfData
  <2> QED
    BY <2>1, <2>2, <2>3
<1>21. SignedDebits
  <2>1. \A a \in Addresses : lamports'[a] < lamports[a] => a = payer
    <3> SUFFICES ASSUME NEW a \in Addresses, a # payer
                 PROVE  ~(lamports'[a] < lamports[a])
      OBVIOUS
    <3>1. /\ lamports'[a] \in Nat /\ lamports[a] \in Nat /\ l[a] \in Nat
          /\ lamports'[a] >= l[a] /\ l[a] >= lamports[a]
      BY <1>9, <1>10, <1>11
    <3> QED
      BY <3>1
  <2>2. \A t \in TokenAccounts : ~(tokens'[t] < tokens[t])
    BY <1>8, <1>9
  <2> QED
    BY <1>11, <2>1, <2>2 DEF SignedDebits
<1> QED
  BY <1>15, <1>16, <1>20, <1>21 DEF StepFacts

-----------------------------------------------------------------------------
(* The theorems *)

\* Every transaction has the facts of a step.
LEMMA NextFacts ==
  ASSUME IInv, Next
  PROVE  StepFacts
<1>1. PICK S \in SUBSET Keys :
        /\ signers' = S
        /\ \/ \E payer \in Keys, creator \in Creators, id \in NamespaceIds, k \in AuthorityArgs :
                CreateNamespace(S, payer, creator, id, k)
           \/ \E k \in Keys, n \in NamespaceAddrs \cup Impostors, new \in AuthorityArgs :
                SetNamespaceAuthority(S, k, n, new)
           \/ \E payer, k \in Keys, n \in NamespaceAddrs \cup Impostors,
                 to \in RecipientVectors, e \in Events, amount \in Amounts, bps \in BpsVectors :
                SettleN(S, payer, k, n, to, e, amount, bps)
           \/ \E payer, k \in Keys, n \in NamespaceAddrs \cup Impostors, source \in TokenAccounts,
                 mint \in Mints, to \in RecipientVectors, e \in Events, amount \in Amounts,
                 decimals \in DecimalsArgs, bps \in BpsVectors :
                SettleTokenN(S, payer, k, n, source, mint, to, e, amount, decimals, bps)
           \/ \E payer \in Keys, creator \in Creators, id \in NamespaceIds, k \in Keys,
                 to \in RecipientVectors, e \in Events, amount \in Amounts, bps \in BpsVectors :
                FirstSettlement(S, payer, creator, id, k, to, e, amount, bps)
           \/ \E from \in Keys, to \in DepositTargets, amount \in Deposits :
                Deposit(S, from, to, amount)
  BY DEF Next
<1>2. CASE \E payer \in Keys, creator \in Creators, id \in NamespaceIds, k \in AuthorityArgs :
             CreateNamespace(S, payer, creator, id, k)
  BY <1>1, <1>2, CreateNamespaceStep
<1>3. CASE \E k \in Keys, n \in NamespaceAddrs \cup Impostors, new \in AuthorityArgs :
             SetNamespaceAuthority(S, k, n, new)
  BY <1>1, <1>3, SetNamespaceAuthorityStep
<1>4. CASE \E payer, k \in Keys, n \in NamespaceAddrs \cup Impostors,
             to \in RecipientVectors, e \in Events, amount \in Amounts, bps \in BpsVectors :
             SettleN(S, payer, k, n, to, e, amount, bps)
  BY <1>1, <1>4, SettleNStep
<1>5. CASE \E payer, k \in Keys, n \in NamespaceAddrs \cup Impostors, source \in TokenAccounts,
             mint \in Mints, to \in RecipientVectors, e \in Events, amount \in Amounts,
             decimals \in DecimalsArgs, bps \in BpsVectors :
             SettleTokenN(S, payer, k, n, source, mint, to, e, amount, decimals, bps)
  BY <1>1, <1>5, SettleTokenNStep
<1>6. CASE \E payer \in Keys, creator \in Creators, id \in NamespaceIds, k \in Keys,
             to \in RecipientVectors, e \in Events, amount \in Amounts, bps \in BpsVectors :
             FirstSettlement(S, payer, creator, id, k, to, e, amount, bps)
  BY <1>1, <1>6, FirstSettlementStep
<1>7. CASE \E from \in Keys, to \in DepositTargets, amount \in Deposits :
             Deposit(S, from, to, amount)
  BY <1>1, <1>7, DepositStep
<1> QED
  BY <1>1, <1>2, <1>3, <1>4, <1>5, <1>6, <1>7

\* The program has no account at the start.
LEMMA InitIInv == Init => IInv
<1> SUFFICES ASSUME Init PROVE IInv
  OBVIOUS
<1>1. \A a \in Addresses : owner[a] \in Owners /\ owner[a] # "program"
  BY DEF Init, Owners
<1>2. owner \in [Addresses -> Owners]
  BY <1>1 DEF Init
<1>3. data \in [Addresses -> DataValues]
  <2>1. Empty \in DataValues /\ [kind |-> "token"] \in DataValues
    BY DEF DataValues
  <2>2. \A a \in Impostors : NamespaceData(a, a, Claims[a]) \in DataValues
    BY InputAssumption DEF DataValues
  <2> QED
    BY <2>1, <2>2 DEF Init
<1>4. lamports \in [Addresses -> Nat] /\ tokens \in [TokenAccounts -> Nat]
  BY InputAssumption DEF Init
<1>5. signers \in SUBSET Keys /\ settling \in SUBSET RecordAddrs
  BY DEF Init
<1> QED
  BY <1>1, <1>2, <1>3, <1>4, <1>5 DEF IInv, TypeOK, ProgramAccounts, RentExempt

\* A step that changes nothing keeps the invariant.
LEMMA StutterIInv ==
  ASSUME IInv, UNCHANGED vars
  PROVE  IInv'
  BY DEF IInv, vars, TypeOK, ProgramAccounts, IsNamespace, IsRecord, RentExempt

\* The invariant holds in every reachable state.
THEOREM Invariance == Spec => []IInv
<1>1. Init => IInv
  BY InitIInv
<1>2. IInv /\ [Next]_vars => IInv'
  BY NextFacts, FactsPreserve, StutterIInv
<1> QED
  BY <1>1, <1>2, PTL DEF Spec

\* No balance ever goes negative and every account keeps a legal owner and data,
\* in every transaction of the program.
THEOREM TypeCorrect == Spec => []TypeOK
<1>1. IInv => TypeOK
  BY DEF IInv
<1> QED
  BY <1>1, Invariance, PTL

\* The program owns namespaces and records of existing namespaces, at the
\* addresses derived for them, and nothing else.
THEOREM AccountsWellFormed == Spec => []ProgramAccounts
<1>1. IInv => ProgramAccounts
  BY DEF IInv
<1> QED
  BY <1>1, Invariance, PTL

\* What the program creates keeps its rent for ever.
THEOREM RentForEver == Spec => []RentExempt
<1>1. IInv => RentExempt
  BY DEF IInv
<1> QED
  BY <1>1, Invariance, PTL

\* No account of the program is ever closed, debited or rewritten.
THEOREM Permanence == Spec => AccountsPermanent
<1> DEFINE A == \A a \in Addresses : owner[a] = "program" =>
                 /\ owner'[a] = "program"
                 /\ lamports'[a] >= lamports[a]
                 /\ \/ data'[a] = data[a]
                    \/ /\ data[a].kind = "namespace"
                       /\ data'[a] = [data[a] EXCEPT !.authority = data'[a].authority]
<1>1. ASSUME IInv, Next PROVE A
  <2> SUFFICES ASSUME NEW a \in Addresses, owner[a] = "program"
               PROVE  /\ owner'[a] = "program"
                      /\ lamports'[a] >= lamports[a]
                      /\ \/ data'[a] = data[a]
                         \/ /\ data[a].kind = "namespace"
                            /\ data'[a] = [data[a] EXCEPT !.authority = data'[a].authority]
    OBVIOUS
  <2>1. Kept /\ SignedDebits /\ TypeOK'
    BY <1>1, NextFacts DEF StepFacts
  <2>2. owner'[a] = "program"
    BY <2>1 DEF Kept
  <2>3. lamports'[a] >= lamports[a]
    <3>1. a \notin Keys
      BY <1>1, ProgramAccountsNotKeys
    <3>2. lamports[a] \in Nat /\ lamports'[a] \in Nat
      BY <1>1, <2>1 DEF IInv, TypeOK
    <3>3. ~(lamports'[a] < lamports[a])
      BY <2>1, <3>1 DEF SignedDebits
    <3> QED
      BY <3>2, <3>3
  <2>4. ASSUME NEW c, NEW id, NEW k, NEW new,
               data[a] = NamespaceData(c, id, k), data'[a] = NamespaceData(c, id, new)
        PROVE  /\ data[a].kind = "namespace"
               /\ data'[a] = [data[a] EXCEPT !.authority = data'[a].authority]
    BY <2>4 DEF NamespaceData
  <2>5. \/ data'[a] = data[a]
        \/ \E c \in Creators, id \in NamespaceIds, k \in Authorities, new \in Authorities :
             /\ data[a] = NamespaceData(c, id, k)
             /\ data'[a] = NamespaceData(c, id, new)
    BY <2>1 DEF Kept
  <2> QED
    BY <2>2, <2>3, <2>4, <2>5
<1>2. IInv /\ [Next]_vars => [A]_vars
  BY <1>1
<1> QED
  BY <1>2, Invariance, PTL DEF Spec, AccountsPermanent

\* Nobody's lamports or tokens are spent without the holder's signature.
THEOREM SignedSpending == Spec => NoUnsignedDebit
<1> DEFINE A == /\ \A a \in Addresses : lamports'[a] < lamports[a] => a \in signers'
                /\ \A t \in TokenAccounts : tokens'[t] < tokens[t] => Holder[t] \in signers'
<1>1. IInv /\ Next => A
  BY NextFacts DEF StepFacts, SignedDebits
<1>2. IInv /\ [Next]_vars => [A]_vars
  BY <1>1
<1> QED
  BY <1>2, Invariance, PTL DEF Spec, NoUnsignedDebit

-----------------------------------------------------------------------------
(* The program implements the book *)

AuthorityOf == [n \in NamespaceAddrs |->
                  IF owner[n] = "program" THEN data[n].authority ELSE ZeroKey]
SettledFor == [n \in NamespaceAddrs |-> [e \in Events |->
                 IF owner[RecordAddr(n, e)] = "program"
                 THEN data[RecordAddr(n, e)].amount ELSE 0]]
Paying == {<<r[2], r[3]>> : r \in settling}

\* A record's address determines its namespace and its event, a namespace's its
\* creator.
LEMMA AddressParts ==
  /\ \A n, n2, e, e2 : RecordAddr(n, e) = RecordAddr(n2, e2) => n = n2 /\ e = e2
  /\ \A n, e : RecordAddr(n, e)[2] = n /\ RecordAddr(n, e)[3] = e
  /\ \A c, id : NamespaceAddr(c, id)[2] = c
  BY DEF RecordAddr, NamespaceAddr

\* Changing one entry of a table.
LEMMA TableUpdate ==
  ASSUME NEW N, NEW E, NEW s, s = [a \in N |-> [b \in E |-> s[a][b]]],
         NEW n \in N, NEW e \in E, NEW v, NEW t,
         t = [a \in N |-> [b \in E |-> IF a = n /\ b = e THEN v ELSE s[a][b]]]
  PROVE  t = [s EXCEPT ![n][e] = v]
<1>1. PICK row : row = [b \in E |-> IF b = e THEN v ELSE s[n][b]]
  OBVIOUS
<1>2. [s[n] EXCEPT ![e] = v] = row
  <2>1. s[n] = [b \in E |-> s[n][b]]
    OBVIOUS
  <2> QED
    BY <1>1, <2>1
<1>3. [s EXCEPT ![n][e] = v] = [s EXCEPT ![n] = row]
  BY <1>2
<1>4. [s EXCEPT ![n] = row] = [a \in N |-> IF a = n THEN row ELSE s[a]]
  OBVIOUS
<1>5. ASSUME NEW a \in N
      PROVE  (IF a = n THEN row ELSE s[a])
               = [b \in E |-> IF a = n /\ b = e THEN v ELSE s[a][b]]
  <2>1. CASE a = n
    BY <1>1, <2>1
  <2>2. CASE a # n
    <3>1. s[a] = [b \in E |-> s[a][b]]
      OBVIOUS
    <3> QED
      BY <2>2, <3>1
  <2> QED
    BY <2>1, <2>2
<1> QED
  BY <1>3, <1>4, <1>5

WithSettled(n, e, amount) ==
  [a \in NamespaceAddrs |-> [b \in Events |->
    IF a = n /\ b = e THEN amount ELSE SettledFor[a][b]]]

\* The book's page with one event settled.
LEMMA PageUpdate ==
  ASSUME NEW n \in NamespaceAddrs, NEW e \in Events, NEW amount,
         SettledFor' = WithSettled(n, e, amount)
  PROVE  SettledFor' = [SettledFor EXCEPT ![n][e] = amount]
<1>1. SettledFor = [a \in NamespaceAddrs |-> [b \in Events |-> SettledFor[a][b]]]
  BY DEF SettledFor
<1>2. PICK s, t : s = SettledFor /\ t = SettledFor'
  OBVIOUS
<1> QED
  BY <1>1, <1>2, TableUpdate DEF WithSettled

\* What the book sees of the record of one event being written.
LEMMA RecordOnPage ==
  ASSUME IInv, NEW n \in NamespaceAddrs, NEW e \in Events, NEW amount,
         NEW r \in RecordAddrs, r = RecordAddr(n, e), owner[r] = "system",
         owner'[r] = "program", data'[r] = RecordData(e, amount),
         \A a \in RecordAddrs : a # r => owner'[a] = owner[a] /\ data'[a] = data[a]
  PROVE  /\ SettledFor[n][e] = 0
         /\ SettledFor' = WithSettled(n, e, amount)
<1>1. SettledFor[n][e] = 0
  BY DEF SettledFor
<1>2. ASSUME NEW a \in NamespaceAddrs, NEW b \in Events
      PROVE  (IF owner'[RecordAddr(a, b)] = "program"
              THEN data'[RecordAddr(a, b)].amount ELSE 0)
               = IF a = n /\ b = e THEN amount ELSE SettledFor[a][b]
  <2>1. RecordAddr(a, b) \in RecordAddrs /\ RecordAddr(a, b) \in Addresses
    BY DerivedAddresses
  <2>2. CASE a = n /\ b = e
    <3>1. owner'[r] = "program" /\ data'[r].amount = amount
      BY DEF RecordData
    <3> QED
      BY <2>2, <3>1
  <2>3. CASE ~(a = n /\ b = e)
    <3>1. RecordAddr(a, b) # r
      BY <2>3, AddressParts
    <3>2. /\ owner'[RecordAddr(a, b)] = owner[RecordAddr(a, b)]
          /\ data'[RecordAddr(a, b)] = data[RecordAddr(a, b)]
      BY <2>1, <3>1
    <3> QED
      BY <2>3, <3>2 DEF SettledFor
  <2> QED
    BY <2>2, <2>3
<1>4. SettledFor' = [a \in NamespaceAddrs |-> [b \in Events |->
                      IF a = n /\ b = e THEN amount ELSE SettledFor[a][b]]]
  BY <1>2 DEF SettledFor
<1> QED
  BY <1>1, <1>4 DEF WithSettled

\* What the book sees of a namespace's data being written.
LEMMA AuthorityOnPage ==
  ASSUME IInv, NEW n \in NamespaceAddrs, NEW k,
         owner' \in [Addresses -> Owners], owner'[n] = "program",
         data'[n].authority = k,
         \A a \in NamespaceAddrs : a # n => owner'[a] = owner[a] /\ data'[a] = data[a]
  PROVE  AuthorityOf' = [AuthorityOf EXCEPT ![n] = k]
  BY DEF AuthorityOf

\* A settlement leaves the namespaces as they were.
LEMMA AuthoritiesKept ==
  ASSUME \A a \in NamespaceAddrs : owner'[a] = owner[a] /\ data'[a] = data[a]
  PROVE  AuthorityOf' = AuthorityOf
  BY DEF AuthorityOf

\* Handing a namespace over leaves the records as they were.
LEMMA RecordsKept ==
  ASSUME \A a \in RecordAddrs : owner'[a] = owner[a] /\ data'[a] = data[a]
  PROVE  SettledFor' = SettledFor
<1>1. \A n \in NamespaceAddrs, e \in Events :
        /\ owner'[RecordAddr(n, e)] = owner[RecordAddr(n, e)]
        /\ data'[RecordAddr(n, e)] = data[RecordAddr(n, e)]
  BY DerivedAddresses
<1> QED
  BY <1>1 DEF SettledFor

\* The book's actions, on what it sees of the program.
Opened(n, k) ==
  /\ n \in NamespaceAddrs /\ k \in Authorities
  /\ AuthorityOf[n] = ZeroKey /\ n[2] \in signers'
  /\ AuthorityOf' = [AuthorityOf EXCEPT ![n] = k]

HandedOver(n, k) ==
  /\ n \in NamespaceAddrs /\ k \in Keys
  /\ AuthorityOf[n] \in signers' /\ k \in signers'
  /\ AuthorityOf' = [AuthorityOf EXCEPT ![n] = k]
  /\ UNCHANGED SettledFor /\ Paying' = {}

SettledOnce(n, e, amount) ==
  /\ n \in NamespaceAddrs /\ e \in Events /\ amount \in Amounts \ {0}
  /\ AuthorityOf'[n] \in signers' /\ SettledFor[n][e] = 0
  /\ SettledFor' = WithSettled(n, e, amount)
  /\ Paying' = {<<n, e>>}

\* Each of them is a step of the book.
LEMMA BookSteps ==
  ASSUME signers' \in SUBSET Keys
  PROVE  /\ \A n, k : Opened(n, k) /\ Paying' = {} /\ UNCHANGED SettledFor => Book!Next
         /\ \A n, k : HandedOver(n, k) => Book!Next
         /\ \A n, e, amount : SettledOnce(n, e, amount) /\ UNCHANGED AuthorityOf => Book!Next
         /\ \A n, k, e, amount : Opened(n, k) /\ SettledOnce(n, e, amount) => Book!Next
         /\ Paying' = {} /\ UNCHANGED <<AuthorityOf, SettledFor>> => Book!Next
<1>1. ASSUME NEW n, NEW k, Opened(n, k) PROVE Book!Open(n, k)
  BY <1>1 DEF Opened, Book!Open, AuthorityOf, Authorities
<1>2. ASSUME NEW n, NEW k, HandedOver(n, k) PROVE Book!Rotate(n, k)
  BY <1>2 DEF HandedOver, Book!Rotate, AuthorityOf, SettledFor
<1>3. ASSUME NEW n, NEW e, NEW amount, SettledOnce(n, e, amount)
      PROVE  Book!Settle(n, e, amount)
  <2>1. SettledFor' = [SettledFor EXCEPT ![n][e] = amount]
    BY <1>3, PageUpdate DEF SettledOnce
  <2> QED
    BY <1>3, <2>1 DEF SettledOnce, Book!Settle, AuthorityOf, SettledFor, Paying
<1>4. ASSUME NEW n, NEW k, Opened(n, k), Paying' = {}, UNCHANGED SettledFor
      PROVE  Book!Next
  BY <1>1, <1>4 DEF Opened, Book!Next, Authorities, SettledFor, Paying
<1>5. ASSUME NEW n, NEW k, HandedOver(n, k) PROVE Book!Next
  BY <1>2, <1>5 DEF HandedOver, Book!Next, Paying
<1>6. ASSUME NEW n, NEW e, NEW amount, SettledOnce(n, e, amount), UNCHANGED AuthorityOf
      PROVE  Book!Next
  BY <1>3, <1>6 DEF SettledOnce, Book!Next, AuthorityOf
<1>7. ASSUME NEW n, NEW k, NEW e, NEW amount, Opened(n, k), SettledOnce(n, e, amount)
      PROVE  Book!Next
  <2>1. /\ n \in NamespaceAddrs /\ k \in (AuthorityArgs \cup Keys) \ {ZeroKey}
        /\ e \in Events /\ amount \in Amounts \ {0}
    BY <1>7 DEF Opened, SettledOnce, Authorities
  <2>2. Book!Open(n, k) /\ Book!Settle(n, e, amount)
    BY <1>1, <1>3, <1>7
  <2> QED
    BY <2>1, <2>2 DEF Book!Next
<1>8. ASSUME Paying' = {}, UNCHANGED <<AuthorityOf, SettledFor>>
      PROVE  Book!Next
  BY <1>8 DEF Book!Next, Book!Pass, AuthorityOf, SettledFor, Paying
<1> QED
  BY <1>4, <1>5, <1>6, <1>7, <1>8

\* Paying one event.
LEMMA PayingOne ==
  ASSUME NEW n, NEW e, settling' = {RecordAddr(n, e)}
  PROVE  Paying' = {<<n, e>>}
  BY AddressParts DEF Paying

\* Every transaction is a step of the book.
LEMMA NextIsBookStep ==
  ASSUME IInv, Next
  PROVE  Book!Next
<1>1. PICK S \in SUBSET Keys :
        /\ signers' = S
        /\ \/ \E payer \in Keys, creator \in Creators, id \in NamespaceIds, k \in AuthorityArgs :
                CreateNamespace(S, payer, creator, id, k)
           \/ \E k \in Keys, n \in NamespaceAddrs \cup Impostors, new \in AuthorityArgs :
                SetNamespaceAuthority(S, k, n, new)
           \/ \E payer, k \in Keys, n \in NamespaceAddrs \cup Impostors,
                 to \in RecipientVectors, e \in Events, amount \in Amounts, bps \in BpsVectors :
                SettleN(S, payer, k, n, to, e, amount, bps)
           \/ \E payer, k \in Keys, n \in NamespaceAddrs \cup Impostors, source \in TokenAccounts,
                 mint \in Mints, to \in RecipientVectors, e \in Events, amount \in Amounts,
                 decimals \in DecimalsArgs, bps \in BpsVectors :
                SettleTokenN(S, payer, k, n, source, mint, to, e, amount, decimals, bps)
           \/ \E payer \in Keys, creator \in Creators, id \in NamespaceIds, k \in Keys,
                 to \in RecipientVectors, e \in Events, amount \in Amounts, bps \in BpsVectors :
                FirstSettlement(S, payer, creator, id, k, to, e, amount, bps)
           \/ \E from \in Keys, to \in DepositTargets, amount \in Deposits :
                Deposit(S, from, to, amount)
  BY DEF Next
<1>2. /\ owner \in [Addresses -> Owners] /\ data \in [Addresses -> DataValues]
      /\ owner' \in [Addresses -> Owners]
  BY NextFacts DEF IInv, StepFacts, TypeOK
<1>3. CASE \E payer \in Keys, creator \in Creators, id \in NamespaceIds, k \in AuthorityArgs :
             CreateNamespace(S, payer, creator, id, k)
  <2>1. PICK payer \in Keys, creator \in Creators, id \in NamespaceIds, k \in AuthorityArgs :
          CreateNamespace(S, payer, creator, id, k)
    BY <1>3
  <2>2. PICK n \in NamespaceAddrs : n = NamespaceAddr(creator, id)
    BY DerivedAddresses
  <2>3. /\ creator \in S /\ k # ZeroKey /\ owner[n] = "system"
        /\ owner' = [owner EXCEPT ![n] = "program"]
        /\ data' = [data EXCEPT ![n] = NamespaceData(creator, id, k)]
        /\ settling' = {}
    BY <2>1, <2>2 DEF CreateNamespace, CreateNamespaceOk, Creatable, Free
  <2>4. n \in Addresses /\ n \notin RecordAddrs
    BY DerivedAddresses
  <2>5. UNCHANGED SettledFor
    BY <1>2, <2>3, <2>4, RecordsKept
  <2>6. AuthorityOf' = [AuthorityOf EXCEPT ![n] = k]
    <3>1. owner'[n] = "program" /\ data'[n].authority = k
      BY <1>2, <2>3, <2>4 DEF NamespaceData
    <3> QED
      BY <1>2, <2>3, <3>1, AuthorityOnPage
  <2>7. Opened(n, k)
    BY <1>1, <2>2, <2>3, <2>6, AddressParts DEF Opened, AuthorityOf, Authorities
  <2> QED
    BY <1>1, <2>3, <2>5, <2>7, BookSteps DEF Paying
<1>4. CASE \E k \in Keys, n \in NamespaceAddrs \cup Impostors, new \in AuthorityArgs :
             SetNamespaceAuthority(S, k, n, new)
  <2>1. PICK k \in Keys, n \in NamespaceAddrs \cup Impostors, new \in AuthorityArgs :
          SetNamespaceAuthority(S, k, n, new)
    BY <1>4
  <2>2. /\ new \in S /\ Authorized(owner, data, S, k, n)
        /\ data' = [data EXCEPT ![n].authority = new]
        /\ settling' = {} /\ owner' = owner
    BY <2>1 DEF SetNamespaceAuthority
  <2>3. /\ n \in NamespaceAddrs /\ n \in Addresses /\ n \notin RecordAddrs
        /\ IsNamespace(n)
    BY <2>2, AuthorizedByNamespace, DerivedAddresses
  <2>4. UNCHANGED SettledFor
    BY <1>2, <2>2, <2>3, RecordsKept
  <2>5. data'[n].authority = new
    <3>1. PICK c, id, old : data[n] = NamespaceData(c, id, old)
      BY <2>3 DEF IsNamespace
    <3>2. data'[n] = [data[n] EXCEPT !.authority = new]
      BY <1>2, <2>2, <2>3
    <3>3. data'[n] = NamespaceData(c, id, new)
      BY <3>1, <3>2, NewAuthority
    <3> QED
      BY <3>3 DEF NamespaceData
  <2>6. AuthorityOf' = [AuthorityOf EXCEPT ![n] = new]
    BY <1>2, <2>2, <2>3, <2>5, AuthorityOnPage DEF Authorized
  <2>7. AuthorityOf[n] \in S
    BY <2>2, <2>3 DEF AuthorityOf, Authorized
  <2>8. HandedOver(n, new)
    BY <1>1, <2>2, <2>3, <2>4, <2>6, <2>7 DEF HandedOver, Paying
  <2> QED
    BY <1>1, <2>8, BookSteps
<1>5. ASSUME NEW k, NEW n \in NamespaceAddrs, NEW e \in Events, NEW amount \in Amounts \ {0},
             NEW r \in RecordAddrs, r = RecordAddr(n, e),
             IsNamespace(n), Authorized(owner, data, S, k, n), owner[r] = "system",
             owner' = [owner EXCEPT ![r] = "program"],
             data' = [data EXCEPT ![r] = RecordData(e, amount)],
             settling' = {r}
      PROVE  Book!Next
  <2>1. \A a \in NamespaceAddrs : owner'[a] = owner[a] /\ data'[a] = data[a]
    BY <1>2, <1>5, DerivedAddresses
  <2>2. UNCHANGED AuthorityOf
    BY <2>1, AuthoritiesKept
  <2>3. SettledFor[n][e] = 0 /\ SettledFor' = WithSettled(n, e, amount)
    <3>1. r \in Addresses
      BY DerivedAddresses
    <3>2. owner'[r] = "program" /\ data'[r] = RecordData(e, amount)
      BY <1>2, <1>5, <3>1
    <3>3. \A a \in RecordAddrs : a # r => owner'[a] = owner[a] /\ data'[a] = data[a]
      BY <1>2, <1>5, DerivedAddresses
    <3> QED
      BY <1>5, <3>2, <3>3, RecordOnPage
  <2>4. AuthorityOf[n] \in S
    BY <1>5 DEF AuthorityOf, Authorized
  <2>5. SettledOnce(n, e, amount)
    BY <1>1, <1>5, <2>2, <2>3, <2>4, PayingOne DEF SettledOnce
  <2> QED
    BY <1>1, <2>2, <2>5, BookSteps
<1>6. CASE \E payer, k \in Keys, n \in NamespaceAddrs \cup Impostors,
             to \in RecipientVectors, e \in Events, amount \in Amounts, bps \in BpsVectors :
             SettleN(S, payer, k, n, to, e, amount, bps)
  <2>1. PICK payer \in Keys, k \in Keys, n \in NamespaceAddrs \cup Impostors,
             to \in RecipientVectors, e \in Events, amount \in Amounts, bps \in BpsVectors :
          SettleN(S, payer, k, n, to, e, amount, bps)
    BY <1>6
  <2>2. PICK r \in RecordAddrs : r = RecordAddr(n, e)
    BY DerivedAddresses
  <2>3. /\ SettleOk(owner, data, lamports, S, payer, k, n, to, e, amount, bps)
        /\ owner' = [owner EXCEPT ![r] = "program"]
        /\ data' = [data EXCEPT ![r] = RecordData(e, amount)]
        /\ settling' = {r}
    BY <2>1, <2>2 DEF SettleN
  <2>4. /\ amount # 0 /\ Authorized(owner, data, S, k, n)
        /\ Free(owner, data, lamports, r)
    <3>1. lamports \in [Addresses -> Nat]
      BY DEF IInv, TypeOK
    <3> QED
      BY <2>2, <2>3, <3>1, SettledBalances
  <2>5. IsNamespace(n) /\ n \in NamespaceAddrs
    BY <2>4, AuthorizedByNamespace
  <2> QED
    BY <1>5, <2>2, <2>3, <2>4, <2>5 DEF Free
<1>7. CASE \E payer, k \in Keys, n \in NamespaceAddrs \cup Impostors, source \in TokenAccounts,
             mint \in Mints, to \in RecipientVectors, e \in Events, amount \in Amounts,
             decimals \in DecimalsArgs, bps \in BpsVectors :
             SettleTokenN(S, payer, k, n, source, mint, to, e, amount, decimals, bps)
  <2>1. PICK payer \in Keys, k \in Keys, n \in NamespaceAddrs \cup Impostors,
             source \in TokenAccounts, mint \in Mints, to \in RecipientVectors,
             e \in Events, amount \in Amounts, decimals \in DecimalsArgs, bps \in BpsVectors :
          SettleTokenN(S, payer, k, n, source, mint, to, e, amount, decimals, bps)
    BY <1>7
  <2>2. PICK r \in RecordAddrs : r = RecordAddr(n, e)
    BY DerivedAddresses
  <2>3. /\ SplitVerdict(amount, bps) = "ok"
        /\ Authorized(owner, data, S, k, n)
        /\ Creatable(owner, data, lamports, S, payer, r, RecordRent)
        /\ owner' = [owner EXCEPT ![r] = "program"]
        /\ data' = [data EXCEPT ![r] = RecordData(e, amount)]
        /\ settling' = {r}
    BY <2>1, <2>2 DEF SettleTokenN
  <2>4. IsNamespace(n) /\ n \in NamespaceAddrs
    BY <2>3, AuthorizedByNamespace
  <2>5. amount # 0 /\ owner[r] = "system"
    BY <2>3 DEF SplitVerdict, Creatable, Free
  <2> QED
    BY <1>5, <2>2, <2>3, <2>4, <2>5
<1>8. CASE \E payer \in Keys, creator \in Creators, id \in NamespaceIds, k \in Keys,
             to \in RecipientVectors, e \in Events, amount \in Amounts, bps \in BpsVectors :
             FirstSettlement(S, payer, creator, id, k, to, e, amount, bps)
  <2>1. PICK payer \in Keys, creator \in Creators, id \in NamespaceIds, k \in Keys,
             to \in RecipientVectors, e \in Events, amount \in Amounts, bps \in BpsVectors :
          FirstSettlement(S, payer, creator, id, k, to, e, amount, bps)
    BY <1>8
  <2>2. PICK n \in NamespaceAddrs : n = NamespaceAddr(creator, id)
    BY DerivedAddresses
  <2>3. PICK r \in RecordAddrs : r = RecordAddr(n, e)
    BY DerivedAddresses
  <2>4. n \in Addresses /\ r \in Addresses /\ n # r /\ n \notin RecordAddrs
    BY DerivedAddresses
  <2>5. PICK o : o = [owner EXCEPT ![n] = "program"]
    OBVIOUS
  <2>6. PICK d : d = [data EXCEPT ![n] = NamespaceData(creator, id, k)]
    OBVIOUS
  <2>7. PICK l : l = ToppedUp(lamports, payer, n, NamespaceRent)
    OBVIOUS
  <2>8. /\ creator \in S /\ k # ZeroKey /\ owner[n] = "system"
        /\ SettleOk(o, d, l, S, payer, k, n, to, e, amount, bps)
        /\ owner' = [o EXCEPT ![r] = "program"]
        /\ data' = [d EXCEPT ![r] = RecordData(e, amount)]
        /\ settling' = {r}
    BY <2>1, <2>2, <2>3, <2>5, <2>6, <2>7
    DEF FirstSettlement, CreateNamespaceOk, Creatable, Free
  <2>9. /\ SplitVerdict(amount, bps) = "ok" /\ Authorized(o, d, S, k, n)
        /\ Free(o, d, l, r)
    BY <2>3, <2>8 DEF SettleOk, Creatable
  <2>10. amount \in Amounts \ {0}
    BY <2>9 DEF SplitVerdict
  <2>11. /\ DOMAIN o = Addresses /\ DOMAIN d = Addresses
         /\ \A a \in RecordAddrs : o[a] = owner[a] /\ d[a] = data[a]
    BY <1>2, <2>4, <2>5, <2>6, DerivedAddresses
  <2>12. SettledFor[n][e] = 0 /\ SettledFor' = WithSettled(n, e, amount)
    <3>1. owner[r] = "system"
      BY <2>9, <2>11 DEF Free
    <3>2. owner'[r] = "program" /\ data'[r] = RecordData(e, amount)
      BY <2>4, <2>8, <2>11
    <3>3. \A a \in RecordAddrs : a # r => owner'[a] = owner[a] /\ data'[a] = data[a]
      BY <2>8, <2>11, DerivedAddresses
    <3> QED
      BY <2>3, <3>1, <3>2, <3>3, RecordOnPage
  <2>13. AuthorityOf' = [AuthorityOf EXCEPT ![n] = k]
    <3>1. owner'[n] = "program" /\ data'[n].authority = k
      BY <1>2, <2>4, <2>5, <2>6, <2>8 DEF NamespaceData
    <3>2. \A a \in NamespaceAddrs : a # n => owner'[a] = owner[a] /\ data'[a] = data[a]
      BY <1>2, <2>4, <2>5, <2>6, <2>8, DerivedAddresses
    <3> QED
      BY <1>2, <3>1, <3>2, AuthorityOnPage
  <2>14. Opened(n, k)
    BY <1>1, <2>2, <2>8, <2>13, AddressParts DEF Opened, AuthorityOf, Authorities
  <2>15. AuthorityOf'[n] \in S
    <3>1. k \in S
      BY <2>9 DEF Authorized
    <3>2. AuthorityOf'[n] = k
      BY <2>13 DEF AuthorityOf
    <3> QED
      BY <3>1, <3>2
  <2>16. SettledOnce(n, e, amount)
    BY <1>1, <2>3, <2>8, <2>10, <2>12, <2>15, PayingOne DEF SettledOnce
  <2> QED
    BY <1>1, <2>14, <2>16, BookSteps
<1>9. CASE \E from \in Keys, to \in DepositTargets, amount \in Deposits :
             Deposit(S, from, to, amount)
  <2>1. owner' = owner /\ data' = data /\ settling' = {}
    BY <1>9 DEF Deposit
  <2>2. Paying' = {} /\ UNCHANGED <<AuthorityOf, SettledFor>>
    BY <2>1 DEF Paying, AuthorityOf, SettledFor
  <2> QED
    BY <1>1, <2>2, BookSteps
<1> QED
  BY <1>1, <1>3, <1>4, <1>6, <1>7, <1>8, <1>9

\* The program implements the book: whatever the transactions and their order,
\* namespaces are opened, handed over and settled in only by the keys entitled
\* to, and no event is paid for twice or its amount revised.
THEOREM Refinement == Spec => ImplementsBook
<1>1. Init => Book!Init
  <2> SUFFICES ASSUME Init PROVE Book!Init
    OBVIOUS
  <2>1. \A a \in Addresses : owner[a] # "program"
    BY DEF Init
  <2>2. AuthorityOf = [n \in NamespaceAddrs |-> ZeroKey]
    BY <2>1, DerivedAddresses DEF AuthorityOf
  <2>3. \A n \in NamespaceAddrs, e \in Events : owner[RecordAddr(n, e)] # "program"
    BY <2>1, DerivedAddresses
  <2>4. SettledFor = [n \in NamespaceAddrs |-> [e \in Events |-> 0]]
    BY <2>3 DEF SettledFor
  <2>5. Paying = {} /\ signers = {}
    BY DEF Paying, Init
  <2> QED
    BY <2>2, <2>4, <2>5 DEF Book!Init, AuthorityOf, SettledFor, Paying
<1>2. IInv /\ [Next]_vars => [Book!Next]_(Book!vars)
  <2>1. IInv /\ Next => Book!Next
    BY NextIsBookStep
  <2>2. UNCHANGED vars => UNCHANGED Book!vars
    BY DEF vars, Book!vars
  <2> QED
    BY <2>1, <2>2
<1> QED
  BY <1>1, <1>2, Invariance, PTL DEF Spec, ImplementsBook, Book!Spec

-----------------------------------------------------------------------------
(* Nobody can keep an event from being settled: whatever was sent to its   *)
(* record address, the namespace's authority can settle it, with any       *)
(* wallet that can afford it.  The invariant so far says what the program  *)
(* owns; this one adds that a derived address it does not own is untouched *)
(* but for its lamports, and a wallet never holds data.                    *)

Untouched ==
  \A a \in Keys \cup NamespaceAddrs \cup RecordAddrs :
    owner[a] # "program" => owner[a] = "system" /\ data[a] = Empty

-----------------------------------------------------------------------------
(* Only the program's accounts change                                      *)

\* Only what the program owns, before or after, is changed.
OthersKept ==
  \A a \in Addresses : owner[a] # "program" /\ owner'[a] # "program" =>
    owner'[a] = owner[a] /\ data'[a] = data[a]

\* Making an account of the program, or changing one, touches no other.
LEMMA OneChanged ==
  ASSUME IInv, NEW x \in Addresses, NEW value,
         owner' = [owner EXCEPT ![x] = "program"], data' = [data EXCEPT ![x] = value]
  PROVE  OthersKept
  BY DEF IInv, TypeOK, OthersKept

\* Making two.
LEMMA TwoChanged ==
  ASSUME IInv, NEW x \in Addresses, NEW y \in Addresses, NEW v, NEW w,
         owner' = [[owner EXCEPT ![x] = "program"] EXCEPT ![y] = "program"],
         data' = [[data EXCEPT ![x] = v] EXCEPT ![y] = w]
  PROVE  OthersKept
  BY DEF IInv, TypeOK, OthersKept

\* No transaction touches an account the program does not own or make.
LEMMA NextKeepsOthers ==
  ASSUME IInv, Next
  PROVE  OthersKept
<1>1. PICK S \in SUBSET Keys :
        /\ signers' = S
        /\ \/ \E payer \in Keys, creator \in Creators, id \in NamespaceIds, k \in AuthorityArgs :
                CreateNamespace(S, payer, creator, id, k)
           \/ \E k \in Keys, n \in NamespaceAddrs \cup Impostors, new \in AuthorityArgs :
                SetNamespaceAuthority(S, k, n, new)
           \/ \E payer, k \in Keys, n \in NamespaceAddrs \cup Impostors,
                 to \in RecipientVectors, e \in Events, amount \in Amounts, bps \in BpsVectors :
                SettleN(S, payer, k, n, to, e, amount, bps)
           \/ \E payer, k \in Keys, n \in NamespaceAddrs \cup Impostors, source \in TokenAccounts,
                 mint \in Mints, to \in RecipientVectors, e \in Events, amount \in Amounts,
                 decimals \in DecimalsArgs, bps \in BpsVectors :
                SettleTokenN(S, payer, k, n, source, mint, to, e, amount, decimals, bps)
           \/ \E payer \in Keys, creator \in Creators, id \in NamespaceIds, k \in Keys,
                 to \in RecipientVectors, e \in Events, amount \in Amounts, bps \in BpsVectors :
                FirstSettlement(S, payer, creator, id, k, to, e, amount, bps)
           \/ \E from \in Keys, to \in DepositTargets, amount \in Deposits :
                Deposit(S, from, to, amount)
  BY DEF Next
<1>2. CASE \E payer \in Keys, creator \in Creators, id \in NamespaceIds, k \in AuthorityArgs :
             CreateNamespace(S, payer, creator, id, k)
  <2>1. PICK payer \in Keys, creator \in Creators, id \in NamespaceIds, k \in AuthorityArgs :
          CreateNamespace(S, payer, creator, id, k)
    BY <1>2
  <2>2. PICK n \in Addresses : n = NamespaceAddr(creator, id)
    BY DerivedAddresses
  <2>3. /\ owner' = [owner EXCEPT ![n] = "program"]
        /\ data' = [data EXCEPT ![n] = NamespaceData(creator, id, k)]
    BY <2>1, <2>2 DEF CreateNamespace
  <2> QED
    BY <2>3, OneChanged
<1>3. CASE \E k \in Keys, n \in NamespaceAddrs \cup Impostors, new \in AuthorityArgs :
             SetNamespaceAuthority(S, k, n, new)
  <2>1. PICK k \in Keys, n \in NamespaceAddrs \cup Impostors, new \in AuthorityArgs :
          SetNamespaceAuthority(S, k, n, new)
    BY <1>3
  <2>2. owner[n] = "program" /\ owner' = owner /\ data' = [data EXCEPT ![n].authority = new]
    BY <2>1 DEF SetNamespaceAuthority, Authorized
  <2> QED
    BY <2>2 DEF IInv, TypeOK, OthersKept
<1>4. ASSUME NEW n \in NamespaceAddrs \cup Impostors, NEW e \in Events, NEW amount,
             owner' = [owner EXCEPT ![RecordAddr(n, e)] = "program"],
             data' = [data EXCEPT ![RecordAddr(n, e)] = RecordData(e, amount)]
      PROVE  OthersKept
  <2>1. PICK r \in Addresses : r = RecordAddr(n, e)
    BY DerivedAddresses
  <2> QED
    BY <1>4, <2>1, OneChanged
<1>5. CASE \E payer, k \in Keys, n \in NamespaceAddrs \cup Impostors,
             to \in RecipientVectors, e \in Events, amount \in Amounts, bps \in BpsVectors :
             SettleN(S, payer, k, n, to, e, amount, bps)
  <2>1. PICK payer, k \in Keys, n \in NamespaceAddrs \cup Impostors,
             to \in RecipientVectors, e \in Events, amount \in Amounts, bps \in BpsVectors :
             SettleN(S, payer, k, n, to, e, amount, bps)
    BY <1>5
  <2>2. /\ owner' = [owner EXCEPT ![RecordAddr(n, e)] = "program"]
        /\ data' = [data EXCEPT ![RecordAddr(n, e)] = RecordData(e, amount)]
    BY <2>1, Zenon DEF SettleN
  <2> QED
    BY <1>4, <2>2, Zenon
<1>6. CASE \E payer, k \in Keys, n \in NamespaceAddrs \cup Impostors, source \in TokenAccounts,
             mint \in Mints, to \in RecipientVectors, e \in Events, amount \in Amounts,
             decimals \in DecimalsArgs, bps \in BpsVectors :
             SettleTokenN(S, payer, k, n, source, mint, to, e, amount, decimals, bps)
  <2>1. PICK payer \in Keys, k \in Keys, n \in NamespaceAddrs \cup Impostors,
             source \in TokenAccounts, mint \in Mints, to \in RecipientVectors, e \in Events,
             amount \in Amounts, decimals \in DecimalsArgs, bps \in BpsVectors :
          SettleTokenN(S, payer, k, n, source, mint, to, e, amount, decimals, bps)
    BY <1>6
  <2>2. /\ owner' = [owner EXCEPT ![RecordAddr(n, e)] = "program"]
        /\ data' = [data EXCEPT ![RecordAddr(n, e)] = RecordData(e, amount)]
    BY <2>1 DEF SettleTokenN
  <2> QED
    BY <1>4, <2>2
<1>7. CASE \E payer \in Keys, creator \in Creators, id \in NamespaceIds, k \in Keys,
              to \in RecipientVectors, e \in Events, amount \in Amounts, bps \in BpsVectors :
             FirstSettlement(S, payer, creator, id, k, to, e, amount, bps)
  <2>1. PICK payer \in Keys, creator \in Creators, id \in NamespaceIds, k \in Keys,
             to \in RecipientVectors, e \in Events, amount \in Amounts, bps \in BpsVectors :
          FirstSettlement(S, payer, creator, id, k, to, e, amount, bps)
    BY <1>7
  <2>2. PICK n \in NamespaceAddrs : n = NamespaceAddr(creator, id)
    BY DerivedAddresses
  <2>3. PICK r \in Addresses : r = RecordAddr(n, e) /\ n \in Addresses
    BY DerivedAddresses
  <2>4. /\ owner' = [[owner EXCEPT ![n] = "program"] EXCEPT ![r] = "program"]
        /\ data' = [[data EXCEPT ![n] = NamespaceData(creator, id, k)]
                      EXCEPT ![r] = RecordData(e, amount)]
    BY <2>1, <2>2, <2>3 DEF FirstSettlement
  <2> QED
    BY <2>3, <2>4, TwoChanged
<1>8. CASE \E from \in Keys, to \in DepositTargets, amount \in Deposits :
             Deposit(S, from, to, amount)
  BY <1>8 DEF Deposit, OthersKept
<1> QED
  BY <1>1, <1>2, <1>3, <1>5, <1>6, <1>7, <1>8

\* What the program does not own stays untouched.
LEMMA UntouchedStays ==
  ASSUME IInv, IInv', Untouched, [Next]_vars
  PROVE  Untouched'
<1>1. ASSUME NEW a \in Addresses, owner[a] = "program" PROVE owner'[a] = "program"
  BY <1>1, NextFacts DEF StepFacts, Kept, vars
<1>2. OthersKept
  BY NextKeepsOthers DEF OthersKept, vars
<1>3. Keys \cup NamespaceAddrs \cup RecordAddrs \subseteq Addresses
  BY DerivedAddresses
<1> QED
  BY <1>1, <1>2, <1>3 DEF Untouched, OthersKept

\* A wallet, and a derived address the program does not own, hold no data.
THEOREM UntouchedInvariance == Spec => [](IInv /\ Untouched)
<1>1. Init => Untouched
  <2> SUFFICES ASSUME Init, NEW a \in Keys \cup NamespaceAddrs \cup RecordAddrs
               PROVE  owner[a] = "system" /\ data[a] = Empty
    BY DEF Untouched
  <2>1. a \in Addresses /\ a \notin Impostors /\ a \notin TokenAccounts
    BY AddressAssumption DEF Addresses
  <2> QED
    BY <2>1 DEF Init
<1>2. IInv /\ Untouched /\ [Next]_vars => (IInv /\ Untouched)'
  BY NextFacts, FactsPreserve, StutterIInv, UntouchedStays
<1> QED
  BY <1>1, <1>2, InitIInv, PTL DEF Spec

-----------------------------------------------------------------------------
(* A settlement to one recipient *)

\* A split with one share of everything is accepted and pays it all.
LEMMA OneShare ==
  ASSUME NEW amount \in Nat \ {0}, NEW bps, bps = <<BPS_DENOMINATOR>>
  PROVE  /\ bps \in Seq(Nat) /\ Len(bps) = 1
         /\ SplitVerdict(amount, bps) = "ok"
         /\ Payouts(amount, bps) \in [1..8 -> Nat]
         /\ Payouts(amount, bps)[1] = amount
         /\ \A k \in 1..8 : k > 1 => Payouts(amount, bps)[k] = 0
<1>1. BPS_DENOMINATOR \in Nat /\ BPS_DENOMINATOR # 0
  BY DenominatorAssumption
<1>2. bps \in Seq(Nat) /\ Len(bps) = 1 /\ bps[1] = BPS_DENOMINATOR
  BY <1>1
<1>3. ShareCountOk(bps) /\ BpsInRange(bps)
  <2>1. \A k \in 1..Len(bps) : k = 1
    BY <1>2
  <2> QED
    BY <1>1, <1>2, <2>1 DEF ShareCountOk, BpsInRange, Slots, MAX_SHARES
<1>4. Total(Padded(bps)) = BPS_DENOMINATOR
  BY <1>1, <1>2 DEF Total, Padded, Slots, MAX_SHARES
<1>5. SplitVerdict(amount, bps) = "ok"
  BY <1>3, <1>4 DEF SplitVerdict
<1>6. /\ Payouts(amount, bps) \in [1..8 -> Nat]
      /\ \A k \in 1..8 : k > Len(bps) => Payouts(amount, bps)[k] = 0
  BY <1>2, <1>5, PayoutsWellFormed
<1>7. Payouts(amount, bps)[1] = amount
  <2>1. FlooredShares(amount, bps) = [k \in 1..8 |-> 0]
    BY <1>2 DEF FlooredShares, Slots, MAX_SHARES
  <2>2. Total([k \in 1..8 |-> 0]) = 0
    BY DEF Total
  <2> QED
    BY <1>2, <2>1, <2>2 DEF Payouts
<1> QED
  BY <1>2, <1>5, <1>6, <1>7

\* ... to its one recipient.
LEMMA OneCredit ==
  ASSUME NEW amount \in Nat, NEW pays \in [1..8 -> Nat], pays[1] = amount,
         \A k \in 1..8 : k > 1 => pays[k] = 0, NEW to, NEW recipient,
         to = <<recipient>>, NEW payer, NEW a
  PROVE  /\ CreditedTo(pays, to, a) = IF recipient = a THEN amount ELSE 0
         /\ SpentBefore(pays, to, payer, 1) = 0
         /\ Total(pays) = amount
<1>1. Len(to) = 1 /\ to[1] = recipient
  OBVIOUS
<1>2. [j \in 1..8 |-> IF j <= Len(to) /\ to[j] = a THEN pays[j] ELSE 0]
        = [j \in 1..8 |-> IF j = 1 /\ recipient = a THEN amount ELSE 0]
  <2>1. ASSUME NEW j \in 1..8 PROVE j <= Len(to) <=> j = 1
    BY <1>1
  <2> QED
    BY <1>1, <2>1
<1>3. [j \in 1..8 |-> IF j < 1 /\ j <= Len(to) /\ to[j] # payer THEN pays[j] ELSE 0]
        = [j \in 1..8 |-> 0]
  OBVIOUS
<1>4. /\ pays[2] = 0 /\ pays[3] = 0 /\ pays[4] = 0 /\ pays[5] = 0
      /\ pays[6] = 0 /\ pays[7] = 0 /\ pays[8] = 0
  OBVIOUS
<1>5. CreditedTo(pays, to, a)
        = Total([j \in 1..8 |-> IF j = 1 /\ recipient = a THEN amount ELSE 0])
  BY <1>2 DEF CreditedTo, Slots, MAX_SHARES
<1>6. SpentBefore(pays, to, payer, 1) = Total([j \in 1..8 |-> 0])
  BY <1>3 DEF SpentBefore, Slots, MAX_SHARES
<1> QED
  BY <1>4, <1>5, <1>6 DEF Total

\* After a settlement to one wallet, each account that changed holds what it must.
LEMMA OneSettled ==
  ASSUME NEW n \in NamespaceAddrs, NEW e \in Events, NEW payer \in Keys, NEW to \in Keys,
         NEW amount \in Nat \ {0}, NEW bps, bps = <<BPS_DENOMINATOR>>,
         lamports \in [Addresses -> Nat],
         lamports[payer] >= RecordRent + amount + WalletRent, amount >= WalletRent
  PROVE  LET after == Settled(lamports, payer, n, <<to>>, e, amount, bps)
             record == RecordAddr(n, e)
         IN /\ lamports[payer] >= Shortfall(lamports, record, RecordRent)
            /\ ToppedUp(lamports, payer, record, RecordRent)[payer] >= amount
            /\ after[record] >= RecordRent
            /\ after[payer] >= WalletRent
            /\ after[to] >= WalletRent
            /\ \A a \in Addresses \ {record, payer, to} : after[a] = lamports[a]
<1>1. PICK r \in Addresses : r = RecordAddr(n, e) /\ r \notin Keys
  BY DerivedAddresses
<1>2. payer \in Addresses /\ to \in Addresses
  BY DerivedAddresses
<1>3. PICK rent \in Nat : rent = RecordRent
  BY InputAssumption
<1>4. PICK least \in Nat : least = WalletRent
  BY InputAssumption
<1>5. PICK short \in Nat :
        /\ short = Shortfall(lamports, r, RecordRent)
        /\ short <= rent /\ lamports[r] + short >= rent
  BY <1>1, <1>3 DEF Shortfall
<1>6. PICK funded : funded = ToppedUp(lamports, payer, r, RecordRent)
  OBVIOUS
<1>7. funded = [lamports EXCEPT ![payer] = @ - short, ![r] = @ + short]
  BY <1>5, <1>6 DEF ToppedUp
<1>8. /\ funded[payer] = lamports[payer] - short
      /\ funded[r] = lamports[r] + short
      /\ \A a \in Addresses \ {r, payer} : funded[a] = lamports[a]
      /\ DOMAIN funded = Addresses
  BY <1>1, <1>2, <1>7
<1>9. PICK pays \in [1..8 -> Nat] :
        /\ pays = Payouts(amount, bps)
        /\ pays[1] = amount /\ \A k \in 1..8 : k > 1 => pays[k] = 0
  BY OneShare
<1>10. PICK after : after = Settled(lamports, payer, n, <<to>>, e, amount, bps)
  OBVIOUS
<1>11. after = Transferred(funded, pays, <<to>>, payer)
  BY <1>1, <1>6, <1>9, <1>10 DEF Settled
<1>12. ASSUME NEW a \in Addresses
       PROVE  after[a] = funded[a] + (IF to = a THEN amount ELSE 0)
                           - IF a = payer THEN amount ELSE 0
  <2>1. CreditedTo(pays, <<to>>, a) = IF to = a THEN amount ELSE 0
    BY <1>9, OneCredit
  <2>2. Total(pays) = amount
    BY <1>9, OneCredit
  <2> QED
    BY <1>8, <1>11, <2>1, <2>2 DEF Transferred
<1>13. PICK had \in Nat : had = lamports[payer]
  BY <1>2
<1>14. had - short >= amount + least /\ had >= short
  BY <1>3, <1>4, <1>5, <1>13
<1>15. after[r] >= rent
  <2>1. after[r] = funded[r]
    <3>1. lamports[r] + short \in Nat
      OBVIOUS
    <3> QED
      BY <1>1, <1>8, <1>12, <3>1
  <2> QED
    BY <1>5, <1>8, <2>1
<1>16. after[payer] >= least
  <2>1. after[payer] = had - short + (IF to = payer THEN amount ELSE 0) - amount
    BY <1>2, <1>8, <1>12, <1>13
  <2> QED
    BY <1>14, <2>1
<1>17. after[to] >= least
  <2>1. CASE to = payer
    BY <1>16, <2>1
  <2>2. CASE to # payer
    <3>1. after[to] = lamports[to] + amount
      BY <1>1, <1>2, <1>8, <1>12, <2>2
    <3> QED
      BY <1>2, <1>4, <3>1
  <2> QED
    BY <2>1, <2>2
<1>18. ASSUME NEW a \in Addresses \ {r, payer, to} PROVE after[a] = lamports[a]
  <2>1. funded[a] = lamports[a] /\ lamports[a] \in Nat
    BY <1>8
  <2> QED
    BY <1>12, <2>1
<1>19. funded[payer] >= amount
  BY <1>8, <1>13, <1>14, <1>4
<1> QED
  BY <1>1, <1>3, <1>4, <1>5, <1>6, <1>10, <1>13, <1>14, <1>15, <1>16, <1>17, <1>18, <1>19

\* In a state of the invariant nobody can keep an event from being settled.
LEMMA NeverBlockedHere ==
  ASSUME IInv, Untouched
  PROVE  NeverBlocked
<1> SUFFICES ASSUME NEW n \in NamespaceAddrs, NEW e \in Events, NEW payer \in Keys,
                    NEW to \in Keys, NEW amount \in Amounts \ {0},
                    NEW k, k = data[n].authority, NEW bps, bps = <<BPS_DENOMINATOR>>,
                    NEW record, record = RecordAddr(n, e),
                    owner[n] = "program", k \in Keys,
                    owner[record] # "program",
                    lamports[payer] >= RecordRent + amount + WalletRent,
                    amount >= WalletRent
             PROVE  /\ SettleOk(owner, data, lamports, {payer, k}, payer, k, n, <<to>>, e,
                                amount, bps)
                    /\ RentStateOk(Settled(lamports, payer, n, <<to>>, e, amount, bps),
                                   [data EXCEPT ![record] = RecordData(e, amount)])
  BY SMTT(30) DEF NeverBlocked
<1>1. amount \in Nat \ {0} /\ lamports \in [Addresses -> Nat] /\ data \in [Addresses -> DataValues]
  BY InputAssumption DEF IInv, TypeOK
<1>2. /\ n \in Addresses /\ payer \in Addresses /\ to \in Addresses
      /\ record \in Addresses /\ record \in RecordAddrs
      /\ record \notin Keys /\ record # payer /\ record # to
  BY DerivedAddresses
<1>3. PICK after : after = Settled(lamports, payer, n, <<to>>, e, amount, bps)
  OBVIOUS
<1>4. /\ lamports[payer] >= Shortfall(lamports, record, RecordRent)
      /\ ToppedUp(lamports, payer, record, RecordRent)[payer] >= amount
      /\ after[record] >= RecordRent
      /\ after[payer] >= WalletRent
      /\ after[to] >= WalletRent
      /\ \A a \in Addresses \ {record, payer, to} : after[a] = lamports[a]
  BY <1>1, <1>3, OneSettled
<1>5. Authorized(owner, data, {payer, k}, k, n)
  <2>1. IsNamespace(n) \/ IsRecord(n)
    BY <1>2 DEF IInv, ProgramAccounts
  <2>2. ~IsRecord(n)
    <3>1. n \notin RecordAddrs
      BY DerivedAddresses
    <3> QED
      BY <3>1, DerivedAddresses DEF IsRecord
  <2>3. data[n].kind = "namespace"
    <3>1. PICK c, id, k2 : data[n] = NamespaceData(c, id, k2)
      BY <2>1, <2>2 DEF IsNamespace
    <3> QED
      BY <3>1 DEF NamespaceData
  <2> QED
    BY <2>3 DEF Authorized
<1>6. Creatable(owner, data, lamports, {payer, k}, payer, record, RecordRent)
  BY <1>2, <1>4 DEF Creatable, Free, Untouched
<1>7. RecipientsOk(owner, record, <<to>>)
  <2>1. owner[to] # "program"
    BY <1>2, ProgramAccountsNotKeys
  <2>2. \A j \in 1..Len(<<to>>) : <<to>>[j] = to
    OBVIOUS
  <2> QED
    BY <1>2, <2>1, <2>2 DEF RecipientsOk
<1>8. /\ Len(<<to>>) = Len(bps)
      /\ SplitVerdict(amount, bps) = "ok"
  BY <1>1, OneShare
<1>9. Affordable(ToppedUp(lamports, payer, record, RecordRent)[payer],
                 Payouts(amount, bps), <<to>>, payer)
  <2>1. PICK pays \in [1..8 -> Nat] :
          /\ pays = Payouts(amount, bps)
          /\ pays[1] = amount /\ \A j \in 1..8 : j > 1 => pays[j] = 0
    BY <1>1, OneShare
  <2>2. SpentBefore(pays, <<to>>, payer, 1) = 0
    BY <1>1, <2>1, OneCredit
  <2>3. \A j \in 1..Len(<<to>>) : j = 1
    OBVIOUS
  <2>4. PICK funds : funds = ToppedUp(lamports, payer, record, RecordRent)[payer]
    OBVIOUS
  <2>5. funds >= 0 + amount
    BY <1>1, <1>4, <2>4
  <2> QED
    BY <2>1, <2>2, <2>3, <2>4, <2>5 DEF Affordable
<1>10. SettleOk(owner, data, lamports, {payer, k}, payer, k, n, <<to>>, e, amount, bps)
  BY <1>5, <1>6, <1>7, <1>8, <1>9 DEF SettleOk
<1>11. PICK d2 : d2 = [data EXCEPT ![record] = RecordData(e, amount)]
  OBVIOUS
<1>12. MinBalance(d2[record]) = RecordRent
  BY <1>1, <1>2, <1>11, MinBalanceOfData
<1>13. ASSUME NEW a \in Keys PROVE MinBalance(d2[a]) = WalletRent
  <2>1. a \in Addresses /\ a # record
    BY <1>2, DerivedAddresses
  <2>2. d2[a] = data[a]
    BY <1>1, <1>11, <2>1
  <2>3. data[a] = Empty
    BY <2>1, ProgramAccountsNotKeys DEF Untouched
  <2>4. MinBalance(Empty) = WalletRent
    BY DEF MinBalance, Empty
  <2> QED
    BY <2>2, <2>3, <2>4
<1>14. RentStateOk(after, d2)
  BY <1>2, <1>4, <1>12, <1>13 DEF RentStateOk
<1> QED
  BY <1>3, <1>10, <1>11, <1>14

\* processor.rs:368-372: whatever somebody sends to a record address, the
\* namespace's authority can settle the event, in every reachable state.
THEOREM AlwaysSettleable == Spec => []NeverBlocked
  BY UntouchedInvariance, NeverBlockedHere, PTL

-----------------------------------------------------------------------------
(* No payout is lost: what the program owns is paid nothing but the rent   *)
(* of what is made.                                                        *)

\* What a top-up to its rent leaves an address with.
Funded(l, a, rent) == IF l[a] < rent THEN rent ELSE l[a]

\* A top-up brings an address to its rent, or leaves it.
LEMMA ToppedUpTo ==
  ASSUME NEW l \in [Addresses -> Nat], NEW payer \in Addresses, NEW a \in Addresses,
         payer # a, NEW rent \in Nat
  PROVE  /\ ToppedUp(l, payer, a, rent)[a] = Funded(l, a, rent)
         /\ \A b \in Addresses : b # payer /\ b # a => ToppedUp(l, payer, a, rent)[b] = l[b]
<1>1. PICK s \in Nat : s = Shortfall(l, a, rent)
  BY DEF Shortfall
<1>2. ToppedUp(l, payer, a, rent) = [l EXCEPT ![payer] = l[payer] - s, ![a] = l[a] + s]
  BY <1>1 DEF ToppedUp
<1>3. l[a] + s = Funded(l, a, rent)
  BY <1>1 DEF Shortfall, Funded
<1> QED
  BY <1>2, <1>3

\* Whom no payout names is credited nothing.
LEMMA NotCredited ==
  ASSUME NEW pays, NEW to, Len(to) \in Nat, NEW a, \A j \in 1..Len(to) : to[j] # a
  PROVE  CreditedTo(pays, to, a) = 0
<1>1. \A j \in 1..8 : ~(j <= Len(to) /\ to[j] = a)
  OBVIOUS
<1>2. CreditedTo(pays, to, a) = Total([j \in 1..8 |-> 0])
  BY <1>1 DEF CreditedTo, Slots, MAX_SHARES
<1>3. Total([j \in 1..8 |-> 0]) = 0
  BY DEF Total
<1> QED
  BY <1>2, <1>3

\* Of what the program then owns, only the account made gets something: its rent.
OnlyFunded(t, l, o, payer, r, rent) ==
  /\ t[r] = Funded(l, r, rent)
  /\ \A a \in Addresses : a # payer /\ a # r /\ o[a] = "program" => t[a] = l[a]

\* A settlement pays neither its record nor an account of the program.
LEMMA SettledRecoverable ==
  ASSUME NEW l \in [Addresses -> Nat], NEW o, NEW d, NEW S,
         NEW payer \in Keys, NEW k, NEW n \in NamespaceAddrs \cup Impostors,
         NEW to \in RecipientVectors, NEW e \in Events, NEW amount \in Amounts,
         NEW bps \in BpsVectors,
         SettleOk(o, d, l, S, payer, k, n, to, e, amount, bps)
  PROVE  OnlyFunded(Settled(l, payer, n, to, e, amount, bps), l, o, payer, RecordAddr(n, e),
                    RecordRent)
<1> PICK r \in Addresses : r = RecordAddr(n, e)
  BY DerivedAddresses
<1>1. r \in Addresses /\ payer \in Addresses /\ payer # r
  BY DerivedAddresses
<1>2. PICK f : f = ToppedUp(l, payer, r, RecordRent)
  OBVIOUS
<1>3. PICK pays : pays = Payouts(amount, bps)
  OBVIOUS
<1>4. /\ \A j \in 1..Len(to) : to[j] # r /\ o[to[j]] # "program"
      /\ l[payer] >= Shortfall(l, r, RecordRent)
  BY DEF SettleOk, RecipientsOk, Creatable
<1>5. Len(to) \in Nat /\ RecordRent \in Nat
  <2>1. to \in Seq(Addresses)
    BY InputAssumption
  <2> QED
    BY <2>1, InputAssumption
<1>6. f \in [Addresses -> Nat]
  BY <1>1, <1>2, <1>4, <1>5, ToppedUpFacts
<1>7. /\ f[r] = Funded(l, r, RecordRent)
      /\ \A a \in Addresses : a # payer /\ a # r => f[a] = l[a]
  BY <1>1, <1>2, <1>5, ToppedUpTo
<1>8. ASSUME NEW a \in Addresses, a # payer, \A j \in 1..Len(to) : to[j] # a
      PROVE  Transferred(f, pays, to, payer)[a] = f[a]
  <2>1. CreditedTo(pays, to, a) = 0
    BY <1>5, <1>8, NotCredited
  <2>2. Transferred(f, pays, to, payer)[a] = f[a] + 0 - 0
    BY <1>6, <1>8, <2>1 DEF Transferred
  <2>3. f[a] \in Nat
    BY <1>6
  <2> QED
    BY <2>2, <2>3
<1>9. Transferred(f, pays, to, payer) = Settled(l, payer, n, to, e, amount, bps)
  BY <1>2, <1>3 DEF Settled
<1>10. Transferred(f, pays, to, payer)[r] = f[r]
  BY <1>1, <1>4, <1>8
<1>11. ASSUME NEW a \in Addresses, a # payer, a # r, o[a] = "program"
       PROVE  Transferred(f, pays, to, payer)[a] = l[a]
  <2>1. \A j \in 1..Len(to) : to[j] # a
    BY <1>4, <1>11
  <2>2. Transferred(f, pays, to, payer)[a] = f[a]
    BY <1>8, <1>11, <2>1
  <2> QED
    BY <1>7, <1>11, <2>2
<1> QED
  BY <1>7, <1>9, <1>10, <1>11 DEF OnlyFunded

\* What a step leaves in the accounts the program then owns.
Recoverable ==
  \A a \in Addresses : owner'[a] = "program" =>
    \/ lamports'[a] = lamports[a]
    \/ owner[a] # "program" /\ lamports'[a] = MinBalance(data'[a])

LEMMA CreateNamespaceRecoverable ==
  ASSUME IInv, NEW S \in SUBSET Keys,
         NEW payer \in Keys, NEW creator \in Creators, NEW id \in NamespaceIds,
         NEW k \in AuthorityArgs,
         CreateNamespace(S, payer, creator, id, k)
  PROVE  Recoverable
<1>1. PICK n \in NamespaceAddrs : n = NamespaceAddr(creator, id)
  BY DerivedAddresses
<1>2. n \in Addresses /\ payer \in Addresses /\ payer # n
  BY <1>1, DerivedAddresses
<1>3. /\ owner[n] = "system"
      /\ owner' = [owner EXCEPT ![n] = "program"]
      /\ data' = [data EXCEPT ![n] = NamespaceData(creator, id, k)]
      /\ lamports' = ToppedUp(lamports, payer, n, NamespaceRent)
  BY <1>1 DEF CreateNamespace, CreateNamespaceOk, Creatable, Free
<1>4. /\ owner \in [Addresses -> Owners] /\ data \in [Addresses -> DataValues]
      /\ lamports \in [Addresses -> Nat] /\ NamespaceRent \in Nat
  BY InputAssumption DEF IInv, TypeOK
<1>5. /\ lamports'[n] = Funded(lamports, n, NamespaceRent)
      /\ \A b \in Addresses : b # payer /\ b # n => lamports'[b] = lamports[b]
  BY <1>2, <1>3, <1>4, ToppedUpTo
<1>6. MinBalance(data'[n]) = NamespaceRent
  BY <1>2, <1>3, <1>4, MinBalanceOfData
<1>7. ASSUME NEW a \in Addresses, owner'[a] = "program", a # n
      PROVE  a # payer
  <2>1. owner[a] = "program"
    BY <1>2, <1>3, <1>4, <1>7
  <2> QED
    BY <2>1, ProgramAccountsNotKeys
<1> QED
  BY <1>3, <1>5, <1>6, <1>7 DEF Recoverable, Funded

LEMMA SettleNRecoverable ==
  ASSUME IInv, NEW S \in SUBSET Keys,
         NEW payer \in Keys, NEW k \in Keys, NEW n \in NamespaceAddrs \cup Impostors,
         NEW to \in RecipientVectors, NEW e \in Events, NEW amount \in Amounts,
         NEW bps \in BpsVectors,
         SettleN(S, payer, k, n, to, e, amount, bps)
  PROVE  Recoverable
<1>1. PICK r \in Addresses : r = RecordAddr(n, e)
  BY DerivedAddresses
<1>2. /\ SettleOk(owner, data, lamports, S, payer, k, n, to, e, amount, bps)
      /\ owner' = [owner EXCEPT ![r] = "program"]
      /\ data' = [data EXCEPT ![r] = RecordData(e, amount)]
      /\ lamports' = Settled(lamports, payer, n, to, e, amount, bps)
  BY <1>1 DEF SettleN
<1>3. /\ owner \in [Addresses -> Owners] /\ data \in [Addresses -> DataValues]
      /\ lamports \in [Addresses -> Nat]
  BY DEF IInv, TypeOK
<1>4. owner[r] = "system"
  BY <1>1, <1>2 DEF SettleOk, Creatable, Free
<1>5. r \notin Keys
  BY <1>1, DerivedAddresses
<1>6. MinBalance(data'[r]) = RecordRent
  BY <1>2, <1>3, MinBalanceOfData
<1>7. OnlyFunded(lamports', lamports, owner, payer, r, RecordRent)
  BY <1>1, <1>2, <1>3, SettledRecoverable
<1>8. ASSUME NEW a \in Addresses, owner'[a] = "program", a # r
      PROVE  lamports'[a] = lamports[a]
  <2>1. owner[a] = "program"
    BY <1>2, <1>3, <1>8
  <2>2. a \notin Keys
    BY <2>1, ProgramAccountsNotKeys
  <2> QED
    BY <1>7, <1>8, <2>1, <2>2 DEF OnlyFunded
<1> QED
  BY <1>4, <1>6, <1>7, <1>8 DEF Recoverable, Funded, OnlyFunded

LEMMA SettleTokenNRecoverable ==
  ASSUME IInv, NEW S \in SUBSET Keys,
         NEW payer \in Keys, NEW k \in Keys, NEW n \in NamespaceAddrs \cup Impostors,
         NEW source \in TokenAccounts, NEW mint \in Mints,
         NEW to \in RecipientVectors, NEW e \in Events, NEW amount \in Amounts,
         NEW decimals \in DecimalsArgs, NEW bps \in BpsVectors,
         SettleTokenN(S, payer, k, n, source, mint, to, e, amount, decimals, bps)
  PROVE  Recoverable
<1>1. PICK r \in Addresses : r = RecordAddr(n, e)
  BY DerivedAddresses
<1>2. r \notin Keys /\ payer \in Addresses /\ payer # r
  BY <1>1, DerivedAddresses
<1>3. /\ owner[r] = "system"
      /\ owner' = [owner EXCEPT ![r] = "program"]
      /\ data' = [data EXCEPT ![r] = RecordData(e, amount)]
      /\ lamports' = ToppedUp(lamports, payer, r, RecordRent)
  BY <1>1 DEF SettleTokenN, Creatable, Free
<1>4. /\ owner \in [Addresses -> Owners] /\ data \in [Addresses -> DataValues]
      /\ lamports \in [Addresses -> Nat] /\ RecordRent \in Nat
  BY InputAssumption DEF IInv, TypeOK
<1>5. /\ lamports'[r] = Funded(lamports, r, RecordRent)
      /\ \A b \in Addresses : b # payer /\ b # r => lamports'[b] = lamports[b]
  BY <1>2, <1>3, <1>4, ToppedUpTo
<1>6. MinBalance(data'[r]) = RecordRent
  BY <1>3, <1>4, MinBalanceOfData
<1>7. ASSUME NEW a \in Addresses, owner'[a] = "program", a # r
      PROVE  a # payer
  <2>1. owner[a] = "program"
    BY <1>3, <1>4, <1>7
  <2> QED
    BY <2>1, ProgramAccountsNotKeys
<1> QED
  BY <1>3, <1>5, <1>6, <1>7 DEF Recoverable, Funded

LEMMA FirstSettlementRecoverable ==
  ASSUME IInv, NEW S \in SUBSET Keys,
         NEW payer \in Keys, NEW creator \in Creators, NEW id \in NamespaceIds, NEW k \in Keys,
         NEW to \in RecipientVectors, NEW e \in Events, NEW amount \in Amounts,
         NEW bps \in BpsVectors,
         FirstSettlement(S, payer, creator, id, k, to, e, amount, bps)
  PROVE  Recoverable
<1>1. PICK n \in NamespaceAddrs : n = NamespaceAddr(creator, id)
  BY DerivedAddresses
<1>2. PICK r \in RecordAddrs : r = RecordAddr(n, e)
  BY DerivedAddresses
<1>3. /\ n \in Addresses /\ r \in Addresses /\ n # r /\ n \notin Keys /\ r \notin Keys
      /\ payer \in Addresses /\ payer # n /\ payer # r
  BY DerivedAddresses
<1>4. PICK o : o = [owner EXCEPT ![n] = "program"]
  OBVIOUS
<1>5. PICK d : d = [data EXCEPT ![n] = NamespaceData(creator, id, k)]
  OBVIOUS
<1>6. PICK l : l = ToppedUp(lamports, payer, n, NamespaceRent)
  OBVIOUS
<1>7. /\ owner[n] = "system"
      /\ lamports[payer] >= Shortfall(lamports, n, NamespaceRent)
  BY <1>1 DEF FirstSettlement, CreateNamespaceOk, Creatable, Free
<1>8. /\ SettleOk(o, d, l, S, payer, k, n, to, e, amount, bps)
      /\ owner' = [o EXCEPT ![r] = "program"]
      /\ data' = [d EXCEPT ![r] = RecordData(e, amount)]
      /\ lamports' = Settled(l, payer, n, to, e, amount, bps)
  BY <1>1, <1>2, <1>4, <1>5, <1>6 DEF FirstSettlement
<1>9. /\ owner \in [Addresses -> Owners] /\ data \in [Addresses -> DataValues]
      /\ lamports \in [Addresses -> Nat] /\ NamespaceRent \in Nat
  BY InputAssumption DEF IInv, TypeOK
<1>10. l \in [Addresses -> Nat]
  BY <1>3, <1>6, <1>7, <1>9, ToppedUpFacts
<1>11. /\ l[n] = Funded(lamports, n, NamespaceRent)
       /\ \A b \in Addresses : b # payer /\ b # n => l[b] = lamports[b]
  BY <1>3, <1>6, <1>9, ToppedUpTo
<1>12. owner[r] = "system"
  <2>1. o[r] = "system"
    BY <1>2, <1>8 DEF SettleOk, Creatable, Free
  <2> QED
    BY <1>3, <1>4, <1>9, <2>1
<1>13. /\ MinBalance(data'[r]) = RecordRent /\ MinBalance(data'[n]) = NamespaceRent
  <2>1. data'[r] = RecordData(e, amount) /\ data'[n] = NamespaceData(creator, id, k)
    BY <1>3, <1>5, <1>8, <1>9
  <2> QED
    BY <2>1, MinBalanceOfData
<1>14. OnlyFunded(lamports', l, o, payer, r, RecordRent)
  BY <1>2, <1>8, <1>10, SettledRecoverable
<1>15. \/ lamports'[r] = lamports[r]
       \/ owner[r] # "program" /\ lamports'[r] = MinBalance(data'[r])
  <2>1. l[r] = lamports[r]
    BY <1>3, <1>11
  <2> QED
    BY <1>12, <1>13, <1>14, <2>1 DEF Funded, OnlyFunded
<1>16. \/ lamports'[n] = lamports[n]
       \/ owner[n] # "program" /\ lamports'[n] = MinBalance(data'[n])
  <2>1. o[n] = "program"
    BY <1>3, <1>4, <1>9
  <2>2. lamports'[n] = l[n]
    BY <1>3, <1>14, <2>1 DEF OnlyFunded
  <2> QED
    BY <1>7, <1>11, <1>13, <2>2 DEF Funded
<1>17. ASSUME NEW a \in Addresses, owner'[a] = "program", a # r, a # n
       PROVE  lamports'[a] = lamports[a]
  <2>1. owner[a] = "program" /\ o[a] = "program"
    BY <1>3, <1>4, <1>8, <1>9, <1>17
  <2>2. a # payer
    BY <2>1, ProgramAccountsNotKeys
  <2> QED
    BY <1>11, <1>14, <1>17, <2>1, <2>2 DEF OnlyFunded
<1> QED
  BY <1>15, <1>16, <1>17 DEF Recoverable

LEMMA NextRecoverable ==
  ASSUME IInv, Next, data' # data
  PROVE  Recoverable
<1>1. PICK S \in SUBSET Keys :
        /\ signers' = S
        /\ \/ \E payer \in Keys, creator \in Creators, id \in NamespaceIds, k \in AuthorityArgs :
                CreateNamespace(S, payer, creator, id, k)
           \/ \E k \in Keys, n \in NamespaceAddrs \cup Impostors, new \in AuthorityArgs :
                SetNamespaceAuthority(S, k, n, new)
           \/ \E payer, k \in Keys, n \in NamespaceAddrs \cup Impostors,
                 to \in RecipientVectors, e \in Events, amount \in Amounts, bps \in BpsVectors :
                SettleN(S, payer, k, n, to, e, amount, bps)
           \/ \E payer, k \in Keys, n \in NamespaceAddrs \cup Impostors, source \in TokenAccounts,
                 mint \in Mints, to \in RecipientVectors, e \in Events, amount \in Amounts,
                 decimals \in DecimalsArgs, bps \in BpsVectors :
                SettleTokenN(S, payer, k, n, source, mint, to, e, amount, decimals, bps)
           \/ \E payer \in Keys, creator \in Creators, id \in NamespaceIds, k \in Keys,
                 to \in RecipientVectors, e \in Events, amount \in Amounts, bps \in BpsVectors :
                FirstSettlement(S, payer, creator, id, k, to, e, amount, bps)
           \/ \E from \in Keys, to \in DepositTargets, amount \in Deposits :
                Deposit(S, from, to, amount)
  BY DEF Next
<1>2. CASE \E payer \in Keys, creator \in Creators, id \in NamespaceIds, k \in AuthorityArgs :
             CreateNamespace(S, payer, creator, id, k)
  BY <1>2, CreateNamespaceRecoverable
<1>3. CASE \E k \in Keys, n \in NamespaceAddrs \cup Impostors, new \in AuthorityArgs :
             SetNamespaceAuthority(S, k, n, new)
  BY <1>3 DEF SetNamespaceAuthority, Recoverable
<1>4. CASE \E payer, k \in Keys, n \in NamespaceAddrs \cup Impostors,
             to \in RecipientVectors, e \in Events, amount \in Amounts, bps \in BpsVectors :
             SettleN(S, payer, k, n, to, e, amount, bps)
  BY <1>4, SettleNRecoverable
<1>5. CASE \E payer, k \in Keys, n \in NamespaceAddrs \cup Impostors, source \in TokenAccounts,
             mint \in Mints, to \in RecipientVectors, e \in Events, amount \in Amounts,
             decimals \in DecimalsArgs, bps \in BpsVectors :
             SettleTokenN(S, payer, k, n, source, mint, to, e, amount, decimals, bps)
  BY <1>5, SettleTokenNRecoverable
<1>6. CASE \E payer \in Keys, creator \in Creators, id \in NamespaceIds, k \in Keys,
             to \in RecipientVectors, e \in Events, amount \in Amounts, bps \in BpsVectors :
             FirstSettlement(S, payer, creator, id, k, to, e, amount, bps)
  BY <1>6, FirstSettlementRecoverable
<1>7. CASE \E from \in Keys, to \in DepositTargets, amount \in Deposits :
             Deposit(S, from, to, amount)
  BY <1>7 DEF Deposit
<1> QED
  BY <1>1, <1>2, <1>3, <1>4, <1>5, <1>6, <1>7

\* processor.rs:185-187, for every set of accounts and every split: a payout never
\* ends in an account of the program, from which nobody could take it back.
THEOREM NoPayoutIsLost == Spec => PayoutsRecoverable
<1>1. IInv /\ [Next]_vars => (data' # data => Recoverable)
  BY NextRecoverable DEF vars
<1>2. (data' # data => Recoverable) =>
        (data' # data =>
           \A a \in Addresses : owner'[a] = "program" =>
             \/ lamports'[a] = lamports[a]
             \/ /\ owner[a] # "program"
                /\ lamports'[a] = MinBalance(data'[a]))
  BY DEF Recoverable
<1> QED
  BY <1>1, <1>2, Invariance, PTL DEF Spec, PayoutsRecoverable

-----------------------------------------------------------------------------
(* Nothing is made and nothing lost: the sum of the lamports, and of the   *)
(* tokens of each mint, is what it was at the start. A step moves lamports *)
(* or tokens from one account to another, or pays up to eight recipients   *)
(* out of one account; ArithmeticProofs says what that does to a sum.       *)

\* Payouts, one for each recipient.
PayoutsTo(D, pays, to) ==
  /\ pays \in [1..8 -> Nat]
  /\ Len(to) \in Nat /\ \A j \in 1..Len(to) : to[j] \in D
  /\ \A j \in 1..8 : j > Len(to) => pays[j] = 0

\* The payout at one slot, to whichever recipient it goes.
Credit(D, pays, to, j) == [a \in D |-> IF j <= Len(to) /\ to[j] = a THEN pays[j] ELSE 0]

LEMMA CreditSum ==
  ASSUME NEW D, IsFiniteSet(D), NEW pays, NEW to, PayoutsTo(D, pays, to), NEW j \in 1..8
  PROVE  /\ Credit(D, pays, to, j) \in [D -> Int]
         /\ SumOf(Credit(D, pays, to, j)) = pays[j]
         /\ pays[j] \in Nat
<1>1. pays[j] \in Nat
  <2>1. pays \in [1..8 -> Nat]
    BY DEF PayoutsTo
  <2> QED
    BY <2>1
<1>2. PICK v \in Int : v = pays[j]
  BY <1>1
<1>3. Len(to) \in Nat
  BY DEF PayoutsTo
<1>4. CASE j <= Len(to)
  <2>1. j \in 1..Len(to)
    BY <1>4, <1>3
  <2>2. to[j] \in D
    BY <2>1, Zenon DEF PayoutsTo
  <2>3. PICK d \in D : d = to[j]
    BY <2>2
  <2>4. Credit(D, pays, to, j) = AtOne(D, d, v)
    BY <1>2, <1>4, <2>3 DEF Credit, AtOne
  <2>5. AtOne(D, d, v) \in [D -> Int] /\ SumOf(AtOne(D, d, v)) = v
    BY SumAtOne
  <2> QED
    BY <1>2, <1>1, <2>4, <2>5
<1>5. CASE j > Len(to)
  <2>1. PICK h : h = Credit(D, pays, to, j)
    OBVIOUS
  <2>2. h \in [D -> Int] /\ \A a \in D : h[a] = 0
    BY <1>5, <1>3, <2>1 DEF Credit
  <2>3. SumOf(h) = 0
    BY <2>2, SumZero
  <2>4. v = 0
    BY <1>2, <1>5 DEF PayoutsTo
  <2> QED
    BY <1>2, <1>1, <2>1, <2>2, <2>3, <2>4
<1> QED
  BY <1>4, <1>5, <1>3

\* f with every payout given to its recipient and all of them taken from the payer.
Paid(D, f, pays, to, payer) ==
  [a \in D |-> f[a] + Total([j \in Slots |-> IF j <= Len(to) /\ to[j] = a THEN pays[j] ELSE 0])
               - IF a = payer THEN Total(pays) ELSE 0]

\* What the eight slots bring to one account.
LEMMA TotalOfPart ==
  ASSUME NEW part, \A j \in 1..8 : part[j] \in Int
  PROVE  /\ Total(part) \in Int
         /\ Total(part) = part[1] + part[2] + part[3] + part[4]
                          + part[5] + part[6] + part[7] + part[8]
  BY DEF Total

\* Paying moves the whole amount and nothing else.
LEMMA PaidKeepsSum ==
  ASSUME NEW D, IsFiniteSet(D), NEW f \in [D -> Int], NEW pays, NEW to, PayoutsTo(D, pays, to),
         NEW payer \in D
  PROVE  /\ Paid(D, f, pays, to, payer) \in [D -> Int]
         /\ SumOf(Paid(D, f, pays, to, payer)) = SumOf(f)
<1>1. PICK c : c = [j \in 1..8 |-> Credit(D, pays, to, j)]
  OBVIOUS
<1>2. ASSUME NEW j \in 1..8
      PROVE  c[j] \in [D -> Int] /\ SumOf(c[j]) = pays[j] /\ pays[j] \in Int
  <2>1. c[j] = Credit(D, pays, to, j)
    BY <1>1
  <2>2. /\ Credit(D, pays, to, j) \in [D -> Int]
        /\ SumOf(Credit(D, pays, to, j)) = pays[j]
        /\ pays[j] \in Nat
    BY CreditSum
  <2> QED
    BY <2>1, <2>2
<1>3. c \in [1..8 -> [D -> Int]]
  BY <1>1, <1>2
<1>4. PICK s \in [D -> Int] : s = AllAdded(D, f, c)
  BY <1>3, SumAllAdded
<1>5. SumOf(s) = SumOf(f) + SumOf(c[1]) + SumOf(c[2]) + SumOf(c[3]) + SumOf(c[4])
                 + SumOf(c[5]) + SumOf(c[6]) + SumOf(c[7]) + SumOf(c[8])
  BY <1>3, <1>4, SumAllAdded
<1>6. ASSUME NEW a \in D
      PROVE  s[a] = f[a] + c[1][a] + c[2][a] + c[3][a] + c[4][a]
                    + c[5][a] + c[6][a] + c[7][a] + c[8][a]
  BY <1>3, <1>4, SumAllAdded
<1>7. /\ Total(pays) \in Int
      /\ Total(pays) = pays[1] + pays[2] + pays[3] + pays[4] + pays[5] + pays[6] + pays[7] + pays[8]
  BY <1>2, TotalOfPart
<1>8. PICK amount \in Int : amount = -Total(pays)
  BY <1>7
<1>9. PICK minus \in [D -> Int] : minus = AtOne(D, payer, amount)
  BY SumAtOne
<1>10. SumOf(minus) = amount
  BY <1>9, SumAtOne
<1>11. PICK t \in [D -> Int] : t = Plus(D, s, minus)
  BY SumPlus
<1>12. SumOf(t) = SumOf(s) + SumOf(minus)
  BY <1>11, SumPlus
<1>13. SumOf(f) \in Int
  BY SumNat
<1>14. /\ SumOf(c[1]) = pays[1] /\ SumOf(c[2]) = pays[2] /\ SumOf(c[3]) = pays[3]
       /\ SumOf(c[4]) = pays[4] /\ SumOf(c[5]) = pays[5] /\ SumOf(c[6]) = pays[6]
       /\ SumOf(c[7]) = pays[7] /\ SumOf(c[8]) = pays[8]
       /\ pays[1] \in Int /\ pays[2] \in Int /\ pays[3] \in Int /\ pays[4] \in Int
       /\ pays[5] \in Int /\ pays[6] \in Int /\ pays[7] \in Int /\ pays[8] \in Int
  BY <1>2
<1>15. SumOf(s) = SumOf(f) + Total(pays)
  BY <1>5, <1>7, <1>13, <1>14
<1>16. SumOf(t) = SumOf(f)
  BY <1>7, <1>8, <1>10, <1>12, <1>13, <1>15
<1>17. ASSUME NEW a \in D
       PROVE  t[a] = f[a] + Total([j \in Slots |-> IF j <= Len(to) /\ to[j] = a THEN pays[j] ELSE 0])
                     - IF a = payer THEN Total(pays) ELSE 0
  <2>1. PICK part : part = [j \in Slots |-> IF j <= Len(to) /\ to[j] = a THEN pays[j] ELSE 0]
    OBVIOUS
  <2>2. ASSUME NEW j \in 1..8 PROVE c[j][a] = part[j] /\ part[j] \in Int
    <3>1. c[j][a] = part[j]
      BY <1>1, <2>1 DEF Credit, Slots, MAX_SHARES
    <3>2. c[j] \in [D -> Int]
      BY <1>2
    <3> QED
      BY <3>1, <3>2
  <2>3. /\ c[1][a] = part[1] /\ c[2][a] = part[2] /\ c[3][a] = part[3] /\ c[4][a] = part[4]
        /\ c[5][a] = part[5] /\ c[6][a] = part[6] /\ c[7][a] = part[7] /\ c[8][a] = part[8]
        /\ part[1] \in Int /\ part[2] \in Int /\ part[3] \in Int /\ part[4] \in Int
        /\ part[5] \in Int /\ part[6] \in Int /\ part[7] \in Int /\ part[8] \in Int
    BY <2>2
  <2>4. PICK brought \in Int : brought = Total(part)
    BY <2>2, TotalOfPart
  <2>5. brought = part[1] + part[2] + part[3] + part[4] + part[5] + part[6] + part[7] + part[8]
    BY <2>2, <2>4, TotalOfPart
  <2>6. f[a] \in Int /\ s[a] \in Int
    OBVIOUS
  <2>7. s[a] = f[a] + brought
    BY <1>6, <2>3, <2>5, <2>6
  <2>8. minus[a] = IF a = payer THEN amount ELSE 0
    BY <1>9 DEF AtOne
  <2>9. t[a] = s[a] + minus[a]
    BY <1>11 DEF Plus
  <2>10. t[a] = f[a] + brought - IF a = payer THEN Total(pays) ELSE 0
    BY <1>7, <1>8, <2>6, <2>7, <2>8, <2>9
  <2> QED
    BY <2>1, <2>4, <2>10
<1>18. t = Paid(D, f, pays, to, payer)
  <2>1. t = [a \in D |-> t[a]]
    OBVIOUS
  <2> QED
    BY <1>17, <2>1, Zenon DEF Paid
<1> QED
  BY <1>16, <1>18

\* The model's sum is the one of the lemmas.
LEMMA SumOverIsSum ==
  ASSUME NEW f
  PROVE  SumOver(f) = SumOf(f)
  BY Zenon DEF SumOver, F!FoldFunction, F!FoldFunctionOnSet, F!MapThenFoldSet, SumOf, Sums, AddsUp, First

\* Ones add up to how many they are.
LEMMA OnesAddUp ==
  ASSUME NEW K, IsFiniteSet(K)
  PROVE  SumOver([k \in K |-> 1]) = Cardinality(K)
<1>1. PICK ones : ones = [k \in K |-> 1]
  OBVIOUS
<1>2. ones \in [K -> Int] /\ \A k \in K : ones[k] = IF k \in K THEN 1 ELSE 0
  BY <1>1
<1>3. SumOf(ones) = 1 * Cardinality(K)
  BY <1>2, SumConstant
<1>4. Cardinality(K) \in Nat
  BY FS_CardinalityType
<1> QED
  BY <1>1, <1>3, <1>4, SumOverIsSum

\* A transaction's top-up moves the shortfall and nothing else.
LEMMA ToppedUpKeepsSum ==
  ASSUME NEW X, IsFiniteSet(X), NEW l \in [X -> Nat], NEW payer \in X, NEW a \in X, payer # a,
         NEW rent \in Nat
  PROVE  SumOf(ToppedUp(l, payer, a, rent)) = SumOf(l)
<1>1. PICK s \in Nat : s = Shortfall(l, a, rent)
  BY DEF Shortfall
<1>2. ToppedUp(l, payer, a, rent) = [l EXCEPT ![payer] = l[payer] - s, ![a] = l[a] + s]
  BY <1>1 DEF ToppedUp
<1>3. l \in [X -> Int] /\ s \in Int
  OBVIOUS
<1>4. ToppedUp(l, payer, a, rent) = Moved(X, l, payer, a, s)
  <2>1. ASSUME NEW b \in X
        PROVE  [l EXCEPT ![payer] = l[payer] - s, ![a] = l[a] + s][b]
                 = l[b] + (IF b = payer THEN -s ELSE 0) + (IF b = a THEN s ELSE 0)
    <3>1. l[b] \in Nat
      OBVIOUS
    <3>2. CASE b = payer
      BY <3>1, <3>2
    <3>3. CASE b = a
      BY <3>1, <3>3
    <3>4. CASE b # payer /\ b # a
      BY <3>1, <3>4
    <3> QED
      BY <3>2, <3>3, <3>4
  <2> QED
    BY <1>2, <2>1 DEF Moved
<1> QED
  BY <1>3, <1>4, MoveKeepsSum

LEMMA TransferredKeepsSum ==
  ASSUME NEW X, IsFiniteSet(X), NEW l \in [X -> Int], NEW pays, NEW to, PayoutsTo(X, pays, to),
         NEW payer \in X
  PROVE  SumOf(Transferred(l, pays, to, payer)) = SumOf(l)
<1>1. Transferred(l, pays, to, payer) = Paid(X, l, pays, to, payer)
  BY DEF Transferred, Paid, CreditedTo
<1> QED
  BY <1>1, PaidKeepsSum

\* A settlement in lamports moves the rent and the payouts.
LEMMA SettledKeepsSum ==
  ASSUME NEW l \in [Addresses -> Nat], NEW o, NEW d, NEW S,
         NEW payer \in Keys, NEW k, NEW n \in NamespaceAddrs \cup Impostors,
         NEW to \in RecipientVectors, NEW e \in Events, NEW amount \in Amounts,
         NEW bps \in BpsVectors,
         SettleOk(o, d, l, S, payer, k, n, to, e, amount, bps)
  PROVE  SumOf(Settled(l, payer, n, to, e, amount, bps)) = SumOf(l)
<1>1. PICK r \in Addresses : r = RecordAddr(n, e)
  BY DerivedAddresses
<1>2. payer \in Addresses /\ payer # r
  BY <1>1, DerivedAddresses
<1>3. PICK f : f = ToppedUp(l, payer, r, RecordRent)
  OBVIOUS
<1>4. PICK pays : pays = Payouts(amount, bps)
  OBVIOUS
<1>5. /\ SplitVerdict(amount, bps) = "ok" /\ Len(to) = Len(bps)
      /\ l[payer] >= Shortfall(l, r, RecordRent)
  BY <1>1 DEF SettleOk, Creatable
<1>6. RecordRent \in Nat /\ amount \in Nat /\ bps \in Seq(Nat) /\ to \in Seq(Addresses)
  BY InputAssumption
<1>7. PayoutsTo(Addresses, pays, to)
  <2>1. /\ pays \in [1..8 -> Nat]
        /\ \A j \in 1..8 : j > Len(to) => pays[j] = 0
    BY <1>4, <1>5, <1>6, PayoutsWellFormed
  <2>2. Len(to) \in Nat /\ \A j \in 1..Len(to) : to[j] \in Addresses
    BY <1>6
  <2> QED
    BY <2>1, <2>2 DEF PayoutsTo
<1>8. IsFiniteSet(Addresses)
  BY FiniteAssumption
<1>9. f \in [Addresses -> Nat]
  BY <1>2, <1>3, <1>5, <1>6, ToppedUpFacts
<1>10. SumOf(f) = SumOf(l)
  BY <1>2, <1>3, <1>6, <1>8, ToppedUpKeepsSum
<1>11. f \in [Addresses -> Int]
  BY <1>9
<1>12. SumOf(Transferred(f, pays, to, payer)) = SumOf(f)
  BY <1>2, <1>7, <1>8, <1>11, TransferredKeepsSum
<1> QED
  BY <1>1, <1>3, <1>4, <1>10, <1>12 DEF Settled

\* The balances in one mint.
OfMint(m) == [t \in TokenAccounts |-> IF Mint[t] = m THEN tokens[t] ELSE 0]

LEMMA FiniteTokenAccounts == IsFiniteSet(TokenAccounts)
<1>1. TokenAccounts \subseteq Addresses
  BY DEF Addresses
<1> QED
  BY <1>1, FiniteAssumption, FS_Subset

\* Payouts to token accounts of one mint move tokens of that mint and no others.
LEMMA TokenPayoutsKeepSums ==
  ASSUME tokens \in [TokenAccounts -> Nat], NEW pays, NEW to, PayoutsTo(TokenAccounts, pays, to),
         NEW source \in TokenAccounts, NEW mint \in Mints,
         Mint[source] = mint, \A j \in 1..Len(to) : Mint[to[j]] = mint,
         tokens' = Transferred(tokens, pays, to, source),
         NEW m \in Mints
  PROVE  SumOf(OfMint(m)') = SumOf(OfMint(m))
<1>1. OfMint(m)' = [t \in TokenAccounts |-> IF Mint[t] = m THEN tokens'[t] ELSE 0]
  BY DEF OfMint
<1>2. ASSUME NEW t \in TokenAccounts
      PROVE  tokens'[t] = tokens[t] + CreditedTo(pays, to, t)
                          - IF t = source THEN Total(pays) ELSE 0
  BY DEF Transferred
<1>3. ASSUME NEW t \in TokenAccounts, Mint[t] # mint
      PROVE  CreditedTo(pays, to, t) = 0 /\ t # source
  <2>1. \A j \in 1..Len(to) : to[j] # t
    BY <1>3
  <2>2. Len(to) \in Nat
    BY DEF PayoutsTo
  <2> QED
    BY <1>3, <2>1, <2>2, NotCredited
<1>4. CASE m = mint
  <2>1. PICK f : f = OfMint(m)
    OBVIOUS
  <2>2. f \in [TokenAccounts -> Int]
    BY <2>1 DEF OfMint
  <2>3. OfMint(m)' = Transferred(f, pays, to, source)
    <3>1. ASSUME NEW t \in TokenAccounts
          PROVE  (IF Mint[t] = m THEN tokens'[t] ELSE 0)
                   = f[t] + CreditedTo(pays, to, t) - IF t = source THEN Total(pays) ELSE 0
      <4>1. CASE Mint[t] = m
        BY <1>2, <2>1, <4>1 DEF OfMint
      <4>2. CASE Mint[t] # m
        <5>1. f[t] = 0 /\ CreditedTo(pays, to, t) = 0 /\ t # source
          BY <1>3, <1>4, <2>1, <4>2 DEF OfMint
        <5> QED
          BY <4>2, <5>1
      <4> QED
        BY <4>1, <4>2
    <3>2. DOMAIN f = TokenAccounts
      BY <2>2
    <3> QED
      BY <1>1, <3>1, <3>2 DEF Transferred
  <2> QED
    BY <2>1, <2>2, <2>3, FiniteTokenAccounts, TransferredKeepsSum
<1>5. CASE m # mint
  <2>1. ASSUME NEW t \in TokenAccounts, Mint[t] = m
        PROVE  tokens'[t] = tokens[t]
    <3>1. CreditedTo(pays, to, t) = 0 /\ t # source /\ tokens[t] \in Nat
      BY <1>3, <1>5, <2>1
    <3> QED
      BY <1>2, <3>1
  <2>2. OfMint(m)' = OfMint(m)
    BY <1>1, <2>1 DEF OfMint
  <2> QED
    BY <2>2
<1> QED
  BY <1>4, <1>5

\* The sums after a step are the sums before.
SumsKept ==
  /\ SumOf(lamports') = SumOf(lamports)
  /\ \A m \in Mints : SumOf(OfMint(m)') = SumOf(OfMint(m))

\* The token program's accounts are the token accounts.
TokenOwned == \A a \in Addresses : owner[a] = "token" => a \in TokenAccounts

LEMMA TokensUnchanged ==
  ASSUME tokens' = tokens
  PROVE  \A m \in Mints : SumOf(OfMint(m)') = SumOf(OfMint(m))
  BY DEF OfMint

LEMMA CreateNamespaceKeepsSums ==
  ASSUME IInv, NEW S \in SUBSET Keys,
         NEW payer \in Keys, NEW creator \in Creators, NEW id \in NamespaceIds,
         NEW k \in AuthorityArgs,
         CreateNamespace(S, payer, creator, id, k)
  PROVE  SumsKept
<1>1. PICK n \in NamespaceAddrs : n = NamespaceAddr(creator, id)
  BY DerivedAddresses
<1>2. n \in Addresses /\ payer \in Addresses /\ payer # n
  BY <1>1, DerivedAddresses
<1>3. lamports' = ToppedUp(lamports, payer, n, NamespaceRent) /\ tokens' = tokens
  BY <1>1 DEF CreateNamespace
<1>4. lamports \in [Addresses -> Nat] /\ NamespaceRent \in Nat
  BY InputAssumption DEF IInv, TypeOK
<1> QED
  BY <1>2, <1>3, <1>4, FiniteAssumption, ToppedUpKeepsSum, TokensUnchanged DEF SumsKept

LEMMA SettleNKeepsSums ==
  ASSUME IInv, NEW S \in SUBSET Keys,
         NEW payer \in Keys, NEW k \in Keys, NEW n \in NamespaceAddrs \cup Impostors,
         NEW to \in RecipientVectors, NEW e \in Events, NEW amount \in Amounts,
         NEW bps \in BpsVectors,
         SettleN(S, payer, k, n, to, e, amount, bps)
  PROVE  SumsKept
<1>1. /\ SettleOk(owner, data, lamports, S, payer, k, n, to, e, amount, bps)
      /\ lamports' = Settled(lamports, payer, n, to, e, amount, bps)
      /\ tokens' = tokens
  BY DEF SettleN
<1>2. lamports \in [Addresses -> Nat]
  BY DEF IInv, TypeOK
<1> QED
  BY <1>1, <1>2, SettledKeepsSum, TokensUnchanged DEF SumsKept

LEMMA SettleTokenNKeepsSums ==
  ASSUME IInv, TokenOwned, NEW S \in SUBSET Keys,
         NEW payer \in Keys, NEW k \in Keys, NEW n \in NamespaceAddrs \cup Impostors,
         NEW source \in TokenAccounts, NEW mint \in Mints,
         NEW to \in RecipientVectors, NEW e \in Events, NEW amount \in Amounts,
         NEW decimals \in DecimalsArgs, NEW bps \in BpsVectors,
         SettleTokenN(S, payer, k, n, source, mint, to, e, amount, decimals, bps)
  PROVE  SumsKept
<1>1. PICK r \in Addresses : r = RecordAddr(n, e) /\ payer \in Addresses /\ payer # r
  BY DerivedAddresses
<1>2. PICK pays : pays = Payouts(amount, bps)
  OBVIOUS
<1>3. /\ SplitVerdict(amount, bps) = "ok" /\ Len(to) = Len(bps)
      /\ lamports' = ToppedUp(lamports, payer, r, RecordRent)
      /\ tokens' = Transferred(tokens, pays, to, source)
      /\ Mint[source] = mint
      /\ \A j \in 1..Len(to) : owner[to[j]] = "token" /\ Mint[to[j]] = mint
  BY <1>1, <1>2 DEF SettleTokenN, TokenAccountsOk
<1>4. /\ lamports \in [Addresses -> Nat] /\ tokens \in [TokenAccounts -> Nat]
      /\ RecordRent \in Nat /\ amount \in Nat /\ bps \in Seq(Nat) /\ to \in Seq(Addresses)
  BY InputAssumption DEF IInv, TypeOK
<1>5. Len(to) \in Nat /\ \A j \in 1..Len(to) : to[j] \in TokenAccounts
  <2>1. Len(to) \in Nat
    BY <1>4
  <2>2. ASSUME NEW j \in 1..Len(to) PROVE to[j] \in TokenAccounts
    <3>1. to[j] \in Addresses
      BY <1>4
    <3>2. owner[to[j]] = "token"
      BY <1>3
    <3> QED
      BY <3>1, <3>2, Zenon DEF TokenOwned
  <2> QED
    BY <2>1, <2>2
<1>6. PayoutsTo(TokenAccounts, pays, to)
  BY <1>2, <1>3, <1>4, <1>5, PayoutsWellFormed DEF PayoutsTo
<1>7. SumOf(lamports') = SumOf(lamports)
  BY <1>1, <1>3, <1>4, FiniteAssumption, ToppedUpKeepsSum
<1>8. \A m \in Mints : SumOf(OfMint(m)') = SumOf(OfMint(m))
  BY <1>3, <1>4, <1>6, TokenPayoutsKeepSums
<1> QED
  BY <1>7, <1>8 DEF SumsKept

LEMMA FirstSettlementKeepsSums ==
  ASSUME IInv, NEW S \in SUBSET Keys,
         NEW payer \in Keys, NEW creator \in Creators, NEW id \in NamespaceIds, NEW k \in Keys,
         NEW to \in RecipientVectors, NEW e \in Events, NEW amount \in Amounts,
         NEW bps \in BpsVectors,
         FirstSettlement(S, payer, creator, id, k, to, e, amount, bps)
  PROVE  SumsKept
<1>1. PICK n \in NamespaceAddrs : n = NamespaceAddr(creator, id)
  BY DerivedAddresses
<1>2. n \in Addresses /\ payer \in Addresses /\ payer # n
  BY <1>1, DerivedAddresses
<1>3. PICK l : l = ToppedUp(lamports, payer, n, NamespaceRent)
  OBVIOUS
<1>4. PICK o, d :
        /\ SettleOk(o, d, l, S, payer, k, n, to, e, amount, bps)
        /\ lamports' = Settled(l, payer, n, to, e, amount, bps)
        /\ tokens' = tokens
  BY <1>1, <1>3 DEF FirstSettlement
<1>5. lamports[payer] >= Shortfall(lamports, n, NamespaceRent)
  BY <1>1 DEF FirstSettlement, CreateNamespaceOk, Creatable
<1>6. lamports \in [Addresses -> Nat] /\ NamespaceRent \in Nat
  BY InputAssumption DEF IInv, TypeOK
<1>7. l \in [Addresses -> Nat]
  BY <1>2, <1>3, <1>5, <1>6, ToppedUpFacts
<1>8. SumOf(l) = SumOf(lamports)
  BY <1>2, <1>3, <1>6, FiniteAssumption, ToppedUpKeepsSum
<1>9. SumOf(lamports') = SumOf(l)
  BY <1>4, <1>7, SettledKeepsSum
<1> QED
  BY <1>4, <1>8, <1>9, TokensUnchanged DEF SumsKept

LEMMA DepositKeepsSums ==
  ASSUME IInv, NEW S \in SUBSET Keys,
         NEW from \in Keys, NEW to \in DepositTargets, NEW amount \in Deposits,
         Deposit(S, from, to, amount)
  PROVE  SumsKept
<1>1. /\ from # to /\ tokens' = tokens
      /\ lamports' = [lamports EXCEPT ![from] = @ - amount, ![to] = @ + amount]
  BY DEF Deposit
<1>2. /\ lamports \in [Addresses -> Nat] /\ amount \in Nat
      /\ from \in Addresses /\ to \in Addresses
  BY InputAssumption, DerivedAddresses DEF IInv, TypeOK
<1>3. lamports \in [Addresses -> Int] /\ amount \in Int
  BY <1>2
<1>4. lamports' = Moved(Addresses, lamports, from, to, amount)
  <2>1. ASSUME NEW b \in Addresses
        PROVE  lamports'[b] = lamports[b] + (IF b = from THEN -amount ELSE 0)
                              + (IF b = to THEN amount ELSE 0)
    <3>1. lamports[b] \in Nat
      BY <1>2
    <3>2. CASE b = from
      BY <1>1, <1>2, <3>1, <3>2
    <3>3. CASE b = to
      BY <1>1, <1>2, <3>1, <3>3
    <3>4. CASE b # from /\ b # to
      BY <1>1, <1>2, <3>1, <3>4
    <3> QED
      BY <3>2, <3>3, <3>4
  <2>2. lamports' = [b \in Addresses |-> lamports'[b]]
    BY <1>1, <1>2
  <2> QED
    BY <2>1, <2>2 DEF Moved
<1>5. SumOf(lamports') = SumOf(lamports)
  BY <1>2, <1>3, <1>4, FiniteAssumption, MoveKeepsSum
<1> QED
  BY <1>1, <1>5, TokensUnchanged DEF SumsKept

\* No transaction changes a sum.
LEMMA NextKeepsSums ==
  ASSUME IInv, TokenOwned, Next
  PROVE  SumsKept
<1>1. PICK S \in SUBSET Keys :
     /\ signers' = S
     /\ \/ \E payer \in Keys, creator \in Creators, id \in NamespaceIds, k \in AuthorityArgs :
             CreateNamespace(S, payer, creator, id, k)
        \/ \E k \in Keys, n \in NamespaceAddrs \cup Impostors, new \in AuthorityArgs :
             SetNamespaceAuthority(S, k, n, new)
        \/ \E payer, k \in Keys, n \in NamespaceAddrs \cup Impostors,
              to \in RecipientVectors, e \in Events, amount \in Amounts, bps \in BpsVectors :
             SettleN(S, payer, k, n, to, e, amount, bps)
        \/ \E payer, k \in Keys, n \in NamespaceAddrs \cup Impostors, source \in TokenAccounts,
              mint \in Mints, to \in RecipientVectors, e \in Events, amount \in Amounts,
              decimals \in DecimalsArgs, bps \in BpsVectors :
             SettleTokenN(S, payer, k, n, source, mint, to, e, amount, decimals, bps)
        \/ \E payer \in Keys, creator \in Creators, id \in NamespaceIds, k \in Keys,
              to \in RecipientVectors, e \in Events, amount \in Amounts, bps \in BpsVectors :
             FirstSettlement(S, payer, creator, id, k, to, e, amount, bps)
        \/ \E from \in Keys, to \in DepositTargets, amount \in Deposits :
             Deposit(S, from, to, amount)
  BY DEF Next
<1>2. CASE \E payer \in Keys, creator \in Creators, id \in NamespaceIds, k \in AuthorityArgs :
             CreateNamespace(S, payer, creator, id, k)
  BY <1>2, CreateNamespaceKeepsSums
<1>3. CASE \E k \in Keys, n \in NamespaceAddrs \cup Impostors, new \in AuthorityArgs :
             SetNamespaceAuthority(S, k, n, new)
  <2>1. lamports' = lamports /\ tokens' = tokens
    BY <1>3 DEF SetNamespaceAuthority
  <2> QED
    BY <2>1, TokensUnchanged DEF SumsKept
<1>4. CASE \E payer, k \in Keys, n \in NamespaceAddrs \cup Impostors,
             to \in RecipientVectors, e \in Events, amount \in Amounts, bps \in BpsVectors :
             SettleN(S, payer, k, n, to, e, amount, bps)
  BY <1>4, SettleNKeepsSums
<1>5. CASE \E payer, k \in Keys, n \in NamespaceAddrs \cup Impostors, source \in TokenAccounts,
             mint \in Mints, to \in RecipientVectors, e \in Events, amount \in Amounts,
             decimals \in DecimalsArgs, bps \in BpsVectors :
             SettleTokenN(S, payer, k, n, source, mint, to, e, amount, decimals, bps)
  BY <1>5, SettleTokenNKeepsSums
<1>6. CASE \E payer \in Keys, creator \in Creators, id \in NamespaceIds, k \in Keys,
             to \in RecipientVectors, e \in Events, amount \in Amounts, bps \in BpsVectors :
             FirstSettlement(S, payer, creator, id, k, to, e, amount, bps)
  BY <1>6, FirstSettlementKeepsSums
<1>7. CASE \E from \in Keys, to \in DepositTargets, amount \in Deposits :
             Deposit(S, from, to, amount)
  BY <1>7, DepositKeepsSums
<1> QED
  BY <1>1, <1>2, <1>3, <1>4, <1>5, <1>6, <1>7

\* What there is, at the start and ever after.
AllThere ==
  /\ SumOf(lamports) = InitialLamports * Cardinality(Keys)
                       + NamespaceRent * Cardinality(Impostors \cup TokenAccounts)
  /\ \A m \in Mints :
       SumOf(OfMint(m)) = InitialTokens * Cardinality({t \in TokenAccounts : Mint[t] = m})

LEMMA InitAllThere == Init => AllThere /\ TokenOwned
<1> SUFFICES ASSUME Init PROVE AllThere /\ TokenOwned
  OBVIOUS
<1>1. PICK others : others = Impostors \cup TokenAccounts
  OBVIOUS
<1>2. /\ Keys \subseteq Addresses /\ others \subseteq Addresses /\ TokenAccounts \subseteq Addresses
      /\ Keys \cap others = {}
  BY <1>1, AddressAssumption DEF Addresses
<1>3. InitialLamports \in Nat /\ NamespaceRent \in Nat /\ InitialTokens \in Nat
  BY InputAssumption
<1>4. PICK f : f = [a \in Addresses |-> IF a \in Keys THEN InitialLamports ELSE 0]
  OBVIOUS
<1>5. PICK g : g = [a \in Addresses |-> IF a \in others THEN NamespaceRent ELSE 0]
  OBVIOUS
<1>6. f \in [Addresses -> Int] /\ g \in [Addresses -> Int]
  BY <1>3, <1>4, <1>5
<1>7. SumOf(f) = InitialLamports * Cardinality(Keys)
  BY <1>2, <1>3, <1>4, <1>6, FiniteAssumption, SumConstant
<1>8. SumOf(g) = NamespaceRent * Cardinality(others)
  BY <1>2, <1>3, <1>5, <1>6, FiniteAssumption, SumConstant
<1>9. lamports \in [Addresses -> Int] /\ \A a \in Addresses : lamports[a] = f[a] + g[a]
  BY <1>1, <1>2, <1>3, <1>4, <1>5 DEF Init
<1>10. SumOf(lamports) = SumOf(f) + SumOf(g)
  BY <1>6, <1>9, FiniteAssumption, SumAdds
<1>11. ASSUME NEW m \in Mints
       PROVE  SumOf(OfMint(m)) = InitialTokens * Cardinality({t \in TokenAccounts : Mint[t] = m})
  <2>1. PICK K \in SUBSET TokenAccounts : K = {t \in TokenAccounts : Mint[t] = m}
    OBVIOUS
  <2>2. PICK h : h = OfMint(m)
    OBVIOUS
  <2>3. /\ h \in [TokenAccounts -> Int]
        /\ \A t \in TokenAccounts : h[t] = IF t \in K THEN InitialTokens ELSE 0
    BY <1>3, <2>1, <2>2 DEF Init, OfMint
  <2>4. InitialTokens \in Int
    BY <1>3
  <2> QED
    BY <2>1, <2>2, <2>3, <2>4, FiniteTokenAccounts, SumConstant
<1>12. TokenOwned
  BY DEF Init, TokenOwned
<1> QED
  BY <1>1, <1>7, <1>8, <1>10, <1>11, <1>12 DEF AllThere

\* Only the token program makes accounts of its own.
LEMMA TokenOwnedStays ==
  ASSUME IInv, TokenOwned, [Next]_vars
  PROVE  TokenOwned'
<1>1. OthersKept
  BY NextKeepsOthers DEF OthersKept, vars
<1>2. ASSUME NEW a \in Addresses, owner[a] = "program" PROVE owner'[a] = "program"
  BY <1>2, NextFacts DEF StepFacts, Kept, vars
<1> QED
  BY <1>1, <1>2 DEF TokenOwned, OthersKept

LEMMA AllThereConserved ==
  ASSUME AllThere
  PROVE  Conserved
<1>1. IsFiniteSet(Keys) /\ IsFiniteSet(Impostors \cup TokenAccounts)
  <2>1. Keys \subseteq Addresses /\ Impostors \cup TokenAccounts \subseteq Addresses
    BY DEF Addresses
  <2> QED
    BY <2>1, FiniteAssumption, FS_Subset
<1>2. /\ SumOver([k \in Keys |-> 1]) = Cardinality(Keys)
      /\ SumOver([a \in Impostors \cup TokenAccounts |-> 1])
           = Cardinality(Impostors \cup TokenAccounts)
  BY <1>1, OnesAddUp
<1>3. ASSUME NEW m \in Mints
      PROVE  SumOver([t \in TokenAccounts |-> IF Mint[t] = m THEN tokens[t] ELSE 0])
               = InitialTokens * SumOver([t \in {u \in TokenAccounts : Mint[u] = m} |-> 1])
  <2>1. PICK K : K = {u \in TokenAccounts : Mint[u] = m}
    OBVIOUS
  <2>2. IsFiniteSet(K)
    BY <2>1, FiniteTokenAccounts, FS_Subset
  <2>3. SumOver([t \in K |-> 1]) = Cardinality(K)
    BY <2>2, OnesAddUp
  <2>4. SumOf(OfMint(m)) = InitialTokens * Cardinality(K)
    BY <2>1 DEF AllThere
  <2>5. SumOver(OfMint(m)) = SumOf(OfMint(m))
    BY SumOverIsSum
  <2> QED
    BY <2>1, <2>3, <2>4, <2>5 DEF OfMint
<1>4. SumOver(lamports) = SumOf(lamports)
  BY SumOverIsSum
<1> QED
  BY <1>2, <1>3, <1>4 DEF Conserved, AllThere

\* Transactions make no lamports and no tokens and lose none, whoever is paid and
\* however often: also a recipient named twice, or the payer itself.
THEOREM NothingMadeNothingLost == Spec => []Conserved
<1>1. Init => IInv /\ TokenOwned /\ AllThere
  BY InitIInv, InitAllThere
<1>2. IInv /\ TokenOwned /\ AllThere /\ [Next]_vars => (IInv /\ TokenOwned /\ AllThere)'
  <2> SUFFICES ASSUME IInv, TokenOwned, AllThere, [Next]_vars
               PROVE  (IInv /\ TokenOwned /\ AllThere)'
    OBVIOUS
  <2>1. IInv'
    BY NextFacts, FactsPreserve, StutterIInv
  <2>2. TokenOwned'
    BY TokenOwnedStays
  <2>3. SumsKept
    <3>1. CASE Next
      BY <3>1, NextKeepsSums
    <3>2. CASE UNCHANGED vars
      BY <3>2, TokensUnchanged DEF vars, SumsKept
    <3> QED
      BY <3>1, <3>2
  <2>4. AllThere'
    BY <2>3 DEF AllThere, SumsKept
  <2> QED
    BY <2>1, <2>2, <2>4
<1>3. IInv /\ TokenOwned /\ AllThere => Conserved
  BY AllThereConserved
<1> QED
  BY <1>1, <1>2, <1>3, PTL DEF Spec
====
