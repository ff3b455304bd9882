------------------------ MODULE MCSettlementProgram ------------------------
(***************************************************************************)
(* Two wallets, a look-alike namespace owned by another program, and the   *)
(* recipient vectors that make the checks matter: two wallets, one wallet  *)
(* twice, the payer itself, a record address, a namespace address, a token *)
(* account.                                                                *)
(***************************************************************************)
EXTENDS SettlementProgram

CONSTANTS k1, k2, zero, id1, e1, e2, fake, t1, t2, t3, m1, m2

MCAuthorityArgs == {k1, k2, zero}

OneShare == <<10000>>
TwoShares == <<3333, 6667>>
MCBpsVectors == {OneShare, TwoShares}

Ns1 == NamespaceAddr(k1, id1)

MCDepositTargets == {k1, Ns1, RecordAddr(Ns1, e1)}

MCRecipients ==
  {<<k1>>, <<k1, k2>>, <<k2, k2>>,
   <<RecordAddr(Ns1, e1)>>, <<RecordAddr(Ns1, e2)>>, <<k2, Ns1>>,
   <<t2, t2>>, <<t2, t3>>}

MCClaims == [a \in Impostors |-> k1]

MCMint == [t \in TokenAccounts |-> IF t = t3 THEN m2 ELSE m1]
MCHolder == [t \in TokenAccounts |-> IF t = t1 THEN k1 ELSE k2]
MCDecimals == [m \in Mints |-> 6]
=============================================================================
