--------------------------- MODULE MCPayoutLedger ---------------------------
(***************************************************************************)
(* Four parts in a whole. The requests have a share of nothing, a wallet   *)
(* twice, a beneficiary twice, the payer or the record's address among the *)
(* recipients, a pool, and labels that are duplicates, or become one role. *)
(***************************************************************************)
EXTENDS PayoutLedger

CONSTANTS e1, e2, n1, n2, a, b, p, x, y, rec

Share(label, recipient, bps, beneficiary) ==
  [label |-> label, recipient |-> recipient, bps |-> bps, beneficiary |-> beneficiary]

Request(amount, shares) == [asset |-> "SOL", amount |-> amount, shares |-> shares]

X == <<"id", x>>
Y == <<"id", y>>

WithPool == Request(5, <<Share("artist", a, 1, <<>>), Share("rewards_pool", b, 3, <<>>)>>)
Twice == Request(5, <<Share("artist", a, 1, X), Share("studio", a, 1, X),
                      Share("synxed", b, 2, <<>>)>>)
WithPayer == Request(3, <<Share("artist", a, 0, <<>>), Share("studio", p, 4, Y)>>)
ToRecord == Request(5, <<Share("artist", a, 1, <<>>), Share("studio", rec, 3, <<>>)>>)
InToken == [WithPool EXCEPT !.asset = "USDC"]
SameLabel == Request(3, <<Share("artist", a, 1, X), Share("artist", a, 3, X)>>)
TwoRoles == Request(3, <<Share("synxed", a, 2, X), Share("platform", b, 2, Y)>>)
OneRole == Request(3, <<Share("synxed", a, 2, X), Share("platform", b, 2, X)>>)

MCRequests == [e \in Events |-> IF e = e1 THEN {WithPool, Twice, WithPayer, ToRecord, InToken, SameLabel,
                                 TwoRoles, OneRole}
                                ELSE {Twice}]

OneRoleRequests == [e \in Events |-> {WithPool, OneRole}]

Named(e) == [event |-> e, exact |-> TRUE]

PlainFor(e) ==
  [namespace |-> n1, scale |-> 1, payer |-> p, prefund |-> 0, beside |-> "none",
   memos |-> <<Named(e)>>, mint |-> "mint", decimals |-> 6, associated |-> TRUE]

\* The first event may be settled in any way in the ledger's namespace, and plainly
\* in the other one; the second event is settled plainly.
Plain == PlainFor(e1)

OddMemos == {<<>>, <<Named(e2)>>, <<[event |-> e1, exact |-> FALSE]>>, <<Named(e1), Named(e1)>>}

MCLandings == [e \in Events |->
  IF e = e2 THEN {PlainFor(e)}
  ELSE {[Plain EXCEPT !.scale = scale, !.prefund = prefund, !.beside = beside] :
          scale \in {1, 2}, prefund \in 0..3, beside \in {"none", "create", "another"}}
         \cup {[Plain EXCEPT !.memos = memos] : memos \in OddMemos}
         \cup {[Plain EXCEPT !.mint = "other"], [Plain EXCEPT !.decimals = 9],
               [Plain EXCEPT !.associated = FALSE], [Plain EXCEPT !.namespace = n2]}]

PlainLandings == [e \in Events |-> {PlainFor(e)}]

MCAllocations ==
  {<<[to |-> X, amount |-> 1], [to |-> Y, amount |-> 3]>>,
   <<[to |-> X, amount |-> 2], [to |-> X, amount |-> 2]>>,
   <<[to |-> X, amount |-> 3]>>, <<[to |-> X, amount |-> 0], [to |-> Y, amount |-> 4]>>}
=============================================================================
