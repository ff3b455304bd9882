---------------------------- MODULE MCPaymentDemo ----------------------------
(***************************************************************************)
(* Two runs. Sessions that pay: amounts that are exactly what a check      *)
(* asks for, or what one run leaves the other. Sessions that only resolve  *)
(* recipients: every override of one direct wallet and of the pool's, and  *)
(* every state of the file.                                                *)
(***************************************************************************)
EXTENDS PaymentDemo

CONSTANTS r1, r2

Two(first, second) == [r \in Runs |-> IF r = r1 THEN first ELSE second]

OldWallets == [role \in Direct |-> <<"old", role>>]
OldWalletsAndPool == [role \in Roles |-> <<"old", role>>]

Session(kinds, modes, opened, rate, lamports) ==
  [kind |-> kinds, mode |-> modes, env |-> Two({}, {}), file |-> Stored(OldWalletsAndPool),
   opened |-> opened, rate |-> rate, lamports |-> lamports, tokens |-> 30000,
   cluster |-> "devnet"]

Both == Two("program", "program")
Alone == Two("program", "dry")

Paying ==
  {Session(Two("nway", "three"), Alone, FALSE, 6960, 22800000),
   Session(Two("nway", "three"), Alone, FALSE, 5080, 22000000),
   Session(Two("nway", "three"), Alone, TRUE, 6960, 22000000),
   Session(Two("token", "three"), Alone, FALSE, 6960, 12000000),
   Session(Two("nway", "three"), Both, TRUE, 5080, 42000000),
   Session(Two("token", "token"), Both, TRUE, 5080, 30000000),
   Session(Two("wallet", "three"), Both, FALSE, 5080, 22800000),
   Session(Two("wallet", "wallet"), Both, FALSE, 6960, 45000000),
   Session(Two("three", "three"), Two("system", "program"), TRUE, 6960, 44000000)}
  \cup
  {[Session(Two("nway", other), Both, TRUE, 5080, 45000000) EXCEPT !.cluster = "local"] :
     other \in {"token", "wallet"}}

Resolving ==
  {[Session(kinds, Two("dry", "dry"), FALSE, 5080, 0) EXCEPT !.env = Two(first, second), !.file = start] :
     kinds \in {Two(a, b) : a, b \in {"three", "nway"}},
     first, second \in SUBSET {"artist", "pool"},
     start \in {Absent, Torn, Stored(OldWallets), Stored(OldWalletsAndPool)}}

MCSettings == Paying \cup Resolving
=============================================================================
