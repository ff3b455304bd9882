---------------------------- MODULE MCSubmission ----------------------------
(***************************************************************************)
(* Two callers with one wallet, four parts in a whole.  Either one of them *)
(* asks for everything plain JavaScript can pass, and another wallet's     *)
(* namespace is open to it; or both ask, for less.                         *)
(***************************************************************************)
EXTENDS Submission, TLC

CONSTANTS c1, c2, h1, h2, w, v, f, demo, e, bad

Share(to, bps) == [to |-> to, bps |-> bps]
Request(asset, amount, scale, shares) ==
  [event |-> e, asset |-> asset, amount |-> amount, scale |-> scale, shares |-> shares,
   memo |-> 2]

Plain == Request("SOL", 1, 3, <<Share(w, 2), Share(v, 0), Share(v, 2)>>)
Changed == [Plain EXCEPT !.shares = <<Share(v, 1), Share(v, 3)>>]
Token == [Changed EXCEPT !.asset = "USDC"]
TokenToPayer == [Plain EXCEPT !.asset = "USDC"]
TokenToFrozen == [Token EXCEPT !.shares = <<Share(v, 1), Share(f, 3)>>]
TooMuch == [Plain EXCEPT !.scale = 5]
NoScale == [Plain EXCEPT !.scale = 0]
Unsplit == [Plain EXCEPT !.shares = <<Share(w, 1)>>]
LongToken == [Token EXCEPT !.memo = 5]
TokenToBad == [Token EXCEPT !.shares = <<Share(bad, 4)>>]
BadKey == [Plain EXCEPT !.shares = <<Share(bad, 4)>>]
NewEvent == [Plain EXCEPT !.event = None]

Options == [program : BOOLEAN, namespace : {None, <<w, demo>>, <<v, demo>>},
            authority : {None, v}, create : {None, demo}, accounts : {TRUE}]
Ours == [NoOptions EXCEPT !.program = TRUE, !.namespace = <<w, demo>>]
Theirs == [Ours EXCEPT !.namespace = <<v, demo>>]
First == [Ours EXCEPT !.create = demo]

Ask(flow, options, request) == [flow |-> flow, options |-> options, request |-> request]

WalletAsk == Ask("wallet", NoOptions, NewEvent)

OptionsAsks ==
  {Ask(flow, options, Plain) : flow \in {"submit", "submitN", "built"}, options \in Options}
    \cup {Ask("submitN", Theirs, r) : r \in {Changed, Token, TooMuch, NoScale, Unsplit, BadKey}}
    \cup {Ask("token", Theirs, r) : r \in {Plain, Token, TokenToPayer, TokenToFrozen, TokenToBad, LongToken}}
    \cup {Ask("token", [Theirs EXCEPT !.authority = v], TokenToFrozen)}
    \cup {Ask("token", [Theirs EXCEPT !.accounts = FALSE], Token)}

\* One of them uses the demo, and has the key too that the namespace may be handed to.
RaceAsks(demoed) ==
  {Ask("submitN", Ours, Changed)} \cup
  (IF demoed THEN {WalletAsk, Ask("submit", [Ours EXCEPT !.authority = v], Plain)}
   ELSE {Ask("built", First, Plain)})

MCPayer == [c \in Callers |-> w]
Alone(one) ==
  [opened |-> [n \in Namespaces |-> IF n = <<v, demo>> THEN w ELSE None],
   asks |-> [c \in Callers |-> IF c = one THEN OptionsAsks ELSE {}]]

Together(one) ==
  [opened |-> [n \in Namespaces |-> None], asks |-> [c \in Callers |-> RaceAsks(c = one)]]

MCScenarios == {Alone(c) : c \in Callers} \cup {Together(c) : c \in Callers}

Alike == Permutations({c1, c2}) \cup Permutations({h1, h2})
=============================================================================
