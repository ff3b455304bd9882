-------------------------- MODULE PaymentDemoProofs --------------------------
(***************************************************************************)
(* What the demos guarantee for any number of runs, in any session: what a *)
(* run says of its payment stays true, wallets are reused, and a run is    *)
(* refused only for a reason its funding check could not see.              *)
(***************************************************************************)
EXTENDS PaymentDemo, ArithmeticProofs, SequenceTheorems, TLAPS

-----------------------------------------------------------------------------
(* The invariant                                                           *)

Plain == {"cluster", "tokens", "look", "funds", "open", "settle", "read",
          "airdrop", "await", "recheck", "opening", "confirm"}

\* What may be left to do before the file of recipients was read, and afterwards.
Before == Plain \cup {"load"}
After == Plain \cup {"truncate", "write"}

IsRun(me) ==
  me = [todo |-> me.todo, seen |-> me.seen, wallets |-> me.wallets, checked |-> me.checked,
        opens |-> me.opens, elapsed |-> me.elapsed, left |-> me.left, heard |-> me.heard,
        result |-> me.result]

\* The wait after an answer that came at this time.
Delay(heard) == Smaller(Poll, Larger(0, Timeout - heard))

LoadsOnce(todo) ==
  \A i, j \in 1..Len(todo) : todo[i] = "load" /\ todo[j] = "load" => i = j

NotLoaded(me) ==
  /\ me.seen = Nothing /\ me.wallets = Nothing
  /\ me.todo = <<"delay">> \/ (me.todo \in Seq(Before) /\ LoadsOnce(me.todo))

Loaded(r, me) ==
  /\ me.wallets = Recipients(r, me.seen)
  /\ me.todo = <<"delay">> \/ me.todo \in Seq(After)

RunOk(r, me) ==
  /\ IsRun(me)
  /\ me.elapsed \in Nat /\ me.left \in Nat /\ me.heard \in Nat
  /\ me.result = "running" => me.todo # <<>>
  /\ me.result = "running" /\ me.todo = <<"delay">> =>
       me.elapsed + me.left = me.heard + Delay(me.heard)
  /\ NotLoaded(me) \/ Loaded(r, me)
  /\ me.result = "TX_NOT_FOUND" =>
       me.heard >= Timeout - Poll /\ me.elapsed = Larger(Timeout, me.heard)

RunsOk == /\ run = [r \in Runs |-> run[r]]
          /\ \A r \in Runs : RunOk(r, run[r])

Entries == {chain[k] : k \in 1..Tip}

ChainOk ==
  /\ chain \in Seq(Entries) /\ final \in Nat /\ final <= Tip
  /\ \A j, k \in 1..Tip : chain[j].tx = chain[k].tx => j = k

\* A run's verdict has its entry among the final ones.
VerdictOk(r) ==
  /\ run[r].result = "MATCH" => \E k \in Evidence(r) : chain[k].error = "ok"
  /\ run[r].result = "TX_FAILED" => \E k \in Evidence(r) : chain[k].error # "ok"

\* Where a wallet may come from: the file the session started with, or a run that did
\* not find the role in it.
Origin(role, wallet) == \E p \in Runs : BeganWithout(p, role) /\ run[p].wallets[role] = wallet

Rightful(role, wallet) ==
  IF role \in DOMAIN setting.file.wallets THEN wallet = setting.file.wallets[role]
  ELSE Origin(role, wallet)

\* Wallets that were, or are to be, in the file.
Holds(wallets) ==
  \A role \in Roles :
    /\ role \in DOMAIN setting.file.wallets => role \in DOMAIN wallets
    /\ role \in DOMAIN wallets => Rightful(role, wallets[role])

FileOk == file # Torn => Holds(file.wallets)
SeenOk == \A r \in Runs : run[r].wallets # Nothing => Holds(run[r].seen)

IInv == RunsOk /\ ChainOk /\ (\A r \in Runs : VerdictOk(r)) /\ FileOk /\ SeenOk

-----------------------------------------------------------------------------
(* What a step makes of its run                                            *)

LEMMA ProceedsIs ==
  ASSUME NEW me, IsRun(me), NEW todo, NEW n, n = Proceeds(me, todo)
  PROVE  /\ IsRun(n) /\ n.todo = todo /\ n.seen = me.seen /\ n.wallets = me.wallets
         /\ n.opens = me.opens /\ n.checked = me.checked
         /\ n.elapsed = me.elapsed /\ n.left = me.left /\ n.heard = me.heard
         /\ n.result = IF todo = <<>> THEN "done" ELSE me.result
BY DEF IsRun, Proceeds

LEMMA EndsIs ==
  ASSUME NEW me, IsRun(me), NEW result, NEW n, n = Ends(me, result)
  PROVE  /\ IsRun(n) /\ n.todo = <<>> /\ n.seen = me.seen /\ n.wallets = me.wallets
         /\ n.opens = me.opens
         /\ n.elapsed = me.elapsed /\ n.left = me.left /\ n.heard = me.heard
         /\ n.result = result
BY DEF IsRun, Ends

Steady(r, me) ==
  IsRun(me) /\ me.seen = run[r].seen /\ me.wallets = run[r].wallets

SameTimes(r, me) ==
  me.elapsed = run[r].elapsed /\ me.left = run[r].left /\ me.heard = run[r].heard

Follows(me) == me.result = IF me.todo = <<>> THEN "done" ELSE "running"

\* The run goes on with its script, at most with something put before the rest of it.
Leads == {<<>>, <<"airdrop", "await", "recheck">>, <<"opening">>, <<"confirm">>}

Continues(r, me) ==
  /\ Steady(r, me) /\ SameTimes(r, me) /\ Follows(me)
  /\ Head(run[r].todo) \notin {"load", "delay"}
  /\ me.todo = Tail(run[r].todo) \/ \E first \in Leads : me.todo = first \o Tail(run[r].todo)

Verdicts == {"MATCH", "TX_FAILED", "TX_NOT_FOUND"}

\* The run ends without a verdict about its payment.
Quits(r, me) ==
  /\ Steady(r, me) /\ me.todo = <<>> /\ me.result \notin Verdicts \cup {"running"}
  /\ me.elapsed \in Nat /\ me.left \in Nat /\ me.heard \in Nat

\* The run reads the file.
Reads(r, me) ==
  /\ IsRun(me) /\ SameTimes(r, me) /\ Follows(me)
  /\ Head(run[r].todo) = "load" /\ file # Torn
  /\ me.seen = file.wallets /\ me.wallets = Recipients(r, file.wallets)
  /\ \E writing \in {<<>>, <<"truncate", "write">>} : me.todo = writing \o Tail(run[r].todo)

\* Finalized evidence is there, or is not.
Finds(r, me) ==
  /\ Steady(r, me) /\ SameTimes(r, me) /\ me.todo = <<>> /\ me.opens = run[r].opens
  /\ \E k \in Evidence(r) :
       me.result = IF chain[k].error = "ok" THEN "MATCH" ELSE "TX_FAILED"

Misses(r, me) ==
  /\ Steady(r, me) /\ me.todo = <<"delay">> /\ me.result = "running"
  /\ me.elapsed = run[r].elapsed /\ me.heard = run[r].elapsed
  /\ me.left = Delay(run[r].elapsed)

Resumes(r, me) ==
  /\ Steady(r, me) /\ SameTimes(r, me)
  /\ Head(run[r].todo) = "delay" /\ run[r].left = 0
  /\ \/ me.todo = <<"read">> /\ me.result = "running"
     \/ me.todo = <<>> /\ me.result = "TX_NOT_FOUND" /\ ~(run[r].elapsed < Timeout)

Passing(r, me) ==
  /\ Steady(r, me) /\ me.todo = run[r].todo /\ me.result = "running"
  /\ me.elapsed = run[r].elapsed + 1 /\ me.heard = run[r].heard
  /\ me.left = Larger(0, run[r].left - 1)
  /\ Head(run[r].todo) = "read" \/ (Head(run[r].todo) = "delay" /\ run[r].left > 0)

LEMMA PassesOn ==
  ASSUME NEW r, IsRun(run[r]), run[r].result = "running",
         Head(run[r].todo) \notin {"load", "delay"}
  PROVE  /\ Continues(r, Passes(run[r]))
         /\ \A first \in Leads : Continues(r, Proceeds(run[r], first \o Tail(run[r].todo)))
<1>1. PICK me : me = Passes(run[r])
  OBVIOUS
<1>2. Continues(r, me)
  BY <1>1, ProceedsIs DEF Passes, Continues, Steady, SameTimes, Follows
<1>3. ASSUME NEW first \in Leads
      PROVE  Continues(r, Proceeds(run[r], first \o Tail(run[r].todo)))
  <2>1. PICK todo : todo = first \o Tail(run[r].todo)
    OBVIOUS
  <2>2. PICK n : n = Proceeds(run[r], todo)
    OBVIOUS
  <2>3. /\ Steady(r, n) /\ SameTimes(r, n) /\ Follows(n) /\ n.todo = todo
    BY <2>2, ProceedsIs DEF Steady, SameTimes, Follows
  <2>4. Continues(r, n)
    BY <1>3, <2>1, <2>3 DEF Continues
  <2> QED
    BY <2>1, <2>2, <2>4
<1> QED
  BY <1>1, <1>2, <1>3

LEMMA EndsQuits ==
  ASSUME NEW r, RunOk(r, run[r]), NEW result, result \notin Verdicts \cup {"running"}
  PROVE  Quits(r, Ends(run[r], result))
<1>1. PICK me : me = Ends(run[r], result)
  OBVIOUS
<1>2. IsRun(run[r]) /\ run[r].elapsed \in Nat /\ run[r].left \in Nat /\ run[r].heard \in Nat
  BY DEF RunOk
<1>3. Quits(r, me)
  BY <1>1, <1>2, EndsIs DEF Quits, Steady
<1> QED
  BY <1>1, <1>3


\* One of the ways a run goes on.
Moves(r, me) ==
  \/ Continues(r, me) \/ Quits(r, me) \/ Reads(r, me) \/ Finds(r, me)
  \/ Misses(r, me) \/ Resumes(r, me) \/ Passing(r, me)

StepsTo(r, me) ==
  /\ run' = [run EXCEPT ![r] = me] /\ run[r].result = "running"
  /\ UNCHANGED <<setting, chain, final>>
  /\ Moves(r, me)

NoVerdict(result) == result \notin Verdicts \cup {"running"}

LEMMA SimpleStep ==
  ASSUME NEW r \in Runs, RunOk(r, run[r]), NEW step,
         At(r, step), step \notin {"load", "delay"},
         UNCHANGED <<setting, chain, final>>,
         \/ Becomes(r, Passes(run[r]))
         \/ \E first \in Leads : Becomes(r, Proceeds(run[r], first \o Tail(run[r].todo)))
         \/ \E result : NoVerdict(result) /\ Becomes(r, Ends(run[r], result))
  PROVE  \E me : StepsTo(r, me)
<1>1. IsRun(run[r]) /\ run[r].result = "running" /\ Head(run[r].todo) \notin {"load", "delay"}
  BY DEF RunOk, At
<1>2. CASE Becomes(r, Passes(run[r]))
  BY <1>1, <1>2, PassesOn DEF StepsTo, Moves, Becomes
<1>3. ASSUME NEW first \in Leads, Becomes(r, Proceeds(run[r], first \o Tail(run[r].todo)))
      PROVE  \E me : StepsTo(r, me)
  BY <1>1, <1>3, PassesOn DEF StepsTo, Moves, Becomes
<1>4. ASSUME NEW result, NoVerdict(result), Becomes(r, Ends(run[r], result))
      PROVE  \E me : StepsTo(r, me)
  BY <1>1, <1>4, EndsQuits DEF StepsTo, Moves, Becomes, NoVerdict
<1> QED
  BY <1>2, <1>3, <1>4

LEMMA ErrorIs ==
  ASSUME NEW tx, NEW n
  PROVE  Error(tx, n) \in {"ok", "OPENED", "NAMESPACE", "TOKENS", "LAMPORTS"}
BY DEF Error

\* A run that notes something and passes on.
LEMMA NotingStep ==
  ASSUME NEW r \in Runs, RunOk(r, run[r]), NEW step, At(r, step), step \notin {"load", "delay"},
         UNCHANGED <<setting, chain, final>>,
         NEW n, n.todo = run[r].todo, n.result = "running", Steady(r, n), SameTimes(r, n),
         Becomes(r, Passes(n))
  PROVE  \E me : StepsTo(r, me)
<1>1. run[r].result = "running" /\ Head(run[r].todo) \notin {"load", "delay"}
  BY DEF At
<1>2. PICK todo : todo = Tail(run[r].todo)
  OBVIOUS
<1>3. PICK me : me = Proceeds(n, todo)
  OBVIOUS
<1>4. run' = [run EXCEPT ![r] = me]
  BY <1>2, <1>3 DEF Becomes, Passes
<1>5. Steady(r, me) /\ SameTimes(r, me) /\ Follows(me) /\ me.todo = todo
  <2>1. IsRun(n)
    BY DEF Steady
  <2> QED
    BY <1>3, <2>1, ProceedsIs DEF Steady, SameTimes, Follows
<1>6. Continues(r, me)
  BY <1>1, <1>2, <1>5 DEF Continues
<1> QED
  BY <1>1, <1>4, <1>6 DEF StepsTo, Moves

LEMMA FundedStep ==
  ASSUME NEW r \in Runs, RunOk(r, run[r]), NEW step, At(r, step), step \notin {"load", "delay"},
         UNCHANGED <<setting, chain, final>>,
         NEW balance, Becomes(r, Funded(r, balance))
  PROVE  \E me : StepsTo(r, me)
<1>1. PICK n : n = [run[r] EXCEPT !.checked = balance]
  OBVIOUS
<1>2. IsRun(run[r]) /\ run[r].result = "running"
  BY DEF RunOk, At
<1>3. n.todo = run[r].todo /\ n.result = "running" /\ Steady(r, n) /\ SameTimes(r, n)
  BY <1>1, <1>2 DEF IsRun, Steady, SameTimes
<1>4. Becomes(r, Passes(n))
  BY <1>1 DEF Funded
<1> QED
  BY <1>3, <1>4, NotingStep

LEMMA LookStep ==
  ASSUME NEW r \in Runs, RunOk(r, run[r]), Look(r)
  PROVE  \E me : StepsTo(r, me)
<1>1. PICK view \in Views : Becomes(r, Passes([run[r] EXCEPT !.opens = ~IsOpen(view)]))
  BY DEF Look
<1>2. PICK n : n = [run[r] EXCEPT !.opens = ~IsOpen(view)]
  OBVIOUS
<1>3. IsRun(run[r]) /\ run[r].result = "running" /\ At(r, "look")
  BY DEF RunOk, At, Look
<1>4. n.todo = run[r].todo /\ n.result = "running" /\ Steady(r, n) /\ SameTimes(r, n)
  BY <1>2, <1>3 DEF IsRun, Steady, SameTimes
<1>5. Becomes(r, Passes(n)) /\ UNCHANGED <<setting, chain, final>>
  BY <1>1, <1>2 DEF Look
<1> QED
  BY <1>3, <1>4, <1>5, NotingStep

LEMMA FundsSteps ==
  ASSUME NEW r \in Runs, RunOk(r, run[r]), Funds(r) \/ Recheck(r)
  PROVE  \E me : StepsTo(r, me)
<1>1. NoVerdict("SHORT") /\ <<"airdrop", "await", "recheck">> \in Leads
  BY DEF NoVerdict, Verdicts, Leads
<1>2. CASE Funds(r)
  <2>1. At(r, "funds") /\ UNCHANGED <<setting, chain, final>>
    BY <1>2 DEF Funds
  <2>2. PICK balance : \/ Becomes(r, Funded(r, balance)) \/ Becomes(r, Ends(run[r], "SHORT"))
                       \/ Becomes(r, Proceeds(run[r], <<"airdrop", "await", "recheck">> \o Tail(run[r].todo)))
    BY <1>2 DEF Funds
  <2> QED
    BY <1>1, <2>1, <2>2, SimpleStep, FundedStep
<1>3. CASE Recheck(r)
  <2>1. At(r, "recheck") /\ UNCHANGED <<setting, chain, final>>
    BY <1>3 DEF Recheck
  <2>2. PICK balance : Becomes(r, Funded(r, balance)) \/ Becomes(r, Ends(run[r], "SHORT"))
    BY <1>3 DEF Recheck
  <2> QED
    BY <1>1, <2>1, <2>2, SimpleStep, FundedStep
<1> QED
  BY <1>2, <1>3

\* The steps that pass on or give up.
LEMMA PlainSteps ==
  ASSUME NEW r \in Runs, RunOk(r, run[r]),
         \/ Truncate(r) \/ Write(r) \/ Airdrop(r) \/ Await(r) \/ Tokens(r) \/ Opening(r)
         \/ Cluster(r) \/ Confirm(r)
  PROVE  \E me : StepsTo(r, me)
<1>1. /\ NoVerdict("AIRDROP") /\ NoVerdict("NO_TOKENS") /\ NoVerdict("UNKNOWN")
      /\ NoVerdict("CLUSTER_MISMATCH") /\ NoVerdict("FAILED")
  BY DEF NoVerdict, Verdicts
<1>2. PICK step : At(r, step) /\ step \notin {"load", "delay"} /\ UNCHANGED <<setting, chain, final>>
  BY DEF Truncate, Write, Airdrop, Await, Tokens, Opening, Cluster, Confirm
<1>3. \/ Becomes(r, Passes(run[r]))
      \/ \E result : NoVerdict(result) /\ Becomes(r, Ends(run[r], result))
  <2>1. CASE Truncate(r) \/ Write(r)
    BY <2>1 DEF Truncate, Write
  <2>2. CASE Airdrop(r) \/ Await(r)
    BY <1>1, <2>2 DEF Airdrop, Await
  <2>3. CASE Tokens(r)
    BY <1>1, <2>3 DEF Tokens
  <2>4. CASE Opening(r) \/ Cluster(r)
    BY <1>1, <2>4 DEF Opening, Cluster
  <2>5. CASE Confirm(r)
    BY <1>1, <2>5 DEF Confirm
  <2> QED
    BY <2>1, <2>2, <2>3, <2>4, <2>5
<1> QED
  BY <1>2, <1>3, SimpleStep

LEMMA PayingSteps ==
  ASSUME NEW r \in Runs, RunOk(r, run[r]), Open(r) \/ Settle(r)
  PROVE  \E me : StepsTo(r, me)
<1>1. ASSUME NEW tx, NEW n, Error(tx, n) # "ok" PROVE NoVerdict(Error(tx, n))
  BY <1>1, ErrorIs DEF NoVerdict, Verdicts
<1>2. PICK step : At(r, step) /\ step \notin {"load", "delay"} /\ UNCHANGED <<setting, chain, final>>
  BY DEF Open, Settle
<1>3. CASE Open(r)
  <2>1. \/ Becomes(r, Passes(run[r]))
        \/ Becomes(r, Proceeds(run[r], <<"opening">> \o Tail(run[r].todo)))
        \/ \E node \in Views :
             /\ Error(Tx(r, "open"), node) # "ok"
             /\ Becomes(r, Ends(run[r], Error(Tx(r, "open"), node)))
    BY <1>3 DEF Open
  <2> QED
    BY <1>1, <1>2, <2>1, SimpleStep DEF Leads
<1>4. CASE Settle(r)
  <2>1. \/ \E node \in Views :
             /\ Error(Tx(r, "settle"), node) # "ok"
             /\ Becomes(r, Ends(run[r], Error(Tx(r, "settle"), node)))
        \/ \E first \in Leads : Becomes(r, Proceeds(run[r], first \o Tail(run[r].todo)))
    BY <1>4 DEF Settle, Leads
  <2> QED
    BY <1>1, <1>2, <2>1, SimpleStep
<1> QED
  BY <1>3, <1>4

LEMMA LoadStep ==
  ASSUME NEW r \in Runs, RunOk(r, run[r]), Load(r)
  PROVE  \E me : StepsTo(r, me)
<1>1. IsRun(run[r]) /\ run[r].result = "running" /\ Head(run[r].todo) = "load"
      /\ UNCHANGED <<setting, chain, final>>
  BY DEF RunOk, At, Load
<1>2. CASE file = Torn
  <2>1. Becomes(r, Ends(run[r], "PARSE"))
    BY <1>2 DEF Load
  <2>2. Quits(r, Ends(run[r], "PARSE"))
    BY EndsQuits DEF Verdicts
  <2> QED
    BY <1>1, <2>1, <2>2 DEF StepsTo, Moves, Becomes
<1>3. CASE file # Torn
  <2>1. PICK wallets : wallets = Recipients(r, file.wallets)
    OBVIOUS
  <2>2. PICK writing \in {<<>>, <<"truncate", "write">>} :
          writing = IF Generates(r, file.wallets) THEN <<"truncate", "write">> ELSE <<>>
    OBVIOUS
  <2>3. PICK todo : todo = writing \o Tail(run[r].todo)
    OBVIOUS
  <2>4. PICK n : n = [run[r] EXCEPT !.seen = file.wallets, !.wallets = wallets]
    OBVIOUS
  <2>5. PICK me : me = Proceeds(n, todo)
    OBVIOUS
  <2>6. run' = [run EXCEPT ![r] = me]
    BY <1>3, <2>1, <2>2, <2>3, <2>4, <2>5 DEF Load, Becomes
  <2>7. /\ IsRun(n) /\ n.seen = file.wallets /\ n.wallets = wallets /\ n.result = "running"
        /\ SameTimes(r, n)
    BY <1>1, <2>4 DEF IsRun, SameTimes
  <2>8. /\ IsRun(me) /\ SameTimes(r, me) /\ Follows(me) /\ me.todo = todo
        /\ me.seen = file.wallets /\ me.wallets = wallets
    BY <2>5, <2>7, ProceedsIs DEF SameTimes, Follows
  <2>9. Reads(r, me)
    BY <1>1, <1>3, <2>1, <2>3, <2>8 DEF Reads
  <2> QED
    BY <1>1, <2>6, <2>9 DEF StepsTo, Moves
<1> QED
  BY <1>2, <1>3

LEMMA ReadStep ==
  ASSUME NEW r \in Runs, RunOk(r, run[r]), Read(r)
  PROVE  \E me : StepsTo(r, me)
<1>1. IsRun(run[r]) /\ run[r].result = "running" /\ UNCHANGED <<setting, chain, final>>
  BY DEF RunOk, At, Read
<1>2. ASSUME NEW k \in Evidence(r),
             Becomes(r, Ends(run[r], IF chain[k].error = "ok" THEN "MATCH" ELSE "TX_FAILED"))
      PROVE  \E me : StepsTo(r, me)
  <2>1. PICK result : result = IF chain[k].error = "ok" THEN "MATCH" ELSE "TX_FAILED"
    OBVIOUS
  <2>2. PICK me : me = Ends(run[r], result)
    OBVIOUS
  <2>3. Steady(r, me) /\ SameTimes(r, me) /\ me.todo = <<>> /\ me.opens = run[r].opens
        /\ me.result = result
    BY <1>1, <2>2, EndsIs DEF Steady, SameTimes
  <2>4. Finds(r, me)
    BY <2>1, <2>3 DEF Finds
  <2>5. run' = [run EXCEPT ![r] = me]
    BY <1>2, <2>1, <2>2 DEF Becomes
  <2> QED
    BY <1>1, <2>4, <2>5 DEF StepsTo, Moves
<1>3. ASSUME Becomes(r, Proceeds([run[r] EXCEPT !.left = Delay(run[r].elapsed),
                                                !.heard = run[r].elapsed], <<"delay">>))
      PROVE  \E me : StepsTo(r, me)
  <2>1. PICK delay : delay = Delay(run[r].elapsed)
    OBVIOUS
  <2>2. PICK n : n = [run[r] EXCEPT !.left = delay, !.heard = run[r].elapsed]
    OBVIOUS
  <2>3. PICK todo : todo = <<"delay">>
    OBVIOUS
  <2>4. PICK me : me = Proceeds(n, todo)
    OBVIOUS
  <2>5. /\ IsRun(n) /\ n.seen = run[r].seen /\ n.wallets = run[r].wallets /\ n.result = "running"
        /\ n.elapsed = run[r].elapsed /\ n.heard = run[r].elapsed /\ n.left = delay
    BY <1>1, <2>2 DEF IsRun
  <2>6. todo # <<>>
    BY <2>3
  <2>7. Misses(r, me)
    BY <2>1, <2>3, <2>4, <2>5, <2>6, ProceedsIs DEF Misses, Steady
  <2>8. run' = [run EXCEPT ![r] = me]
    BY <1>3, <2>1, <2>2, <2>3, <2>4 DEF Becomes
  <2> QED
    BY <1>1, <2>7, <2>8 DEF StepsTo, Moves
<1> QED
  BY <1>2, <1>3 DEF Read, Delay

LEMMA ResumeStep ==
  ASSUME NEW r \in Runs, RunOk(r, run[r]), Resume(r)
  PROVE  \E me : StepsTo(r, me)
<1>1. /\ IsRun(run[r]) /\ run[r].result = "running" /\ UNCHANGED <<setting, chain, final>>
      /\ Head(run[r].todo) = "delay" /\ run[r].left = 0
  BY DEF RunOk, At, Resume
<1>2. CASE run[r].elapsed < Timeout
  <2>1. PICK todo : todo = <<"read">>
    OBVIOUS
  <2>2. PICK me : me = Proceeds(run[r], todo)
    OBVIOUS
  <2>3. todo # <<>>
    BY <2>1
  <2>4. Steady(r, me) /\ SameTimes(r, me) /\ me.todo = todo /\ me.result = "running"
    BY <1>1, <2>2, <2>3, ProceedsIs DEF Steady, SameTimes
  <2>5. Resumes(r, me)
    BY <1>1, <2>1, <2>4 DEF Resumes
  <2>6. run' = [run EXCEPT ![r] = me]
    BY <1>2, <2>1, <2>2 DEF Resume, Becomes
  <2> QED
    BY <1>1, <2>5, <2>6 DEF StepsTo, Moves
<1>3. CASE ~(run[r].elapsed < Timeout)
  <2>1. PICK me : me = Ends(run[r], "TX_NOT_FOUND")
    OBVIOUS
  <2>2. Steady(r, me) /\ SameTimes(r, me) /\ me.todo = <<>> /\ me.result = "TX_NOT_FOUND"
    BY <1>1, <2>1, EndsIs DEF Steady, SameTimes
  <2>3. Resumes(r, me)
    BY <1>1, <1>3, <2>2 DEF Resumes
  <2>4. run' = [run EXCEPT ![r] = me]
    BY <1>3, <2>1 DEF Resume, Becomes
  <2> QED
    BY <1>1, <2>3, <2>4 DEF StepsTo, Moves
<1> QED
  BY <1>2, <1>3

LEMMA TickStep ==
  ASSUME NEW r \in Runs, RunOk(r, run[r]), Tick(r)
  PROVE  \E me : StepsTo(r, me)
<1>1. /\ IsRun(run[r]) /\ run[r].result = "running" /\ UNCHANGED <<setting, chain, final>>
      /\ Head(run[r].todo) = "read" \/ (Head(run[r].todo) = "delay" /\ run[r].left > 0)
  BY DEF RunOk, At, Tick
<1>2. PICK left : left = Larger(0, run[r].left - 1)
  OBVIOUS
<1>3. PICK me : me = [run[r] EXCEPT !.elapsed = @ + 1, !.left = left]
  OBVIOUS
<1>4. Passing(r, me)
  BY <1>1, <1>2, <1>3 DEF Passing, Steady, IsRun
<1>5. run' = [run EXCEPT ![r] = me]
  BY <1>2, <1>3 DEF Tick, Becomes
<1> QED
  BY <1>1, <1>4, <1>5 DEF StepsTo, Moves

LEMMA StopStep ==
  ASSUME NEW r \in Runs, RunOk(r, run[r]), Stop(r)
  PROVE  \E me : StepsTo(r, me)
<1>1. IsRun(run[r]) /\ run[r].result = "running" /\ UNCHANGED <<setting, chain, final>>
  BY DEF RunOk, Stop
<1>2. PICK n : n = Ends(run[r], "stopped")
  OBVIOUS
<1>3. PICK me : me = [n EXCEPT !.checked = 0, !.elapsed = 0, !.left = 0, !.heard = 0]
  OBVIOUS
<1>4. IsRun(n) /\ n.todo = <<>> /\ n.seen = run[r].seen /\ n.wallets = run[r].wallets
      /\ n.result = "stopped"
  BY <1>1, <1>2, EndsIs
<1>5. /\ IsRun(me) /\ me.todo = <<>> /\ me.seen = run[r].seen /\ me.wallets = run[r].wallets
      /\ me.result = "stopped" /\ me.elapsed = 0 /\ me.left = 0 /\ me.heard = 0
  BY <1>3, <1>4 DEF IsRun
<1>6. Quits(r, me)
  BY <1>5 DEF Quits, Steady, Verdicts
<1>7. run' = [run EXCEPT ![r] = me]
  BY <1>2, <1>3 DEF Stop, Becomes
<1> QED
  BY <1>1, <1>6, <1>7 DEF StepsTo, Moves

\* Every step of a run is one of the moves.
LEMMA EveryStep ==
  ASSUME NEW r \in Runs, RunOk(r, run[r]), Step(r) \/ Stop(r)
  PROVE  \E me : StepsTo(r, me)
<1>1. CASE Load(r) \/ Look(r) \/ Read(r) \/ Resume(r) \/ Tick(r) \/ Stop(r)
  BY <1>1, LoadStep, LookStep, ReadStep, ResumeStep, TickStep, StopStep
<1>2. CASE Funds(r) \/ Recheck(r) \/ Open(r) \/ Settle(r)
  BY <1>2, FundsSteps, PayingSteps
<1>3. CASE \/ Truncate(r) \/ Write(r) \/ Airdrop(r) \/ Await(r) \/ Tokens(r) \/ Opening(r)
           \/ Cluster(r) \/ Confirm(r)
  BY <1>3, PlainSteps
<1> QED
  BY <1>1, <1>2, <1>3 DEF Step

-----------------------------------------------------------------------------
(* What is left to do                                                      *)

LEMMA SequenceOf ==
  ASSUME NEW S, NEW T, NEW s \in Seq(S), \A i \in 1..Len(s) : s[i] \in T
  PROVE  s \in Seq(T)
<1>1. Len(s) \in Nat /\ s \in [1..Len(s) -> S]
  BY LenProperties
<1>2. s \in [1..Len(s) -> T]
  BY <1>1
<1> QED
  BY <1>1, <1>2, SeqDef

LEMMA Rest ==
  ASSUME NEW S, NEW todo \in Seq(S), todo # <<>>, NEW first \in Seq(S)
  PROVE  /\ Tail(todo) \in Seq(S) /\ first \o Tail(todo) \in Seq(S)
         /\ Len(todo) \in Nat \ {0} /\ Len(Tail(todo)) = Len(todo) - 1
         /\ \A i \in 1..Len(Tail(todo)) : Tail(todo)[i] = todo[i + 1]
         /\ Head(todo) = todo[1] /\ Head(todo) \in S
<1>1. /\ Tail(todo) \in Seq(S) /\ Len(Tail(todo)) = Len(todo) - 1 /\ Head(todo) \in S
      /\ \A i \in 1..Len(Tail(todo)) : Tail(todo)[i] = todo[i + 1]
  BY HeadTailProperties
<1>2. first \o Tail(todo) \in Seq(S)
  BY <1>1, ConcatProperties
<1>3. Len(todo) \in Nat \ {0} /\ Head(todo) = todo[1]
  BY EmptySeq
<1> QED
  BY <1>1, <1>2, <1>3

LEMMA LoadsOnceRest ==
  ASSUME NEW todo \in Seq(Before), todo # <<>>, LoadsOnce(todo), NEW first \in Seq(Plain)
  PROVE  LoadsOnce(Tail(todo)) /\ LoadsOnce(first \o Tail(todo))
<1>1. first \in Seq(Before)
  BY SeqMonotonic DEF Before
<1>2. PICK rest : rest = Tail(todo)
  OBVIOUS
<1>3. /\ rest \in Seq(Before) /\ Len(todo) \in Nat \ {0} /\ Len(rest) = Len(todo) - 1
      /\ \A i \in 1..Len(rest) : rest[i] = todo[i + 1]
  BY <1>1, <1>2, Rest
<1>4. ASSUME NEW i \in 1..Len(rest), NEW j \in 1..Len(rest), rest[i] = "load", rest[j] = "load"
      PROVE  i = j
  <2>1. i + 1 \in 1..Len(todo) /\ j + 1 \in 1..Len(todo) /\ i \in Int /\ j \in Int
    BY <1>3
  <2>2. todo[i + 1] = "load" /\ todo[j + 1] = "load"
    BY <1>3, <1>4
  <2>3. i + 1 = j + 1
    BY <2>1, <2>2, Zenon DEF LoadsOnce
  <2> QED
    BY <2>1, <2>3
<1>5. PICK all : all = first \o rest
  OBVIOUS
<1>6. /\ Len(first) \in Nat /\ Len(rest) \in Nat /\ Len(all) = Len(first) + Len(rest)
      /\ \A i \in 1..Len(first) + Len(rest) :
           all[i] = IF i <= Len(first) THEN first[i] ELSE rest[i - Len(first)]
  BY <1>1, <1>3, <1>5, ConcatProperties, LenProperties
<1>7. ASSUME NEW i \in 1..Len(all), all[i] = "load"
      PROVE  i - Len(first) \in 1..Len(rest) /\ rest[i - Len(first)] = "load"
  <2>1. ~(i <= Len(first))
    <3>1. SUFFICES ASSUME i <= Len(first) PROVE FALSE
      OBVIOUS
    <3>2. i \in 1..Len(first) /\ first[i] = "load"
      BY <1>6, <1>7, <3>1
    <3>3. first[i] \in Plain
      BY <3>2, ElementOfSeq
    <3> QED
      BY <3>2, <3>3 DEF Plain
  <2> QED
    BY <1>6, <1>7, <2>1
<1>8. ASSUME NEW i \in 1..Len(all), NEW j \in 1..Len(all), all[i] = "load", all[j] = "load"
      PROVE  i = j
  <2>1. i - Len(first) = j - Len(first)
    BY <1>4, <1>7, <1>8
  <2> QED
    BY <1>6, <2>1
<1> QED
  BY <1>2, <1>4, <1>5, <1>8 DEF LoadsOnce

LEMMA AfterLoad ==
  ASSUME NEW todo \in Seq(Before), todo # <<>>, LoadsOnce(todo), Head(todo) = "load"
  PROVE  Tail(todo) \in Seq(Plain)
<1>1. PICK rest : rest = Tail(todo)
  OBVIOUS
<1>2. <<>> \in Seq(Before)
  BY EmptySeq
<1>3. /\ rest \in Seq(Before) /\ Len(todo) \in Nat \ {0} /\ Len(rest) = Len(todo) - 1
      /\ \A i \in 1..Len(rest) : rest[i] = todo[i + 1]
      /\ Head(todo) = todo[1]
  BY <1>1, <1>2, Rest
<1>4. ASSUME NEW i \in 1..Len(rest) PROVE rest[i] \in Plain
  <2>1. rest[i] \in Before /\ i \in Int /\ i >= 1
    BY <1>3, ElementOfSeq
  <2>2. 1 \in 1..Len(todo) /\ i + 1 \in 1..Len(todo) /\ rest[i] = todo[i + 1] /\ i + 1 # 1
    BY <1>3
  <2>3. rest[i] # "load"
    BY <1>3, <2>2, Zenon DEF LoadsOnce
  <2> QED
    BY <2>1, <2>3 DEF Before
<1> QED
  BY <1>1, <1>3, <1>4, SequenceOf

LEMMA FirstPlain ==
  ASSUME NEW first \in Leads
  PROVE  first \in Seq(Plain) /\ first \in Seq(Before) /\ first \in Seq(After)
<1>1. "airdrop" \in Plain /\ "await" \in Plain /\ "recheck" \in Plain
      /\ "opening" \in Plain /\ "confirm" \in Plain
  BY DEF Plain
<1>2. first \in Seq(Plain)
  <2>1. CASE first = <<>>
    BY <2>1
  <2>2. CASE first = <<"airdrop", "await", "recheck">>
    BY <1>1, <2>2
  <2>3. CASE first = <<"opening">>
    BY <1>1, <2>3
  <2>4. CASE first = <<"confirm">>
    BY <1>1, <2>4
  <2> QED
    BY <2>1, <2>2, <2>3, <2>4 DEF Leads
<1> QED
  BY <1>2, SeqMonotonic DEF Before, After

-----------------------------------------------------------------------------
(* The runs                                                                *)

\* What is to be done next, and what a run may be waiting for.
LEMMA Ahead ==
  ASSUME NEW r \in Runs, RunOk(r, run[r]), run[r].result = "running"
  PROVE  /\ run[r].todo # <<>>
         /\ \/ Head(run[r].todo) = "delay" /\ run[r].todo = <<"delay">>
            \/ /\ Head(run[r].todo) # "delay"
               /\ \/ NotLoaded(run[r]) /\ run[r].todo \in Seq(Before) /\ LoadsOnce(run[r].todo)
                  \/ Loaded(r, run[r]) /\ run[r].todo \in Seq(After) /\ Head(run[r].todo) # "load"
<1>1. PICK todo : todo = run[r].todo
  OBVIOUS
<1>2. todo # <<>>
  BY <1>1 DEF RunOk
<1>3. CASE todo = <<"delay">>
  <2>1. Head(todo) = "delay"
    BY <1>3
  <2> QED
    BY <1>1, <1>2, <1>3, <2>1
<1>4. CASE todo \in Seq(Before) /\ NotLoaded(run[r]) /\ LoadsOnce(todo)
  <2>1. Head(todo) \in Before
    BY <1>2, <1>4, HeadTailProperties
  <2> QED
    BY <1>1, <1>2, <1>4, <2>1 DEF Before, Plain
<1>5. CASE todo \in Seq(After) /\ Loaded(r, run[r])
  <2>1. Head(todo) \in After
    BY <1>2, <1>5, HeadTailProperties
  <2> QED
    BY <1>1, <1>2, <1>5, <2>1 DEF After, Plain
<1> QED
  BY <1>1, <1>3, <1>4, <1>5 DEF RunOk, NotLoaded, Loaded

LEMMA ContinuesKeeps ==
  ASSUME NEW r \in Runs, RunOk(r, run[r]), run[r].result = "running", NEW me, Continues(r, me)
  PROVE  RunOk(r, me)
<1>1. PICK todo : todo = run[r].todo
  OBVIOUS
<1>2. PICK first \in Leads : me.todo = Tail(todo) \/ me.todo = first \o Tail(todo)
  BY <1>1 DEF Continues, Leads
<1>3. first \in Seq(Plain) /\ first \in Seq(Before) /\ first \in Seq(After)
  BY FirstPlain
<1>4. todo # <<>>
  BY <1>1, Ahead
<1>5. ASSUME NEW S, todo \in Seq(S), first \in Seq(S) PROVE me.todo \in Seq(S)
  BY <1>2, <1>4, <1>5, Rest
<1>6. NotLoaded(me) \/ Loaded(r, me)
  <2>1. CASE NotLoaded(run[r]) /\ todo \in Seq(Before) /\ LoadsOnce(todo)
    <3>1. me.todo \in Seq(Before)
      BY <1>3, <1>5, <2>1
    <3>2. LoadsOnce(me.todo)
      BY <1>1, <1>2, <1>3, <2>1, Ahead, LoadsOnceRest
    <3> QED
      BY <2>1, <3>1, <3>2 DEF NotLoaded, Continues, Steady
  <2>2. CASE Loaded(r, run[r]) /\ todo \in Seq(After)
    <3>1. me.todo \in Seq(After)
      BY <1>3, <1>5, <2>2
    <3> QED
      BY <2>2, <3>1 DEF Loaded, Continues, Steady
  <2> QED
    BY <1>1, <2>1, <2>2, Ahead DEF Continues
<1>7. me.todo # <<"delay">>
  <2>1. me.todo \in Seq(Before) \/ me.todo \in Seq(After)
    <3>1. todo \in Seq(Before) \/ todo \in Seq(After)
      BY <1>1, Ahead DEF Continues
    <3> QED
      BY <1>3, <1>5, <3>1
  <2>2. "delay" \notin Before /\ "delay" \notin After
    BY DEF Before, After, Plain
  <2>3. <<"delay">> \notin Seq(Before) /\ <<"delay">> \notin Seq(After)
    <3>1. PICK s : s = <<"delay">>
      OBVIOUS
    <3>2. 1 \in 1..Len(s) /\ s[1] = "delay"
      BY <3>1
    <3>3. s \notin Seq(Before) /\ s \notin Seq(After)
      BY <2>2, <3>2, ElementOfSeq
    <3> QED
      BY <3>1, <3>3
  <2> QED
    BY <2>1, <2>3
<1> QED
  BY <1>6, <1>7 DEF RunOk, Continues, Steady, SameTimes, Follows

LEMMA ReadsKeeps ==
  ASSUME NEW r \in Runs, RunOk(r, run[r]), run[r].result = "running", NEW me, Reads(r, me)
  PROVE  RunOk(r, me) /\ Loaded(r, me) /\ NotLoaded(run[r])
<1>1. PICK todo : todo = run[r].todo
  OBVIOUS
<1>2. PICK writing \in {<<>>, <<"truncate", "write">>} : me.todo = writing \o Tail(todo)
  BY <1>1 DEF Reads
<1>3. /\ todo # <<>> /\ todo \in Seq(Before) /\ LoadsOnce(todo) /\ Head(todo) = "load"
      /\ NotLoaded(run[r])
  BY <1>1, Ahead DEF Reads
<1>4. Tail(todo) \in Seq(After)
  <2>1. Tail(todo) \in Seq(Plain)
    BY <1>3, AfterLoad
  <2> QED
    BY <2>1, SeqMonotonic DEF After
<1>5. writing \in Seq(After)
  <2>1. "truncate" \in After /\ "write" \in After
    BY DEF After
  <2>2. CASE writing = <<>>
    BY <2>2
  <2>3. CASE writing = <<"truncate", "write">>
    BY <2>1, <2>3
  <2> QED
    BY <2>2, <2>3
<1>6. me.todo \in Seq(After)
  BY <1>2, <1>4, <1>5, ConcatProperties
<1>7. me.todo # <<"delay">>
  <2>1. PICK s : s = me.todo
    OBVIOUS
  <2>2. SUFFICES ASSUME s = <<"delay">> PROVE FALSE
    BY <2>1
  <2>3. 1 \in 1..Len(s) /\ s[1] = "delay"
    BY <2>2
  <2>4. s[1] \in After
    BY <1>6, <2>1, <2>3, ElementOfSeq
  <2> QED
    BY <2>3, <2>4 DEF After, Plain
<1>8. Loaded(r, me)
  BY <1>6 DEF Loaded, Reads
<1> QED
  BY <1>3, <1>7, <1>8 DEF RunOk, Reads, SameTimes, Follows

LEMMA EndsKeep ==
  ASSUME NEW r \in Runs, RunOk(r, run[r]), NEW me, Steady(r, me),
         me.todo = <<>> \/ me.todo = <<"delay">> \/ me.todo = <<"read">> \/ me.todo = run[r].todo
  PROVE  NotLoaded(me) \/ Loaded(r, me)
<1>1. <<>> \in Seq(Before) /\ <<>> \in Seq(After) /\ LoadsOnce(<<>>)
  BY DEF LoadsOnce
<1>2. PICK s : s = <<"read">>
  OBVIOUS
<1>3. s \in Seq(Before) /\ s \in Seq(After) /\ LoadsOnce(s)
  <2>1. "read" \in Before /\ "read" \in After
    BY DEF Before, After, Plain
  <2> QED
    BY <1>2, <2>1 DEF LoadsOnce
<1> QED
  BY <1>1, <1>2, <1>3 DEF RunOk, Steady, NotLoaded, Loaded

LEMMA MovesKeep ==
  ASSUME NEW r \in Runs, RunOk(r, run[r]), run[r].result = "running", NEW me, Moves(r, me)
  PROVE  RunOk(r, me)
<1>1. CASE Continues(r, me)
  BY <1>1, ContinuesKeeps
<1>2. CASE Reads(r, me)
  BY <1>2, ReadsKeeps
<1>3. CASE Quits(r, me)
  <2>1. NotLoaded(me) \/ Loaded(r, me)
    BY <1>3, EndsKeep DEF Quits
  <2> QED
    BY <1>3, <2>1 DEF RunOk, Quits, Steady, Verdicts
<1>4. CASE Finds(r, me)
  <2>1. NotLoaded(me) \/ Loaded(r, me)
    BY <1>4, EndsKeep DEF Finds
  <2> QED
    BY <1>4, <2>1 DEF RunOk, Finds, Steady, SameTimes
<1>5. CASE Misses(r, me)
  <2>1. NotLoaded(me) \/ Loaded(r, me)
    BY <1>5, EndsKeep DEF Misses
  <2>2. me.todo # <<>>
    BY <1>5 DEF Misses
  <2>3. Delay(run[r].elapsed) \in Nat /\ run[r].elapsed \in Nat
    BY DemoAssumption DEF Delay, Smaller, Larger, RunOk
  <2> QED
    BY <1>5, <2>1, <2>2, <2>3 DEF RunOk, Misses, Steady
<1>6. CASE Resumes(r, me)
  <2>1. NotLoaded(me) \/ Loaded(r, me)
    BY <1>6, EndsKeep DEF Resumes
  <2>2. run[r].todo = <<"delay">>
    BY <1>6, Ahead DEF Resumes
  <2>3. PICK elapsed \in Nat, heard \in Nat :
          /\ elapsed = run[r].elapsed /\ heard = run[r].heard
          /\ elapsed = heard + Delay(heard)
    BY <1>6, <2>2 DEF RunOk, Resumes
  <2>4. ~(elapsed < Timeout) => heard >= Timeout - Poll /\ elapsed = Larger(Timeout, heard)
    BY <2>3, DemoAssumption DEF Delay, Smaller, Larger
  <2>5. me.result = "running" => me.todo # <<>> /\ me.todo # <<"delay">>
    <3>1. PICK s, t, u : s = <<"read">> /\ t = <<"delay">> /\ u = <<>>
      OBVIOUS
    <3>2. s # t /\ s # u
      BY <3>1
    <3> QED
      BY <1>6, <3>1, <3>2 DEF Resumes
  <2> QED
    BY <1>6, <2>1, <2>3, <2>4, <2>5 DEF RunOk, Resumes, Steady, SameTimes
<1>7. CASE Passing(r, me)
  <2>1. NotLoaded(me) \/ Loaded(r, me)
    BY <1>7, EndsKeep DEF Passing
  <2>2. run[r].todo = <<"delay">> => Head(run[r].todo) = "delay"
    <3>1. PICK t : t = <<"delay">>
      OBVIOUS
    <3>2. Head(t) = "delay"
      BY <3>1
    <3> QED
      BY <3>1, <3>2
  <2>3. PICK elapsed \in Nat, left \in Nat, heard \in Nat :
          elapsed = run[r].elapsed /\ left = run[r].left /\ heard = run[r].heard
    BY DEF RunOk
  <2>4. Larger(0, left - 1) \in Nat /\ (left > 0 => Larger(0, left - 1) = left - 1)
    BY <2>3 DEF Larger
  <2>5. run[r].todo = <<"delay">> =>
          /\ left > 0 /\ elapsed + left = heard + Delay(heard)
    BY <1>7, <2>2, <2>3 DEF RunOk, Passing
  <2>6. me.elapsed + me.left = elapsed + left \/ run[r].todo # <<"delay">>
    BY <1>7, <2>3, <2>4, <2>5 DEF Passing
  <2>7. me.elapsed \in Nat /\ me.left \in Nat /\ me.heard = heard
    BY <1>7, <2>3, <2>4 DEF Passing
  <2> QED
    BY <1>7, <2>1, <2>3, <2>5, <2>6, <2>7 DEF RunOk, Passing, Steady
<1> QED
  BY <1>1, <1>2, <1>3, <1>4, <1>5, <1>6, <1>7 DEF Moves

LEMMA RunOkStays ==
  ASSUME setting' = setting, NEW r, NEW me, RunOk(r, me)
  PROVE  RunOk(r, me)'
<1>1. Recipients(r, me.seen)' = Recipients(r, me.seen)
  BY DEF Recipients, Wanted, Resolve, Overridden
<1>2. Loaded(r, me) => Loaded(r, me)'
  BY <1>1 DEF Loaded
<1>3. NotLoaded(me) => NotLoaded(me)'
  BY DEF NotLoaded, LoadsOnce
<1> QED
  BY <1>2, <1>3 DEF RunOk, Delay, IsRun

LEMMA RunsOkKept ==
  ASSUME RunsOk, NEW r \in Runs, NEW me, StepsTo(r, me)
  PROVE  RunsOk' /\ run'[r] = me /\ \A p \in Runs \ {r} : run'[p] = run[p]
<1>1. run' = [p \in Runs |-> IF p = r THEN me ELSE run[p]]
  BY DEF RunsOk, StepsTo
<1>2. run'[r] = me /\ \A p \in Runs \ {r} : run'[p] = run[p]
  BY <1>1
<1>3. run' = [p \in Runs |-> run'[p]]
  BY <1>1
<1>4. RunOk(r, me)
  BY MovesKeep DEF RunsOk, StepsTo
<1>5. ASSUME NEW p \in Runs, NEW you, you = run'[p] PROVE RunOk(p, you)'
  <2>1. RunOk(p, you)
    BY <1>2, <1>4, <1>5 DEF RunsOk
  <2> QED
    BY <2>1, RunOkStays DEF StepsTo
<1>6. ASSUME NEW p \in Runs PROVE RunOk(p, run[p])'
  BY <1>5
<1> QED
  BY <1>2, <1>3, <1>6 DEF RunsOk

LEMMA RunsOkStay ==
  ASSUME RunsOk, run' = run, setting' = setting
  PROVE  RunsOk'
<1>1. ASSUME NEW p \in Runs, NEW you, you = run'[p] PROVE RunOk(p, you)'
  BY <1>1, RunOkStays DEF RunsOk
<1> QED
  BY <1>1 DEF RunsOk

-----------------------------------------------------------------------------
(* The cluster                                                             *)

\* What is final stays.
ChainGrows ==
  /\ final' \in Nat /\ final <= final' /\ Tip' \in Nat /\ final <= Tip'
  /\ \A k \in 1..final : chain'[k] = chain[k]

LEMMA EntriesAre ==
  ASSUME NEW S, NEW s \in Seq(S)
  PROVE  s \in Seq({s[k] : k \in 1..Len(s)})
BY SequenceOf

LEMMA LandKeepsChain ==
  ASSUME ChainOk, NEW tx, Land(tx)
  PROVE  ChainOk' /\ ChainGrows
<1>1. PICK e : chain' = Append(chain, e) /\ e.tx = tx
  BY DEF Land
<1>2. PICK S : S = Entries \cup {e}
  OBVIOUS
<1>3. chain \in Seq(S) /\ e \in S
  BY <1>2, SeqMonotonic DEF ChainOk
<1>4. /\ chain' \in Seq(S) /\ Len(chain') = Len(chain) + 1 /\ Len(chain) \in Nat
      /\ \A k \in 1..Len(chain) : chain'[k] = chain[k]
      /\ chain'[Len(chain) + 1] = e
  BY <1>1, <1>3
<1>5. chain' \in Seq({chain'[k] : k \in 1..Len(chain')})
  BY <1>4, EntriesAre
<1>6. \A k \in 1..Len(chain) : chain[k].tx # tx
  BY DEF Land, EntriesOf, Tip
<1>7. final' = final
  BY DEF Land
<1>8. ASSUME NEW j \in 1..Len(chain'), NEW k \in 1..Len(chain'), chain'[j].tx = chain'[k].tx
      PROVE  j = k
  <2>1. CASE j \in 1..Len(chain) /\ k \in 1..Len(chain)
    BY <1>4, <1>8, <2>1 DEF ChainOk, Tip
  <2>2. CASE j = Len(chain) + 1 /\ k \in 1..Len(chain)
    BY <1>1, <1>4, <1>6, <1>8, <2>2
  <2>3. CASE k = Len(chain) + 1 /\ j \in 1..Len(chain)
    BY <1>1, <1>4, <1>6, <1>8, <2>3
  <2> QED
    BY <1>4, <2>1, <2>2, <2>3
<1> QED
  BY <1>4, <1>5, <1>7, <1>8 DEF ChainOk, ChainGrows, Entries, Tip

LEMMA ForkPrefix ==
  ASSUME ChainOk, Fork
  PROVE  /\ Tip' = Tip - 1 /\ Tip' \in Nat /\ \A k \in 1..Tip' : chain'[k] = chain[k]
         /\ chain' \in Seq(Entries)
<1>1. /\ final < Len(chain) /\ chain' = SubSeq(chain, 1, Len(chain) - 1) /\ final' = final
      /\ Len(chain) \in Nat /\ final \in Nat /\ chain \in Seq(Entries)
  BY LenProperties DEF Fork, Front, ChainOk, Tip
<1>2. /\ chain' \in Seq(Entries) /\ Len(chain') = Len(chain) - 1
      /\ \A k \in 1..Len(chain) - 1 : chain'[k] = chain[k]
  <2>1. PICK m \in Int, n \in Int : m = 1 /\ n = Len(chain) - 1 /\ n >= 0
    BY <1>1
  <2>2. \A k \in m..n : chain[k] \in Entries
    BY <1>1, <2>1, ElementOfSeq
  <2>3. /\ SubSeq(chain, m, n) \in Seq(Entries)
        /\ Len(SubSeq(chain, m, n)) = IF m <= n THEN n - m + 1 ELSE 0
        /\ \A i \in 1..n - m + 1 : SubSeq(chain, m, n)[i] = chain[m + i - 1]
    BY <2>2, SubSeqProperties
  <2>4. PICK s : s = SubSeq(chain, m, n)
    OBVIOUS
  <2>5. s \in Seq(Entries) /\ Len(s) = n
    BY <2>1, <2>3, <2>4
  <2>6. ASSUME NEW k \in 1..n PROVE s[k] = chain[k]
    <3>1. m + k - 1 = k /\ k \in 1..n - m + 1
      BY <2>1
    <3> QED
      BY <2>3, <2>4, <3>1
  <2>7. chain' = s
    BY <1>1, <2>1, <2>4
  <2> QED
    BY <2>1, <2>5, <2>6, <2>7
<1> QED
  BY <1>1, <1>2 DEF Tip

LEMMA ForkKeepsChain ==
  ASSUME ChainOk, Fork
  PROVE  ChainOk' /\ ChainGrows
<1>1. /\ final < Len(chain) /\ final' = final
      /\ Len(chain) \in Nat /\ final \in Nat /\ chain \in Seq(Entries)
  BY LenProperties DEF Fork, ChainOk, Tip
<1>2. /\ chain' \in Seq(Entries) /\ Len(chain') = Len(chain) - 1
      /\ \A k \in 1..Len(chain) - 1 : chain'[k] = chain[k]
  BY <1>1, ForkPrefix DEF Tip
<1>3. chain' \in Seq({chain'[k] : k \in 1..Len(chain')})
  BY <1>2, EntriesAre
<1>4. ASSUME NEW j \in 1..Len(chain'), NEW k \in 1..Len(chain'), chain'[j].tx = chain'[k].tx
      PROVE  j = k
  <2>1. j \in 1..Len(chain) /\ k \in 1..Len(chain) /\ chain[j].tx = chain[k].tx
    BY <1>1, <1>2, <1>4
  <2> QED
    BY <2>1 DEF ChainOk, Tip
<1>5. ChainOk'
  <2>1. final' \in Nat /\ final' <= Len(chain')
    BY <1>1, <1>2
  <2> QED
    BY <1>3, <1>4, <2>1 DEF ChainOk, Entries, Tip
<1>6. ChainGrows
  <2>1. Len(chain') \in Nat /\ final <= Len(chain')
    BY <1>1, <1>2
  <2>2. \A k \in 1..final : chain'[k] = chain[k]
    BY <1>1, <1>2
  <2> QED
    BY <1>1, <2>1, <2>2 DEF ChainGrows, Tip
<1> QED
  BY <1>5, <1>6

LEMMA ChainStays ==
  ASSUME ChainOk, chain' = chain, final' = final \/ Finalize
  PROVE  ChainOk' /\ ChainGrows
<1>1. final' \in Nat /\ final <= final' /\ final' <= Len(chain) /\ Len(chain) \in Nat
  BY LenProperties DEF ChainOk, Finalize, Tip
<1> QED
  BY <1>1 DEF ChainOk, ChainGrows, Entries, Tip

LEMMA EvidenceStays ==
  ASSUME ChainOk, ChainGrows, setting' = setting, NEW r,
         run'[r].opens = run[r].opens, run'[r].wallets = run[r].wallets, NEW k \in Evidence(r)
  PROVE  k \in Evidence(r)' /\ chain'[k] = chain[k]
<1>1. Tx(r, "settle")' = Tx(r, "settle")
  BY DEF Tx, Wanted
<1>2. k \in 1..Tip /\ k <= final /\ chain[k].tx = Tx(r, "settle")
  BY DEF Evidence, EntriesOf
<1>3. k \in 1..final /\ k \in Nat /\ final \in Nat
  BY <1>2 DEF ChainOk
<1>4. chain'[k] = chain[k]
  BY <1>3 DEF ChainGrows
<1>5. k \in 1..Tip' /\ k <= final'
  BY <1>3 DEF ChainGrows, ChainOk
<1> QED
  BY <1>1, <1>2, <1>4, <1>5 DEF Evidence, EntriesOf, ChainGrows

-----------------------------------------------------------------------------
(* The verdicts                                                            *)

LEMMA VerdictStays ==
  ASSUME ChainOk, ChainGrows, setting' = setting, NEW r, VerdictOk(r), run'[r] = run[r]
  PROVE  VerdictOk(r)'
<1>1. \A k \in Evidence(r) : k \in Evidence(r)' /\ chain'[k] = chain[k]
  BY EvidenceStays
<1> QED
  BY <1>1 DEF VerdictOk

LEMMA VerdictKept ==
  ASSUME RunsOk, ChainOk, ChainGrows, NEW r \in Runs, NEW me, StepsTo(r, me)
  PROVE  VerdictOk(r)'
<1>1. run'[r] = me /\ setting' = setting /\ run[r].result = "running"
  BY RunsOkKept DEF StepsTo
<1>2. CASE Finds(r, me)
  <2>1. PICK k \in Evidence(r) : me.result = IF chain[k].error = "ok" THEN "MATCH" ELSE "TX_FAILED"
    BY <1>2 DEF Finds
  <2>2. k \in Evidence(r)' /\ chain'[k] = chain[k]
    BY <1>1, <1>2, EvidenceStays DEF Finds, Steady
  <2> QED
    BY <1>1, <2>1, <2>2 DEF VerdictOk
<1>3. CASE ~Finds(r, me)
  <2>1. me.result # "MATCH" /\ me.result # "TX_FAILED"
    BY <1>1, <1>3 DEF StepsTo, Moves, Continues, Quits, Reads, Misses, Resumes, Passing, Follows,
                      Verdicts
  <2> QED
    BY <1>1, <2>1 DEF VerdictOk
<1> QED
  BY <1>2, <1>3

-----------------------------------------------------------------------------
(* The wallets                                                             *)

LEMMA WantedRoles ==
  ASSUME NEW r
  PROVE  Direct \subseteq Wanted(r) /\ Wanted(r) \subseteq Roles
BY DEF Wanted, Roles

LEMMA RecipientsOf ==
  ASSUME NEW r, NEW stored, NEW wallets, wallets = Recipients(r, stored)
  PROVE  /\ Direct \subseteq DOMAIN wallets /\ DOMAIN wallets \subseteq Roles
         /\ DOMAIN stored \cap {"pool"} \subseteq DOMAIN wallets
<1>1. DOMAIN wallets = Wanted(r) \cup (DOMAIN stored \cap {"pool"})
  BY DEF Recipients
<1>2. "pool" \in Roles
  BY DEF Roles
<1> QED
  BY <1>1, <1>2, WantedRoles

\* A role that the file has, and no override hides, gets what is in the file.
LEMMA RecipientStored ==
  ASSUME NEW r, NEW stored, NEW wallets, wallets = Recipients(r, stored),
         NEW role \in DOMAIN wallets, role \in DOMAIN stored, ~Overridden(r, role)
  PROVE  wallets[role] = stored[role]
<1>1. Resolve(r, stored, role) = stored[role]
  BY DEF Resolve
<1> QED
  BY <1>1 DEF Recipients

LEMMA NothingEmpty == DOMAIN Nothing = {}
BY DEF Nothing

LEMMA LoadedHasWallets ==
  ASSUME NEW r, NEW me, Loaded(r, me)
  PROVE  me.wallets # Nothing
<1>1. PICK wallets : wallets = me.wallets /\ wallets = Recipients(r, me.seen)
  BY DEF Loaded
<1>2. "artist" \in DOMAIN wallets
  BY <1>1, RecipientsOf DEF Direct
<1> QED
  BY <1>1, <1>2, NothingEmpty

\* Wallets once resolved stay as they are.
WalletsStay ==
  \A p \in Runs : run[p].wallets # Nothing =>
    run'[p].wallets = run[p].wallets /\ run'[p].seen = run[p].seen

LEMMA StepKeepsWallets ==
  ASSUME RunsOk, NEW r \in Runs, NEW me, StepsTo(r, me)
  PROVE  WalletsStay
<1>1. run'[r] = me /\ \A p \in Runs \ {r} : run'[p] = run[p]
  BY RunsOkKept
<1>2. ASSUME run[r].wallets # Nothing
      PROVE  me.wallets = run[r].wallets /\ me.seen = run[r].seen
  <2>1. ~Reads(r, me)
    BY <1>2, ReadsKeeps DEF NotLoaded, RunsOk, StepsTo
  <2> QED
    BY <2>1 DEF StepsTo, Moves, Continues, Quits, Finds, Misses, Resumes, Passing, Steady
<1> QED
  BY <1>1, <1>2 DEF WalletsStay

LEMMA HoldsStays ==
  ASSUME WalletsStay, setting' = setting, NEW wallets, Holds(wallets)
  PROVE  Holds(wallets)'
<1>1. ASSUME NEW role, NEW wallet, Origin(role, wallet) PROVE Origin(role, wallet)'
  <2>1. PICK p \in Runs : BeganWithout(p, role) /\ run[p].wallets[role] = wallet
    BY <1>1 DEF Origin
  <2>2. run[p].wallets # Nothing
    BY <2>1, NothingEmpty DEF BeganWithout
  <2>3. BeganWithout(p, role)' /\ run'[p].wallets[role] = wallet
    BY <2>1, <2>2 DEF WalletsStay, BeganWithout
  <2> QED
    BY <2>3 DEF Origin
<1>2. ASSUME NEW role, NEW wallet, Rightful(role, wallet) PROVE Rightful(role, wallet)'
  BY <1>1, <1>2 DEF Rightful
<1> QED
  BY <1>2 DEF Holds

\* A wallet that a run resolved, and that no override hides.
LEMMA ResolvedRightful ==
  ASSUME NEW r \in Runs, Loaded(r, run[r]), Holds(run[r].seen),
         NEW role \in DOMAIN run[r].wallets,
         ~Overridden(r, role) \/ role \notin DOMAIN run[r].seen
  PROVE  Rightful(role, run[r].wallets[role])
<1>1. PICK seen, wallets : /\ seen = run[r].seen /\ wallets = run[r].wallets
                           /\ wallets = Recipients(r, seen)
  BY DEF Loaded
<1>2. role \in Roles
  BY <1>1, RecipientsOf
<1>3. CASE role \in DOMAIN run[r].seen
  <2>1. wallets[role] = seen[role]
    BY <1>1, <1>3, RecipientStored
  <2> QED
    BY <1>1, <1>3, <1>2, <2>1 DEF Holds
<1>4. CASE role \notin DOMAIN run[r].seen
  <2>1. role \notin DOMAIN setting.file.wallets
    BY <1>4, <1>2 DEF Holds
  <2>2. Origin(role, run[r].wallets[role])
    BY <1>4 DEF Origin, BeganWithout
  <2> QED
    BY <2>1, <2>2 DEF Rightful
<1> QED
  BY <1>3, <1>4

\* What toStore writes.
LEMMA StoredHolds ==
  ASSUME NEW r \in Runs, Loaded(r, run[r]), Holds(run[r].seen)
  PROVE  Holds(ToStore(r, run[r].seen, run[r].wallets))
<1>1. PICK seen, wallets, kept :
        /\ seen = run[r].seen /\ wallets = run[r].wallets
        /\ kept = [role \in Roles |-> IF Overridden(r, role) THEN seen ELSE wallets]
  OBVIOUS
<1>2. PICK stored : stored = ToStore(r, seen, wallets)
  OBVIOUS
<1>3. /\ DOMAIN stored = Direct \cup (DOMAIN kept["pool"] \cap {"pool"})
      /\ \A role \in Direct :
           stored[role] = IF role \in DOMAIN kept[role] THEN kept[role][role] ELSE wallets[role]
      /\ "pool" \in DOMAIN stored => stored["pool"] = kept["pool"]["pool"]
  BY <1>1, <1>2 DEF ToStore, Direct, Roles
<1>4. /\ Direct \subseteq DOMAIN wallets /\ DOMAIN wallets \subseteq Roles
      /\ DOMAIN seen \cap {"pool"} \subseteq DOMAIN wallets
  <2>1. wallets = Recipients(r, seen)
    BY <1>1 DEF Loaded
  <2> QED
    BY <2>1, RecipientsOf
<1>5. ASSUME NEW role \in Roles, role \in DOMAIN kept[role]
      PROVE  Rightful(role, kept[role][role])
  <2>1. CASE Overridden(r, role)
    BY <1>1, <1>5, <2>1 DEF Holds
  <2>2. CASE ~Overridden(r, role)
    BY <1>1, <1>5, <2>2, ResolvedRightful
  <2> QED
    BY <2>1, <2>2
<1>6. ASSUME NEW role \in Direct PROVE Rightful(role, stored[role])
  <2>1. CASE role \in DOMAIN kept[role]
    BY <1>3, <1>5, <2>1 DEF Roles
  <2>2. CASE role \notin DOMAIN kept[role]
    <3>1. stored[role] = wallets[role] /\ role \in DOMAIN wallets
      BY <1>3, <1>4, <2>2
    <3>2. role \notin DOMAIN seen
      BY <1>1, <1>4, <2>2 DEF Roles
    <3> QED
      BY <1>1, <3>1, <3>2, ResolvedRightful
  <2> QED
    BY <2>1, <2>2
<1>7. "pool" \in DOMAIN stored => Rightful("pool", stored["pool"])
  BY <1>3, <1>5 DEF Roles, Direct
<1>8. ASSUME NEW role \in Roles, role \in DOMAIN setting.file.wallets
      PROVE  role \in DOMAIN stored
  <2>1. role \in DOMAIN seen
    BY <1>1, <1>8 DEF Holds
  <2> QED
    BY <1>1, <1>3, <1>4, <2>1 DEF Roles
<1>9. Holds(stored)
  BY <1>3, <1>6, <1>7, <1>8 DEF Holds, Roles
<1> QED
  BY <1>1, <1>2, <1>9

LEMMA SeenKept ==
  ASSUME RunsOk, FileOk, SeenOk, NEW r \in Runs, NEW me, StepsTo(r, me)
  PROVE  SeenOk'
<1>1. run'[r] = me /\ (\A p \in Runs \ {r} : run'[p] = run[p]) /\ WalletsStay /\ setting' = setting
  BY RunsOkKept, StepKeepsWallets DEF StepsTo
<1>2. ASSUME NEW p \in Runs, NEW seen, seen = run'[p].seen, run'[p].wallets # Nothing
      PROVE  Holds(seen)'
  <2>1. Holds(seen)
    <3>1. CASE p = r /\ Reads(r, me)
      BY <1>1, <1>2, <3>1 DEF Reads, FileOk
    <3>2. CASE p = r /\ ~Reads(r, me)
      <4>1. me.wallets = run[r].wallets /\ me.seen = run[r].seen
        BY <3>2 DEF StepsTo, Moves, Continues, Quits, Finds, Misses, Resumes, Passing, Steady
      <4> QED
        BY <1>1, <1>2, <3>2, <4>1 DEF SeenOk
    <3>3. CASE p # r
      BY <1>1, <1>2, <3>3 DEF SeenOk
    <3> QED
      BY <3>1, <3>2, <3>3
  <2> QED
    BY <1>1, <2>1, HoldsStays
<1> QED
  BY <1>2 DEF SeenOk

LEMMA FileStays ==
  ASSUME FileOk, WalletsStay, setting' = setting, file' = file
  PROVE  FileOk'
<1>1. ASSUME NEW wallets, wallets = file.wallets, file # Torn PROVE Holds(wallets)'
  BY <1>1, HoldsStays DEF FileOk
<1> QED
  BY <1>1 DEF FileOk

LEMMA FileKept ==
  ASSUME RunsOk, FileOk, SeenOk, NEW r \in Runs, Step(r) \/ Stop(r), NEW me, StepsTo(r, me)
  PROVE  FileOk'
<1>1. WalletsStay /\ setting' = setting
  BY StepKeepsWallets DEF StepsTo
<1>2. CASE Truncate(r)
  BY <1>2 DEF Truncate, FileOk, Torn
<1>3. CASE Write(r)
  <2>1. Loaded(r, run[r])
    <3>1. RunOk(r, run[r]) /\ run[r].result = "running" /\ Head(run[r].todo) = "write"
      BY <1>3 DEF RunsOk, Write, At
    <3>2. SUFFICES ASSUME run[r].todo \in Seq(Before), run[r].todo # <<>> PROVE FALSE
      BY <3>1, Ahead
    <3>3. Head(run[r].todo) \in Before
      BY <3>2, HeadTailProperties
    <3> QED
      BY <3>1, <3>3 DEF Before, Plain
  <2>2. Holds(run[r].seen)
    BY <2>1, LoadedHasWallets DEF SeenOk
  <2>3. PICK wallets : wallets = ToStore(r, run[r].seen, run[r].wallets)
    OBVIOUS
  <2>4. Holds(wallets)'
    BY <1>1, <2>1, <2>2, <2>3, StoredHolds, HoldsStays
  <2>5. file'.wallets = wallets
    BY <1>3, <2>3 DEF Write, Stored
  <2> QED
    BY <2>4, <2>5 DEF FileOk
<1>4. CASE ~Truncate(r) /\ ~Write(r)
  <2>1. file' = file
    BY <1>4 DEF Step, Stop, Load, Funds, Airdrop, Await, Recheck, Tokens, Look, Open, Opening,
                Settle, Confirm, Cluster, Read, Resume, Tick
  <2> QED
    BY <1>1, <2>1, FileStays
<1> QED
  BY <1>2, <1>3, <1>4

-----------------------------------------------------------------------------
(* The theorems                                                            *)

ScriptOk(script) ==
  script \in Seq(Before) /\ script # <<>> /\ LoadsOnce(script) /\ script # <<"delay">>

LEMMA TupleOk ==
  ASSUME NEW script \in Seq(Before), script # <<>>, NEW n \in Nat,
         \A i \in 1..Len(script) : script[i] = "load" => i = n
  PROVE  ScriptOk(script)
<1>1. script # <<"delay">>
  <2>1. PICK s : s = <<"delay">>
    OBVIOUS
  <2>2. SUFFICES ASSUME script = s PROVE FALSE
    BY <2>1
  <2>3. 1 \in 1..Len(script) /\ script[1] = "delay"
    BY <2>1, <2>2
  <2>4. script[1] \in Before
    BY <2>3, ElementOfSeq
  <2> QED
    BY <2>3, <2>4 DEF Before, Plain
<1>2. LoadsOnce(script)
  BY DEF LoadsOnce
<1> QED
  BY <1>1, <1>2 DEF ScriptOk

LEMMA ScriptsOk ==
  ASSUME NEW r
  PROVE  ScriptOk(Script(r))
<1>1. /\ "cluster" \in Before /\ "tokens" \in Before /\ "funds" \in Before /\ "open" \in Before
      /\ "load" \in Before /\ "settle" \in Before /\ "read" \in Before /\ "look" \in Before
  BY DEF Before, Plain
<1>2. PICK token, wallet, dry, system, open :
        /\ token = <<"cluster", "tokens", "funds", "open", "load", "settle", "cluster", "read">>
        /\ wallet = <<"cluster", "look", "funds", "settle", "cluster", "read">>
        /\ dry = <<"load">> /\ system = <<"load", "funds", "settle">>
        /\ open = <<"load", "funds", "open", "settle">>
  OBVIOUS
<1>3. ScriptOk(token)
  <2>1. token \in Seq(Before) /\ token # <<>> /\ Len(token) = 8
    BY <1>1, <1>2
  <2>2. \A i \in 1..8 : token[i] = "load" => i = 5
    BY <1>2
  <2> QED
    BY <2>1, <2>2, TupleOk
<1>4. ScriptOk(wallet)
  <2>1. wallet \in Seq(Before) /\ wallet # <<>> /\ Len(wallet) = 6
    BY <1>1, <1>2
  <2>2. \A i \in 1..6 : wallet[i] = "load" => i = 1
    BY <1>2
  <2> QED
    BY <2>1, <2>2, TupleOk
<1>5. ScriptOk(dry) /\ ScriptOk(system)
  <2>1. /\ dry \in Seq(Before) /\ dry # <<>> /\ Len(dry) = 1
        /\ system \in Seq(Before) /\ system # <<>> /\ Len(system) = 3
    BY <1>1, <1>2
  <2>2. /\ \A i \in 1..1 : dry[i] = "load" => i = 1
        /\ \A i \in 1..3 : system[i] = "load" => i = 1
    BY <1>2
  <2> QED
    BY <2>1, <2>2, TupleOk
<1>6. ASSUME NEW rest \in {<<>>, <<"cluster", "read">>} PROVE ScriptOk(open \o rest)
  <2>1. /\ open \in Seq(Before) /\ Len(open) = 4
        /\ \A i \in 1..4 : open[i] = "load" => i = 1
    BY <1>1, <1>2
  <2>2. rest \in Seq(Before) /\ \A i \in 1..Len(rest) : rest[i] # "load"
    <3>1. CASE rest = <<>>
      BY <3>1
    <3>2. CASE rest = <<"cluster", "read">>
      BY <1>1, <3>2
    <3> QED
      BY <3>1, <3>2
  <2>3. PICK all : all = open \o rest
    OBVIOUS
  <2>4. /\ all \in Seq(Before) /\ Len(all) = 4 + Len(rest) /\ Len(rest) \in Nat
        /\ \A i \in 1..4 + Len(rest) : all[i] = IF i <= 4 THEN open[i] ELSE rest[i - 4]
    <3>1. /\ all \in Seq(Before) /\ Len(all) = Len(open) + Len(rest)
          /\ \A i \in 1..Len(open) + Len(rest) :
               all[i] = IF i <= Len(open) THEN open[i] ELSE rest[i - Len(open)]
      <4>1. open \in Seq(Before) /\ rest \in Seq(Before)
        BY <2>1, <2>2
      <4> QED
        BY <2>3, <4>1, ConcatProperties, SMTT(20)
    <3>2. Len(rest) \in Nat
      BY <2>2, LenProperties
    <3> QED
      BY <2>1, <3>1, <3>2
  <2>5. ASSUME NEW i \in 1..Len(all), all[i] = "load" PROVE i = 1
    <3>1. i \in 1..4 \/ i - 4 \in 1..Len(rest)
      BY <2>4
    <3> QED
      BY <2>1, <2>2, <2>4, <2>5, <3>1
  <2>6. all # <<>>
    BY <2>4
  <2> QED
    BY <2>3, <2>4, <2>5, <2>6, TupleOk
<1>7. PICK rest \in {<<>>, <<"cluster", "read">>} :
        rest = IF setting.kind[r] = "nway" THEN <<"cluster", "read">> ELSE <<>>
  OBVIOUS
<1>8. \/ Script(r) = token \/ Script(r) = wallet \/ Script(r) = dry \/ Script(r) = system
      \/ Script(r) = open \o rest
  BY <1>2, <1>7 DEF Script
<1> QED
  BY <1>3, <1>4, <1>5, <1>6, <1>8

LEMMA InitIInv == ASSUME Init PROVE IInv
<1>1. ASSUME NEW r \in Runs PROVE RunOk(r, run[r])
  <2>1. PICK script : script = Script(r)
    OBVIOUS
  <2>2. run[r] = [todo |-> script, seen |-> Nothing, wallets |-> Nothing, checked |-> 0,
                  opens |-> FALSE, elapsed |-> 0, left |-> 0, heard |-> 0, result |-> "running"]
    BY <2>1 DEF Init
  <2>3. script \in Seq(Before) /\ script # <<>> /\ LoadsOnce(script) /\ script # <<"delay">>
    BY <2>1, ScriptsOk DEF ScriptOk
  <2> QED
    BY <2>2, <2>3 DEF RunOk, IsRun, NotLoaded
<1>2. RunsOk
  BY <1>1 DEF Init, RunsOk
<1>3. ChainOk
  BY DEF Init, ChainOk, Tip
<1>4. \A r \in Runs : VerdictOk(r) /\ run[r].wallets = Nothing
  BY DEF Init, VerdictOk
<1>5. FileOk
  BY DEF Init, FileOk, Holds, Rightful
<1> QED
  BY <1>2, <1>3, <1>4, <1>5 DEF IInv, SeenOk

LEMMA NextIInv == ASSUME IInv, [Next]_vars PROVE IInv'
<1>1. RunsOk /\ ChainOk /\ (\A r \in Runs : VerdictOk(r)) /\ FileOk /\ SeenOk
  BY DEF IInv
<1>2. ASSUME NEW r \in Runs, Step(r) \/ Stop(r) PROVE IInv'
  <2>1. PICK me : StepsTo(r, me)
    BY <1>1, <1>2, EveryStep DEF RunsOk
  <2>2. /\ RunsOk' /\ \A p \in Runs \ {r} : run'[p] = run[p]
        /\ ChainOk' /\ ChainGrows /\ setting' = setting
    BY <1>1, <2>1, RunsOkKept, ChainStays DEF StepsTo
  <2>3. ASSUME NEW p \in Runs PROVE VerdictOk(p)'
    <3>1. CASE p = r
      BY <1>1, <2>1, <2>2, <3>1, VerdictKept
    <3>2. CASE p # r
      BY <1>1, <2>2, <3>2, VerdictStays
    <3> QED
      BY <3>1, <3>2
  <2>4. FileOk' /\ SeenOk'
    BY <1>1, <1>2, <2>1, FileKept, SeenKept
  <2> QED
    BY <2>2, <2>3, <2>4 DEF IInv
<1>3. ASSUME run' = run, file' = file, setting' = setting, ChainOk' /\ ChainGrows PROVE IInv'
  <2>1. RunsOk' /\ WalletsStay
    BY <1>1, <1>3, RunsOkStay DEF WalletsStay
  <2>2. \A r \in Runs : VerdictOk(r)'
    BY <1>1, <1>3, VerdictStays
  <2>3. FileOk'
    BY <1>1, <1>3, <2>1, FileStays
  <2>4. ASSUME NEW r \in Runs, NEW seen, seen = run[r].seen, run[r].wallets # Nothing
        PROVE  Holds(seen)'
    BY <1>1, <1>3, <2>1, <2>4, HoldsStays DEF SeenOk
  <2>5. SeenOk'
    BY <1>3, <2>4 DEF SeenOk
  <2> QED
    BY <1>3, <2>1, <2>2, <2>3, <2>5 DEF IInv
<1>4. ASSUME NEW tx, Land(tx) PROVE IInv'
  BY <1>1, <1>3, <1>4, LandKeepsChain DEF Land
<1>5. CASE Finalize
  BY <1>1, <1>3, <1>5, ChainStays DEF Finalize
<1>6. CASE Fork
  BY <1>1, <1>3, <1>6, ForkKeepsChain DEF Fork
<1>7. CASE UNCHANGED vars
  BY <1>1, <1>3, <1>7, ChainStays DEF vars
<1> QED
  BY <1>2, <1>4, <1>5, <1>6, <1>7 DEF Next

\* What a run knows of its payment, for any number of runs: what each knows, where its
\* wallets come from, and what is final.
THEOREM Invariant == Spec => []IInv
BY InitIInv, NextIInv, PTL DEF Spec

\* A run's verdict about its payment is true and stays true, whatever happens to the last
\* blocks, and TX_NOT_FOUND is said only after the whole timeout.
THEOREM VerdictsStayTrue == Spec => []VerdictsAreTrue
<1>1. IInv => VerdictsAreTrue
  <2> SUFFICES ASSUME IInv, NEW r \in Runs
               PROVE  /\ run[r].result = "MATCH" => FinalError(r) = {"ok"}
                      /\ run[r].result = "TX_FAILED" => FinalError(r) \notin {{}, {"ok"}}
                      /\ run[r].result = "TX_NOT_FOUND" =>
                           /\ run[r].heard >= Timeout - Poll
                           /\ run[r].elapsed = Larger(Timeout, run[r].heard)
    BY DEF VerdictsAreTrue
  <2>1. FinalError(r) = {chain[k].error : k \in Evidence(r)}
    BY DEF FinalError, Evidence
  <2>2. \A j, k \in Evidence(r) : j = k
    BY DEF IInv, ChainOk, Evidence, EntriesOf
  <2>3. run[r].result = "MATCH" => FinalError(r) = {"ok"}
    BY <2>1, <2>2 DEF IInv, VerdictOk
  <2>4. run[r].result = "TX_FAILED" => FinalError(r) \notin {{}, {"ok"}}
    BY <2>1, <2>2 DEF IInv, VerdictOk
  <2>5. RunOk(r, run[r])
    BY DEF IInv, RunsOk
  <2> QED
    BY <2>3, <2>4, <2>5 DEF RunOk
<1> QED
  BY <1>1, Invariant, PTL

\* Wallets in the file at the start stay in use, and runs that leave a role to the file
\* differ on it only if two of the runs began without it: in any number of runs, with any
\* overrides, whatever order they read and write the file in.
THEOREM WalletsAreReused == Spec => []WalletsReused
<1>1. IInv => WalletsReused
  <2> SUFFICES ASSUME IInv, NEW r \in Runs, NEW role \in Roles, Leaves(r, role)
               PROVE  /\ role \in DOMAIN setting.file.wallets =>
                           run[r].wallets[role] = setting.file.wallets[role]
                      /\ \A s \in Runs :
                           Leaves(s, role) /\ run[r].wallets[role] # run[s].wallets[role]
                             => \E p, q \in Runs : p # q /\ BeganWithout(p, role) /\ BeganWithout(q, role)
    BY DEF WalletsReused
  <2>1. ASSUME NEW s \in Runs, Leaves(s, role) PROVE Rightful(role, run[s].wallets[role])
    <3>1. run[s].wallets # Nothing
      BY <2>1, NothingEmpty DEF Leaves
    <3>2. Loaded(s, run[s])
      BY <3>1 DEF IInv, RunsOk, RunOk, NotLoaded
    <3>3. Holds(run[s].seen)
      BY <3>1 DEF IInv, SeenOk
    <3> QED
      BY <2>1, <3>2, <3>3, ResolvedRightful DEF Leaves
  <2>2. ASSUME NEW s \in Runs, Leaves(s, role), run[r].wallets[role] # run[s].wallets[role]
        PROVE  \E p, q \in Runs : p # q /\ BeganWithout(p, role) /\ BeganWithout(q, role)
    <3>1. Origin(role, run[r].wallets[role]) /\ Origin(role, run[s].wallets[role])
      BY <2>1, <2>2 DEF Rightful
    <3> QED
      BY <2>2, <3>1 DEF Origin
  <2> QED
    BY <2>1, <2>2 DEF Rightful
<1> QED
  BY <1>1, Invariant, PTL

-----------------------------------------------------------------------------
(* Why a run is refused                                                    *)

Steps == Before \cup After \cup {"delay"}

Has(todo, steps) == \E i \in 1..Len(todo) : todo[i] \in steps

\* What may come after a step.
Later(step) ==
  IF step \in {"settle", "confirm"} THEN {"cluster", "read"}
  ELSE IF step \in {"open", "opening"}
    THEN {"load", "truncate", "write", "settle", "cluster", "read"}
  ELSE Steps

Opener(r) ==
  \/ setting.kind[r] = "token"
  \/ setting.kind[r] # "wallet" /\ setting.mode[r] = "program"

\* What the script of a run has to do, and in which order.
Planned(r, todo) ==
  /\ todo \in Seq(Steps)
  /\ \A i, j \in 1..Len(todo) : i < j => todo[j] \in Later(todo[i])
  /\ \A i \in 1..Len(todo) :
       /\ todo[i] = "look" =>
            setting.kind[r] = "wallet" /\ \E j \in i + 1..Len(todo) : todo[j] = "funds"
       /\ todo[i] = "open" => Opener(r)
       /\ todo[i] = "cluster" => setting.kind[r] # "three"

Astray(r) == setting.kind[r] \in {"token", "wallet"} /\ setting.cluster # "devnet"

\* What a run that goes on knows: its funds are checked before it opens or pays, its
\* tokens before it pays, and its cluster before anything.
Informed(r) ==
  LET todo == run[r].todo
  IN /\ Has(todo, {"open", "settle", "confirm"}) /\ ~Has(todo, {"funds", "recheck"}) =>
          run[r].checked \in Int /\ run[r].checked >= Needed(r)
     /\ setting.kind[r] = "token" /\ Has(todo, {"settle"}) /\ ~Has(todo, {"tokens"}) =>
          setting.tokens >= AMOUNT_BASE_UNITS
     /\ Astray(r) => Head(todo) = "cluster"

PlansOk ==
  \A r \in Runs :
    /\ run[r].opens \in BOOLEAN /\ (run[r].opens => setting.kind[r] = "wallet")
    /\ run[r].result = "running" => Planned(r, run[r].todo) /\ Informed(r)

\* A run sends its payment once, as it sees it ever after, and opens the namespace once.
SentOk ==
  \A tx \in sent :
    /\ tx.run \in Runs /\ tx.op \in {"airdrop", "open", "settle"}
    /\ tx.op = "settle" =>
         /\ tx = Tx(tx.run, "settle") /\ ~Astray(tx.run)
         /\ run[tx.run].result = "running" => ~Has(run[tx.run].todo, {"load", "look", "open", "settle"})
    /\ tx.op = "open" =>
         /\ Opener(tx.run)
         /\ run[tx.run].result = "running" => ~Has(run[tx.run].todo, {"open"})
    /\ \A other \in sent :
         tx.op = "open" /\ other.op = "open" /\ tx.run = other.run => tx = other

\* The most a transaction takes from the payer.
MostCost(tx) ==
  FEE + (IF tx.opens THEN NamespaceRent ELSE 0)
    + IF tx.op = "open" THEN 0
      ELSE (IF setting.mode[tx.run] = "program" THEN RecordRent ELSE 0)
             + IF setting.kind[tx.run] = "token" THEN 4 * TokenAccountRent ELSE LAMPORTS_TOTAL

PaidOk ==
  \A k \in 1..Tip :
    /\ chain[k].tx \in sent /\ chain[k].cost \in Int
    /\ chain[k].tx.op = "open" =>
         chain[k].cost <= FEE + IF chain[k].error = "ok" THEN NamespaceRent ELSE 0
    /\ chain[k].tx.op # "airdrop" /\ chain[k].error = "LAMPORTS" =>
         Lamports(k - 1) < MostCost(chain[k].tx) + WalletMinimum

Refusable == setting \in Settings /\ PlansOk /\ SentOk /\ PaidOk

-----------------------------------------------------------------------------
(* Costs                                                                   *)

LEMMA SettingIs ==
  ASSUME setting \in Settings
  PROVE  /\ setting.lamports \in Nat /\ setting.tokens \in Nat
         /\ setting.rate \in Nat /\ setting.rate <= 6960
         /\ \A r \in Runs : /\ setting.kind[r] \in {"three", "nway", "token", "wallet"}
                            /\ setting.mode[r] \in {"dry", "system", "program"}
BY SettingsAssumption DEF DEFAULT_RATE

LEMMA RentIs ==
  ASSUME setting \in Settings
  PROVE  /\ RecordRent = 169 * setting.rate /\ NamespaceRent = 226 * setting.rate
         /\ TokenAccountRent = 293 * setting.rate /\ WalletMinimum = 128 * setting.rate
<1>1. PICK rate \in Nat : rate = setting.rate
  BY SettingIs
<1>2. /\ (128 + 41) * rate = 169 * rate /\ (128 + 98) * rate = 226 * rate
      /\ (128 + 165) * rate = 293 * rate /\ (128 + 0) * rate = 128 * rate
  OBVIOUS
<1> QED
  BY <1>1, <1>2 DEF Rent, RecordRent, NamespaceRent, TokenAccountRent, WalletMinimum

AtMost(S, m) == IsFiniteSet(S) /\ Cardinality(S) \in Nat /\ Cardinality(S) <= m

LEMMA OneMore ==
  ASSUME NEW S, NEW m \in Nat, AtMost(S, m), NEW x, NEW n, n = m + 1, NEW T, T = S \cup {x}
  PROVE  AtMost(T, n)
<1>1. IsFiniteSet(T) /\ Cardinality(S) \in Nat
      /\ Cardinality(T) = IF x \in S THEN Cardinality(S) ELSE Cardinality(S) + 1
  BY FS_AddElement, FS_CardinalityType DEF AtMost
<1> QED
  BY <1>1 DEF AtMost

\* A payment has at most four recipients.
LEMMA FourAtMost ==
  ASSUME NEW to, DOMAIN to \subseteq Roles, NEW S, S \subseteq Range(to)
  PROVE  Cardinality(S) \in 0..4
<1>1. PICK a, b, c, d : a = to["artist"] /\ b = to["studio"] /\ c = to["synxed"] /\ d = to["pool"]
  OBVIOUS
<1>n. PICK N : N = {}
  OBVIOUS
<1>a. PICK A : A = N \cup {a}
  OBVIOUS
<1>b. PICK B : B = A \cup {b}
  OBVIOUS
<1>c. PICK C : C = B \cup {c}
  OBVIOUS
<1>2. PICK D : D = C \cup {d}
  OBVIOUS
<1>3. AtMost(D, 4)
  <2>0. /\ 0 \in Nat /\ 1 \in Nat /\ 2 \in Nat /\ 3 \in Nat
        /\ 1 = 0 + 1 /\ 2 = 1 + 1 /\ 3 = 2 + 1 /\ 4 = 3 + 1
    OBVIOUS
  <2>1. AtMost(N, 0)
    BY <1>n, FS_EmptySet DEF AtMost
  <2>2. AtMost(A, 1)
    BY <1>a, <2>0, <2>1, OneMore, Zenon
  <2>3. AtMost(B, 2)
    BY <1>b, <2>0, <2>2, OneMore, Zenon
  <2>4. AtMost(C, 3)
    BY <1>c, <2>0, <2>3, OneMore, Zenon
  <2> QED
    BY <1>2, <2>0, <2>4, OneMore, Zenon
<1>4. S \subseteq D
  <2>1. D = {a, b, c, d}
    BY <1>n, <1>a, <1>b, <1>c, <1>2
  <2> QED
    BY <1>1, <2>1 DEF Range, Roles, Direct
<1>5. Cardinality(S) \in Nat /\ Cardinality(S) <= Cardinality(D)
  BY <1>3, <1>4, FS_Subset, FS_CardinalityType DEF AtMost
<1> QED
  BY <1>3, <1>5 DEF AtMost

LEMMA CostBound ==
  ASSUME setting \in Settings, NEW tx, NEW n, tx.run \in Runs,
         tx.op \in {"airdrop", "open", "settle"}, tx.op = "settle" => DOMAIN tx.to \subseteq Roles
  PROVE  /\ Cost(tx, n) \in Int /\ MostCost(tx) \in Int
         /\ tx.op # "airdrop" => Cost(tx, n) <= MostCost(tx)
<1>1. PICK rate \in Nat : rate = setting.rate
  BY SettingIs
<1>2. PICK opening : opening = IF tx.opens THEN NamespaceRent ELSE 0
  OBVIOUS
<1>3. PICK record : record = IF setting.mode[tx.run] = "program" THEN RecordRent ELSE 0
  OBVIOUS
<1>4. opening \in Nat /\ record \in Nat /\ TokenAccountRent = 293 * rate
  BY <1>1, <1>2, <1>3, RentIs
<1>5. PICK paid : paid = IF setting.kind[tx.run] = "token"
                         THEN TokenAccountRent * Cardinality(Range(tx.to) \ HaveTokenAccounts(n))
                         ELSE LAMPORTS_TOTAL
  OBVIOUS
<1>6. PICK most : most = IF setting.kind[tx.run] = "token" THEN 4 * TokenAccountRent ELSE LAMPORTS_TOTAL
  OBVIOUS
<1>7. LAMPORTS_TOTAL \in Nat
  BY DEF LAMPORTS_TOTAL
<1>8. most \in Nat
  BY <1>4, <1>6, <1>7
<1>9. tx.op = "settle" => paid \in Nat /\ paid <= most
  <2>1. CASE setting.kind[tx.run] = "token" /\ tx.op = "settle"
    <3>1. PICK S : S = Range(tx.to) \ HaveTokenAccounts(n)
      OBVIOUS
    <3>2. PICK c \in 0..4 : c = Cardinality(S)
      BY <2>1, <3>1, FourAtMost
    <3>3. (293 * rate) * c \in Nat /\ (293 * rate) * c <= 4 * (293 * rate)
      <4>1. c = 0 \/ c = 1 \/ c = 2 \/ c = 3 \/ c = 4
        BY <3>2
      <4> QED
        BY <4>1
    <3> QED
      BY <1>4, <1>5, <1>6, <2>1, <3>1, <3>2, <3>3
  <2>2. CASE setting.kind[tx.run] # "token"
    BY <1>5, <1>6, <1>7, <2>2
  <2> QED
    BY <2>1, <2>2
<1>10. MostCost(tx) = FEE + opening + IF tx.op = "open" THEN 0 ELSE record + most
  BY <1>2, <1>3, <1>6, Zenon DEF MostCost
<1>11. CASE tx.op = "airdrop"
  <2>1. Cost(tx, n) = -AIRDROP_LAMPORTS
    BY <1>11 DEF Cost
  <2> QED
    BY <1>4, <1>8, <1>10, <1>11, <2>1 DEF AIRDROP_LAMPORTS, FEE
<1>12. CASE tx.op = "open"
  <2>1. Cost(tx, n) = FEE + opening
    BY <1>2, <1>12 DEF Cost
  <2> QED
    BY <1>4, <1>10, <1>12, <2>1 DEF FEE
<1>13. CASE tx.op = "settle"
  <2>1. Cost(tx, n) = FEE + opening + record + paid
    BY <1>2, <1>3, <1>5, <1>13 DEF Cost
  <2> QED
    BY <1>4, <1>8, <1>9, <1>10, <1>13, <2>1 DEF FEE
<1> QED
  BY <1>11, <1>12, <1>13

\* The fold of the model is the sum of ArithmeticProofs.
LEMMA SumOverIsSum ==
  ASSUME NEW f
  PROVE  SumOver(f) = SumOf(f)
BY Zenon DEF SumOver, FoldFunction, FoldFunctionOnSet, MapThenFoldSet, SumOf, Sums, AddsUp, First

LEMMA LamportsInt ==
  ASSUME setting \in Settings, NEW n \in Nat, \A k \in 1..n : chain[k].cost \in Int
  PROVE  Lamports(n) \in Int
<1>1. PICK D, f : D = 1..n /\ f = [k \in 1..n |-> chain[k].cost]
  OBVIOUS
<1>2. IsFiniteSet(D)
  BY <1>1, FS_Interval
<1>3. f \in [D -> Int]
  BY <1>1
<1>4. SumOver(f) \in Int
  BY <1>2, <1>3, SumNat, SumOverIsSum
<1> QED
  BY <1>1, <1>4, SettingIs DEF Lamports

LEMMA LamportsKept ==
  ASSUME setting' = setting, NEW n, \A k \in 1..n : chain'[k] = chain[k]
  PROVE  Lamports(n)' = Lamports(n)
<1>1. [k \in 1..n |-> chain'[k].cost] = [k \in 1..n |-> chain[k].cost]
  OBVIOUS
<1> QED
  BY <1>1 DEF Lamports

-----------------------------------------------------------------------------
(* The funding check                                                       *)

\* All a run spends before its payment, if its opening succeeds and if it does not.
OpeningCost(r, n) ==
  IF Opener(r) THEN FEE + (IF OpenedItself(r, n) THEN NamespaceRent ELSE 0) ELSE 0

LEMMA OwnCostBound ==
  ASSUME setting \in Settings, ChainOk, SentOk, PaidOk, NEW r \in Runs, NEW n \in Nat, n <= Tip,
         \A k \in 1..n : ~(chain[k].tx.run = r /\ chain[k].tx.op = "settle")
  PROVE  OwnCost(r, n) \in Int /\ OwnCost(r, n) <= OpeningCost(r, n)
<1>1. PICK K, f : K = Own(r, n) /\ f = [k \in Own(r, n) |-> chain[k].cost]
  OBVIOUS
<1>2. OwnCost(r, n) = SumOf(f)
  BY <1>1, SumOverIsSum DEF OwnCost
<1>3. \A k \in 1..n : k \in 1..Tip
  <2>1. Tip \in Nat
    BY LenProperties DEF ChainOk, Tip
  <2> QED
    BY <2>1
<1>4. ASSUME NEW k \in K
      PROVE  /\ k \in 1..Tip /\ chain[k].tx \in sent /\ chain[k].tx.run = r
             /\ chain[k].tx.op = "open" /\ Opener(r)
             /\ chain[k].cost \in Int /\ chain[k].cost <= FEE + NamespaceRent
             /\ chain[k].error # "ok" => chain[k].cost <= FEE
  <2>1. /\ k \in 1..Tip /\ chain[k].tx \in sent /\ chain[k].tx.run = r
        /\ chain[k].tx.op = "open" /\ chain[k].cost \in Int
    BY <1>1, <1>3, <1>4 DEF Own, SentOk, PaidOk
  <2>2. Opener(r)
    BY <2>1 DEF SentOk
  <2>3. chain[k].cost <= FEE + IF chain[k].error = "ok" THEN NamespaceRent ELSE 0
    BY <2>1 DEF PaidOk
  <2>4. NamespaceRent \in Nat /\ FEE \in Nat
    BY SettingIs, RentIs DEF FEE
  <2> QED
    BY <2>1, <2>2, <2>3, <2>4
<1>5. \A j, k \in K : j = k
  <2>1. \A j, k \in K : chain[j].tx = chain[k].tx
    BY <1>4 DEF SentOk
  <2> QED
    BY <1>4, <2>1 DEF ChainOk
<1>6. NamespaceRent \in Nat /\ FEE \in Nat
  BY SettingIs, RentIs DEF FEE
<1>7. CASE K = {}
  <2>1. IsFiniteSet(K) /\ f \in [K -> Int] /\ \A k \in K : f[k] = 0
    BY <1>1, <1>7, FS_EmptySet
  <2>2. SumOf(f) = 0
    BY <2>1, SumZero
  <2> QED
    BY <1>2, <1>6, <2>2 DEF OpeningCost
<1>8. ASSUME NEW p \in K PROVE OwnCost(r, n) \in Int /\ OwnCost(r, n) <= OpeningCost(r, n)
  <2>1. PICK v \in Int : /\ v = chain[p].cost /\ v <= FEE + NamespaceRent
                         /\ chain[p].error # "ok" => v <= FEE
    BY <1>4
  <2>2. K = {p}
    BY <1>5
  <2>3. IsFiniteSet(K)
    BY <2>2, FS_Singleton
  <2>4. f \in [K -> Int] /\ \A k \in K : f[k] = IF k = p THEN v ELSE 0
    BY <1>1, <2>1, <2>2
  <2>5. SumOf(f) = v
    BY <2>1, <2>3, <2>4, SumPoint
  <2>6. chain[p].error = "ok" => OpenedItself(r, n)
    BY <1>1, <1>4 DEF OpenedItself
  <2>7. v <= OpeningCost(r, n)
    BY <1>4, <1>6, <2>1, <2>6 DEF OpeningCost
  <2> QED
    BY <1>2, <2>5, <2>7
<1> QED
  BY <1>7, <1>8

\* What the check asks for covers the payment, the opening before it and what the payer
\* must keep, except for a first run where rent is dear.
LEMMA CheckCovers ==
  ASSUME setting \in Settings, NEW r \in Runs, NEW n,
         run[r].opens \in BOOLEAN, run[r].opens => setting.kind[r] = "wallet",
         NEW op \in {"open", "settle"}, op = "open" => Opener(r),
         \/ ~(setting.kind[r] \in {"three", "nway"} /\ setting.mode[r] = "program")
         \/ setting.rate <= COVERED_RATE \/ ~OpenedItself(r, n)
  PROVE  /\ Needed(r) \in Int /\ OpeningCost(r, n) \in Nat
         /\ MostCost(Tx(r, op)) + WalletMinimum + OpeningCost(r, n) <= Needed(r)
<1>1. PICK rate \in Nat : rate = setting.rate /\ rate <= 6960
  BY SettingIs
<1>2. /\ RecordRent = 169 * rate /\ NamespaceRent = 226 * rate
      /\ TokenAccountRent = 293 * rate /\ WalletMinimum = 128 * rate
  BY <1>1, RentIs
<1>3. PICK tx : tx = Tx(r, op)
  OBVIOUS
<1>4. tx.run = r /\ tx.op = op /\ tx.opens = (op = "open" \/ (op = "settle" /\ run[r].opens))
  BY <1>3 DEF Tx
<1>5. PICK kind, mode : kind = setting.kind[r] /\ mode = setting.mode[r]
  OBVIOUS
<1>6. kind \in {"three", "nway", "token", "wallet"} /\ mode \in {"dry", "system", "program"}
  BY <1>5, SettingIs
<1>7. PICK record : record = IF mode = "program" THEN 169 * rate ELSE 0
  OBVIOUS
<1>o. PICK rent : rent = IF OpenedItself(r, n) THEN 226 * rate ELSE 0
  OBVIOUS
<1>p. rent \in Nat /\ rent <= 226 * rate
  BY <1>o
<1>q. Opener(r) => OpeningCost(r, n) = 5000 + rent
  BY <1>2, <1>o DEF OpeningCost, FEE
<1>8. CASE op = "open"
  <2>1. MostCost(tx) = 5000 + 226 * rate
    <3>1. MostCost(tx) = FEE + NamespaceRent + 0
      BY <1>4, <1>8, Zenon DEF MostCost
    <3> QED
      BY <1>1, <1>2, <3>1 DEF FEE
  <2>2. OpeningCost(r, n) = 5000 + rent
    BY <1>8, <1>q
  <2>3. CASE kind = "token"
    <3>1. Needed(r) = 12000000
      BY <1>5, <2>3 DEF Needed, SOL_FEE_AND_RENT_BUFFER
    <3> QED
      BY <1>1, <1>2, <1>3, <1>p, <2>1, <2>2, <3>1
  <2>4. CASE kind \in {"three", "nway"} /\ mode = "program"
    <3>1. Needed(r) = 20000000 + 2800000
      BY <1>5, <2>4 DEF Needed, LAMPORTS_TOTAL, fundingOverhead
    <3> QED
      BY <1>1, <1>2, <1>3, <1>p, <2>1, <2>2, <3>1
  <2> QED
    BY <1>5, <1>6, <1>8, <2>3, <2>4 DEF Opener
<1>9. CASE op = "settle" /\ kind = "wallet"
  <2>1. PICK opening : opening = IF run[r].opens THEN 226 * rate ELSE 0
    OBVIOUS
  <2>2. opening \in Nat /\ record \in Nat /\ record <= 169 * rate
    BY <1>7, <2>1
  <2>3. MostCost(tx) = 5000 + opening + (record + 20000000)
    BY <1>2, <1>4, <1>5, <1>7, <1>9, <2>1 DEF MostCost, FEE, LAMPORTS_TOTAL
  <2>4. OpeningCost(r, n) = 0
    BY <1>5, <1>9 DEF OpeningCost, Opener
  <2>5. Needed(r) = 20000000 + 169 * rate + 128 * rate + 10000 + opening
    BY <1>2, <1>5, <1>9, <2>1 DEF Needed, LAMPORTS_TOTAL, FEE_MARGIN
  <2> QED
    BY <1>2, <1>3, <2>2, <2>3, <2>4, <2>5
<1>10. CASE op = "settle" /\ kind # "wallet"
  <2>1. ~tx.opens
    BY <1>4, <1>5, <1>10
  <2>2. record \in Nat /\ record <= 169 * rate
    BY <1>7
  <2>3. CASE kind = "token"
    <3>1. MostCost(tx) = 5000 + 0 + (record + 4 * (293 * rate))
      BY <1>2, <1>4, <1>5, <1>7, <1>10, <2>1, <2>3 DEF MostCost, FEE
    <3>2. OpeningCost(r, n) = 5000 + rent
      BY <1>5, <1>q, <2>3 DEF Opener
    <3>3. Needed(r) = 12000000
      BY <1>5, <2>3 DEF Needed, SOL_FEE_AND_RENT_BUFFER
    <3> QED
      BY <1>1, <1>2, <1>3, <1>p, <2>2, <3>1, <3>2, <3>3
  <2>4. CASE kind # "token"
    <3>1. MostCost(tx) = 5000 + 0 + (record + 20000000)
      BY <1>2, <1>4, <1>5, <1>7, <1>10, <2>1, <2>4 DEF MostCost, FEE, LAMPORTS_TOTAL
    <3>2. CASE mode = "program"
      <4>1. OpeningCost(r, n) = 5000 + rent
        BY <1>5, <1>10, <1>q, <3>2 DEF Opener
      <4>2. Needed(r) = 20000000 + 2800000
        BY <1>5, <1>6, <1>10, <2>4, <3>2 DEF Needed, LAMPORTS_TOTAL, fundingOverhead
      <4>3. rate <= 5334 \/ rent = 0
        BY <1>1, <1>5, <1>6, <1>10, <1>o, <2>4, <3>2 DEF COVERED_RATE
      <4> QED
        BY <1>1, <1>2, <1>3, <1>p, <2>2, <3>1, <4>1, <4>2, <4>3
    <3>3. CASE mode # "program"
      <4>1. OpeningCost(r, n) = 0
        BY <1>5, <2>4, <3>3 DEF OpeningCost, Opener
      <4>2. Needed(r) = 20000000 + 1000000
        BY <1>5, <1>6, <1>10, <2>4, <3>3 DEF Needed, LAMPORTS_TOTAL, fundingOverhead
      <4>3. record = 0
        BY <1>7, <3>3
      <4> QED
        BY <1>1, <1>2, <1>3, <3>1, <4>1, <4>2, <4>3
    <3> QED
      BY <3>2, <3>3
  <2> QED
    BY <2>3, <2>4
<1> QED
  BY <1>8, <1>9, <1>10

\* Without a hypothesis about the rate the overhead covers all but the payer's minimum.
LEMMA CheckCoversPayment ==
  ASSUME setting \in Settings, NEW r \in Runs, NEW n,
         run[r].opens \in BOOLEAN, run[r].opens => setting.kind[r] = "wallet",
         NEW op \in {"open", "settle"},
         setting.kind[r] \in {"three", "nway"}, setting.mode[r] = "program"
  PROVE  /\ Needed(r) \in Int /\ OpeningCost(r, n) \in Nat
         /\ MostCost(Tx(r, op)) + OpeningCost(r, n) <= Needed(r)
<1>1. PICK rate \in Nat : rate = setting.rate /\ rate <= 6960
  BY SettingIs
<1>2. RecordRent = 169 * rate /\ NamespaceRent = 226 * rate
  BY <1>1, RentIs
<1>3. PICK tx : tx = Tx(r, op)
  OBVIOUS
<1>4. tx.run = r /\ tx.op = op /\ tx.opens = (op = "open" \/ (op = "settle" /\ run[r].opens))
  BY <1>3 DEF Tx
<1>5. OpeningCost(r, n) \in Nat /\ OpeningCost(r, n) <= 5000 + 226 * rate
  BY <1>1, <1>2 DEF OpeningCost, Opener, FEE
<1>6. Needed(r) = 20000000 + 2800000
  BY DEF Needed, LAMPORTS_TOTAL, fundingOverhead
<1>7. CASE op = "open"
  <2>1. MostCost(tx) = 5000 + 226 * rate
    <3>1. MostCost(tx) = FEE + NamespaceRent + 0
      BY <1>4, <1>7, Zenon DEF MostCost
    <3> QED
      BY <1>1, <1>2, <3>1 DEF FEE
  <2> QED
    BY <1>1, <1>3, <1>5, <1>6, <2>1
<1>8. CASE op = "settle"
  <2>1. MostCost(tx) = 5000 + 0 + (169 * rate + 20000000)
    BY <1>2, <1>4, <1>8 DEF MostCost, FEE, LAMPORTS_TOTAL
  <2> QED
    BY <1>1, <1>3, <1>5, <1>6, <2>1
<1> QED
  BY <1>7, <1>8

\* So a run that passed its check is refused for lamports only for one of the reasons.
LEMMA RefusalExplained ==
  ASSUME setting \in Settings, NEW r \in Runs,
         run[r].opens \in BOOLEAN, run[r].opens => setting.kind[r] = "wallet",
         run[r].checked \in Int, run[r].checked >= Needed(r),
         NEW n, Lamports(n) \in Int, OwnCost(r, n) \in Int, OwnCost(r, n) <= OpeningCost(r, n),
         NEW op \in {"open", "settle"}, op = "open" => Opener(r),
         MostCost(Tx(r, op)) \in Int,
         Lamports(n) < MostCost(Tx(r, op)) + WalletMinimum
  PROVE  Explained(r, n)
<1>1. PICK lamports \in Int, own \in Int, checked \in Int, most \in Int :
        /\ lamports = Lamports(n) /\ own = OwnCost(r, n) /\ checked = run[r].checked
        /\ most = MostCost(Tx(r, op))
  OBVIOUS
<1>2. PICK minimum \in Nat : minimum = WalletMinimum
  BY SettingIs, RentIs
<1>3. SUFFICES ASSUME lamports >= checked - own PROVE Explained(r, n)
  BY <1>1 DEF Explained
<1>4. CASE setting.kind[r] \in {"three", "nway"} /\ setting.mode[r] = "program"
           /\ setting.rate > COVERED_RATE /\ OpenedItself(r, n)
  <2>1. PICK needed \in Int, opening \in Nat :
          /\ needed = Needed(r) /\ opening = OpeningCost(r, n) /\ most + opening <= needed
    BY <1>1, <1>4, CheckCoversPayment
  <2>2. checked < needed + minimum
    BY <1>1, <1>2, <1>3, <2>1
  <2> QED
    BY <1>1, <1>2, <1>4, <2>1, <2>2 DEF Explained
<1>5. CASE ~(setting.kind[r] \in {"three", "nway"} /\ setting.mode[r] = "program"
             /\ setting.rate > COVERED_RATE /\ OpenedItself(r, n))
  <2>1. \/ ~(setting.kind[r] \in {"three", "nway"} /\ setting.mode[r] = "program")
        \/ setting.rate <= COVERED_RATE \/ ~OpenedItself(r, n)
    BY <1>5, SettingIs DEF COVERED_RATE
  <2>2. PICK needed \in Int, opening \in Nat :
          /\ needed = Needed(r) /\ opening = OpeningCost(r, n)
          /\ most + minimum + opening <= needed
    BY <1>1, <1>2, <2>1, CheckCovers
  <2> QED
    BY <1>1, <1>2, <1>3, <2>2
<1> QED
  BY <1>4, <1>5

-----------------------------------------------------------------------------
(* Scripts and what is put before the rest of them                         *)

LEMMA HasRest ==
  ASSUME NEW todo \in Seq(Steps), todo # <<>>, NEW steps
  PROVE  Has(todo, steps) <=> Head(todo) \in steps \/ Has(Tail(todo), steps)
<1>1. PICK rest : rest = Tail(todo)
  OBVIOUS
<1>2. <<>> \in Seq(Steps)
  BY EmptySeq
<1>3. /\ Len(todo) \in Nat \ {0} /\ Len(rest) = Len(todo) - 1
      /\ \A i \in 1..Len(rest) : rest[i] = todo[i + 1]
      /\ Head(todo) = todo[1]
  BY <1>1, <1>2, Rest
<1>4. ASSUME NEW i \in 1..Len(todo), todo[i] \in steps PROVE Head(todo) \in steps \/ Has(rest, steps)
  <2>1. CASE i = 1
    BY <1>3, <1>4, <2>1
  <2>2. CASE i # 1
    <3>1. i - 1 \in 1..Len(rest) /\ i - 1 + 1 = i
      BY <1>3, <2>2
    <3>2. rest[i - 1] \in steps
      BY <1>3, <1>4, <3>1
    <3> QED
      BY <3>1, <3>2 DEF Has
  <2> QED
    BY <2>1, <2>2
<1>5. ASSUME NEW i \in 1..Len(rest), rest[i] \in steps PROVE Has(todo, steps)
  <2>1. i + 1 \in 1..Len(todo) /\ todo[i + 1] \in steps
    BY <1>3, <1>5
  <2> QED
    BY <2>1 DEF Has
<1>6. Head(todo) \in steps => Has(todo, steps)
  <2>1. 1 \in 1..Len(todo)
    BY <1>3
  <2> QED
    BY <1>3, <2>1 DEF Has
<1> QED
  BY <1>1, <1>4, <1>5, <1>6 DEF Has

IsJoin(all, lead, rest) ==
  /\ all \in Seq(Steps) /\ Len(lead) \in Nat /\ Len(rest) \in Nat
  /\ Len(all) = Len(lead) + Len(rest)
  /\ \A i \in 1..Len(lead) : all[i] = lead[i]
  /\ \A i \in 1..Len(rest) : all[Len(lead) + i] = rest[i]

LEMMA Joined ==
  ASSUME NEW lead, lead \in Seq(Steps), NEW rest, rest \in Seq(Steps),
         NEW all, all = lead \o rest
  PROVE  IsJoin(all, lead, rest)
<1>1. PICK m \in Nat, n \in Nat : m = Len(lead) /\ n = Len(rest)
  BY LenProperties
<1>2. /\ all \in Seq(Steps) /\ Len(all) = m + n
      /\ \A i \in 1..m + n : all[i] = IF i <= m THEN lead[i] ELSE rest[i - m]
  BY <1>1, ConcatProperties
<1>3. \A i \in 1..m : i \in 1..m + n /\ i <= m
  OBVIOUS
<1>4. \A i \in 1..n : m + i \in 1..m + n /\ ~(m + i <= m) /\ m + i - m = i
  OBVIOUS
<1> QED
  BY <1>1, <1>2, <1>3, <1>4 DEF IsJoin

LEMMA HasJoined ==
  ASSUME NEW lead \in Seq(Steps), NEW rest \in Seq(Steps), NEW steps
  PROVE  Has(lead \o rest, steps) <=> Has(lead, steps) \/ Has(rest, steps)
<1>1. PICK all : all = lead \o rest
  OBVIOUS
<1>2. PICK m \in Nat, n \in Nat : m = Len(lead) /\ n = Len(rest)
  BY LenProperties
<1>3. /\ Len(all) = m + n
      /\ \A i \in 1..m : all[i] = lead[i]
      /\ \A i \in 1..n : all[m + i] = rest[i]
  BY <1>1, <1>2, Joined DEF IsJoin
<1>4. ASSUME NEW i \in 1..m + n, all[i] \in steps PROVE Has(lead, steps) \/ Has(rest, steps)
  <2>1. CASE i <= m
    BY <1>2, <1>3, <1>4, <2>1 DEF Has
  <2>2. CASE ~(i <= m)
    <3>1. PICK j \in 1..n : i = m + j
      <4>1. i - m \in 1..n /\ i = m + (i - m)
        BY <2>2
      <4> QED
        BY <4>1
    <3> QED
      BY <1>2, <1>3, <1>4, <3>1 DEF Has
  <2> QED
    BY <2>1, <2>2
<1>5. ASSUME NEW i \in 1..m, lead[i] \in steps PROVE Has(all, steps)
  <2>1. i \in 1..m + n
    OBVIOUS
  <2> QED
    BY <1>3, <1>5, <2>1 DEF Has
<1>6. ASSUME NEW i \in 1..n, rest[i] \in steps PROVE Has(all, steps)
  <2>1. m + i \in 1..m + n
    OBVIOUS
  <2> QED
    BY <1>3, <1>6, <2>1 DEF Has
<1> QED
  BY <1>1, <1>2, <1>3, <1>4, <1>5, <1>6 DEF Has

\* What may be put before the rest of the script, by the step it takes the place of.
LeadOf(head, lead) ==
  \/ lead = <<>>
  \/ head = "load" /\ lead = <<"truncate", "write">>
  \/ head = "funds" /\ lead = <<"airdrop", "await", "recheck">>
  \/ head = "open" /\ lead = <<"opening">>
  \/ head = "settle" /\ lead = <<"confirm">>

\* It leads to nothing but what the step it replaces leads to.
Fitting(head, lead) ==
  /\ lead \in Seq(Steps)
  /\ \A i \in 1..Len(lead) : /\ lead[i] \notin {"look", "open", "cluster", "load", "settle", "tokens", "funds"}
                             /\ lead[i] = "confirm" => head = "settle"
                             /\ Later(head) \subseteq Later(lead[i])
  /\ \A i, j \in 1..Len(lead) : i < j => lead[j] \in Later(lead[i])

LEMMA LeadFits ==
  ASSUME NEW head, NEW lead, LeadOf(head, lead)
  PROVE  Fitting(head, lead) /\ (lead # <<>> /\ head = "funds" => Has(lead, {"recheck"}))
<1>1. /\ "airdrop" \in Steps /\ "await" \in Steps /\ "recheck" \in Steps /\ "truncate" \in Steps
      /\ "write" \in Steps /\ "opening" \in Steps /\ "confirm" \in Steps
  BY DEF Steps, Before, After, Plain
<1>2. /\ {"load", "truncate", "write", "settle", "cluster", "read"} \subseteq Steps
      /\ {"cluster", "read"} \subseteq Steps
  BY DEF Steps, Before, After, Plain
<1>3. \A s : Later(s) \subseteq Steps
  BY <1>2 DEF Later
<1>4. CASE lead = <<>>
  BY <1>4 DEF Fitting
<1>5. CASE head = "load" /\ lead = <<"truncate", "write">>
  <2>1. /\ lead \in Seq(Steps) /\ Len(lead) = 2 /\ lead[1] = "truncate" /\ lead[2] = "write"
        /\ \A i \in 1..2 : i = 1 \/ i = 2
    BY <1>1, <1>5
  <2>2. Later("truncate") = Steps /\ Later("write") = Steps
    BY DEF Later
  <2> QED
    BY <1>1, <1>3, <1>5, <2>1, <2>2 DEF Fitting
<1>6. CASE head = "funds" /\ lead = <<"airdrop", "await", "recheck">>
  <2>1. /\ lead \in Seq(Steps) /\ Len(lead) = 3
        /\ lead[1] = "airdrop" /\ lead[2] = "await" /\ lead[3] = "recheck"
        /\ \A i \in 1..3 : i = 1 \/ i = 2 \/ i = 3
    BY <1>1, <1>6
  <2>2. Later("airdrop") = Steps /\ Later("await") = Steps /\ Later("recheck") = Steps
    BY DEF Later
  <2>3. Has(lead, {"recheck"})
    <3>1. 3 \in 1..3
      OBVIOUS
    <3> QED
      BY <2>1, <3>1 DEF Has
  <2> QED
    BY <1>1, <1>3, <1>6, <2>1, <2>2, <2>3 DEF Fitting
<1>7. CASE head = "open" /\ lead = <<"opening">>
  <2>1. lead \in Seq(Steps) /\ Len(lead) = 1 /\ lead[1] = "opening" /\ \A i \in 1..1 : i = 1
    BY <1>1, <1>7
  <2>2. Later("opening") = Later("open")
    BY DEF Later
  <2> QED
    BY <1>7, <2>1, <2>2 DEF Fitting
<1>8. CASE head = "settle" /\ lead = <<"confirm">>
  <2>1. lead \in Seq(Steps) /\ Len(lead) = 1 /\ lead[1] = "confirm" /\ \A i \in 1..1 : i = 1
    BY <1>1, <1>8
  <2>2. Later("confirm") = Later("settle")
    BY DEF Later
  <2> QED
    BY <1>8, <2>1, <2>2 DEF Fitting
<1> QED
  BY <1>4, <1>5, <1>6, <1>7, <1>8 DEF LeadOf

\* The steps of a script, one by one.
LEMMA PlanByStep ==
  ASSUME NEW r, NEW todo \in Seq(Steps), NEW n \in Nat, Len(todo) = n,
         \A i, j \in 1..n : i < j => todo[j] \in Later(todo[i]),
         \A i \in 1..n :
           /\ todo[i] = "look" =>
                setting.kind[r] = "wallet" /\ \E j \in i + 1..n : todo[j] = "funds"
           /\ todo[i] = "open" => Opener(r)
           /\ todo[i] = "cluster" => setting.kind[r] # "three"
  PROVE  Planned(r, todo)
BY Zenon DEF Planned

\* A script that goes on stays a plan.
LEMMA PlanGoesOn ==
  ASSUME NEW r, NEW todo, Planned(r, todo), todo # <<>>,
         NEW lead, Fitting(Head(todo), lead), NEW new, new = lead \o Tail(todo)
  PROVE  Planned(r, new)
<1>1. PICK rest, head : rest = Tail(todo) /\ head = Head(todo)
  OBVIOUS
<1>2. todo \in Seq(Steps) /\ lead \in Seq(Steps)
  BY DEF Planned, Fitting
<1>3. PICK l \in Nat, n \in Nat : l = Len(lead) /\ n = Len(rest)
  BY <1>1, <1>2, Rest, LenProperties
<1>4. /\ rest \in Seq(Steps) /\ Len(todo) = n + 1
      /\ \A i \in 1..n : rest[i] = todo[i + 1]
      /\ head = todo[1]
  <2>1. /\ rest \in Seq(Steps) /\ Len(todo) \in Nat \ {0} /\ n = Len(todo) - 1
        /\ \A i \in 1..n : rest[i] = todo[i + 1]
        /\ head = todo[1]
    BY <1>1, <1>2, <1>3, Rest
  <2> QED
    BY <2>1
<1>5. /\ new \in Seq(Steps) /\ Len(new) = l + n
      /\ \A i \in 1..l : new[i] = lead[i]
      /\ \A i \in 1..n : new[l + i] = todo[i + 1]
  BY <1>1, <1>2, <1>3, <1>4, Joined DEF IsJoin
<1>6. /\ \A i, j \in 1..n + 1 : i < j => todo[j] \in Later(todo[i])
      /\ \A i \in 1..n + 1 :
           /\ todo[i] = "look" =>
                setting.kind[r] = "wallet" /\ \E j \in i + 1..n + 1 : todo[j] = "funds"
           /\ todo[i] = "open" => Opener(r)
           /\ todo[i] = "cluster" => setting.kind[r] # "three"
  BY <1>4 DEF Planned
<1>7. \A i \in 1..l + n : i \in 1..l \/ \E k \in 1..n : i = l + k
  <2>1. ASSUME NEW i \in 1..l + n, i \notin 1..l PROVE \E k \in 1..n : i = l + k
    <3>1. i - l \in 1..n /\ i = l + (i - l)
      BY <2>1
    <3> QED
      BY <3>1
  <2> QED
    BY <2>1
<1>8. ASSUME NEW i \in 1..l + n, NEW j \in 1..l + n, i < j
      PROVE  new[j] \in Later(new[i])
  <2>1. CASE i \in 1..l /\ j \in 1..l
    BY <1>3, <1>5, <1>8, <2>1 DEF Fitting
  <2>2. ASSUME i \in 1..l, NEW k \in 1..n, j = l + k PROVE new[j] \in Later(new[i])
    <3>1. 1 \in 1..n + 1 /\ k + 1 \in 1..n + 1 /\ 1 < k + 1
      OBVIOUS
    <3>2. todo[k + 1] \in Later(head)
      BY <1>4, <1>6, <3>1
    <3>3. Later(head) \subseteq Later(lead[i])
      BY <1>1, <1>3, <2>2 DEF Fitting
    <3> QED
      BY <1>5, <2>2, <3>2, <3>3
  <2>3. ASSUME NEW h \in 1..n, i = l + h, NEW k \in 1..n, j = l + k PROVE new[j] \in Later(new[i])
    <3>1. h + 1 \in 1..n + 1 /\ k + 1 \in 1..n + 1 /\ h + 1 < k + 1
      BY <1>8, <2>3
    <3> QED
      BY <1>5, <1>6, <2>3, <3>1
  <2>4. ~(i \notin 1..l /\ j \in 1..l)
    BY <1>8
  <2> QED
    BY <1>7, <2>1, <2>2, <2>3, <2>4
<1>9. ASSUME NEW i \in 1..l + n
      PROVE  /\ new[i] = "look" =>
                  setting.kind[r] = "wallet" /\ \E j \in i + 1..l + n : new[j] = "funds"
             /\ new[i] = "open" => Opener(r)
             /\ new[i] = "cluster" => setting.kind[r] # "three"
  <2>1. CASE i \in 1..l
    BY <1>3, <1>5, <2>1 DEF Fitting
  <2>2. ASSUME NEW k \in 1..n, i = l + k
        PROVE  /\ new[i] = "look" =>
                    setting.kind[r] = "wallet" /\ \E j \in i + 1..l + n : new[j] = "funds"
               /\ new[i] = "open" => Opener(r)
               /\ new[i] = "cluster" => setting.kind[r] # "three"
    <3>1. k + 1 \in 1..n + 1 /\ new[i] = todo[k + 1]
      BY <1>5, <2>2
    <3>2. ASSUME new[i] = "look" PROVE \E j \in i + 1..l + n : new[j] = "funds"
      <4>1. PICK j \in k + 1 + 1..n + 1 : todo[j] = "funds"
        BY <1>6, <3>1, <3>2
      <4>2. j - 1 \in 1..n /\ j - 1 + 1 = j /\ l + (j - 1) \in i + 1..l + n
        BY <2>2, <4>1
      <4>3. new[l + (j - 1)] = "funds"
        BY <1>5, <4>1, <4>2
      <4> QED
        BY <4>2, <4>3
    <3> QED
      BY <1>6, <3>1, <3>2
  <2> QED
    BY <1>7, <2>1, <2>2
<1>10. PICK m \in Nat : m = l + n
  OBVIOUS
<1>11. \A i, j \in 1..m : i < j => new[j] \in Later(new[i])
  BY <1>8, <1>10
<1>12. \A i \in 1..m :
         /\ new[i] = "look" =>
              setting.kind[r] = "wallet" /\ \E j \in i + 1..m : new[j] = "funds"
         /\ new[i] = "open" => Opener(r)
         /\ new[i] = "cluster" => setting.kind[r] # "three"
  BY <1>9, <1>10
<1>13. new \in Seq(Steps) /\ Len(new) = m
  BY <1>5, <1>10
<1>14. \A i, j \in 1..Len(new) : i < j => new[j] \in Later(new[i])
  BY <1>11, <1>13
<1>15. \A i \in 1..Len(new) :
         /\ new[i] = "look" =>
              setting.kind[r] = "wallet" /\ \E j \in i + 1..Len(new) : new[j] = "funds"
         /\ new[i] = "open" => Opener(r)
         /\ new[i] = "cluster" => setting.kind[r] # "three"
  BY <1>12, <1>13
<1> QED
  BY <1>13, <1>14, <1>15, Zenon DEF Planned

\* Single steps are plans.
LEMMA PlanOfOne ==
  ASSUME NEW r, NEW step \in {"read", "delay"}
  PROVE  /\ Planned(r, <<step>>) /\ Head(<<step>>) = step
         /\ ~Has(<<step>>, {"open", "settle", "confirm", "load", "look"})
<1>1. PICK s : s = <<step>>
  OBVIOUS
<1>2. s \in Seq(Steps) /\ Len(s) = 1 /\ s[1] = step /\ Head(s) = step
  <2>1. step \in Steps
    BY DEF Steps, Before, Plain
  <2> QED
    BY <1>1, <2>1
<1>3. \A i \in 1..1 : i = 1
  OBVIOUS
<1>4. Planned(r, s)
  BY <1>2, <1>3 DEF Planned
<1>5. ~Has(s, {"open", "settle", "confirm", "load", "look"})
  BY <1>2, <1>3 DEF Has
<1> QED
  BY <1>1, <1>2, <1>4, <1>5

LEMMA LaterIs ==
  /\ \A s \in {"load", "funds", "cluster", "tokens", "look", "read"} : Later(s) = Steps
  /\ \A s \in {"load", "settle", "cluster", "read"} : s \in Later("open")
  /\ \A s \in {"cluster", "read"} : s \in Later("settle")
BY DEF Later

LEMMA ScriptsPlanned ==
  ASSUME setting \in Settings, NEW r \in Runs
  PROVE  /\ Planned(r, Script(r))
         /\ Has(Script(r), {"open", "settle", "confirm"}) => Has(Script(r), {"funds", "recheck"})
         /\ setting.kind[r] = "token" => Has(Script(r), {"tokens"})
         /\ setting.kind[r] \in {"token", "wallet"} => Head(Script(r)) = "cluster"
<1>1. /\ "cluster" \in Steps /\ "tokens" \in Steps /\ "funds" \in Steps /\ "open" \in Steps
      /\ "load" \in Steps /\ "settle" \in Steps /\ "read" \in Steps /\ "look" \in Steps
  BY DEF Steps, Before, Plain
<1>2. PICK kind, mode : kind = setting.kind[r] /\ mode = setting.mode[r]
  OBVIOUS
<1>3. kind \in {"three", "nway", "token", "wallet"} /\ mode \in {"dry", "system", "program"}
  BY <1>2, SettingIs
<1>4. PICK script : script = Script(r)
  OBVIOUS
<1>5. SUFFICES /\ Planned(r, script)
               /\ Has(script, {"open", "settle", "confirm"}) => Has(script, {"funds", "recheck"})
               /\ kind = "token" => Has(script, {"tokens"})
               /\ kind \in {"token", "wallet"} => Head(script) = "cluster"
  BY <1>2, <1>4
<1>6. CASE kind = "token"
  <2>1. script = <<"cluster", "tokens", "funds", "open", "load", "settle", "cluster", "read">>
    BY <1>2, <1>4, <1>6, Zenon DEF Script
  <2>2. /\ Len(script) = 8 /\ script[1] = "cluster" /\ script[2] = "tokens" /\ script[3] = "funds"
        /\ script[4] = "open" /\ script[5] = "load" /\ script[6] = "settle"
        /\ script[7] = "cluster" /\ script[8] = "read" /\ Head(script) = "cluster"
    BY <2>1
  <2>3. script \in Seq(Steps)
    BY <1>1, <2>1
  <2>4. ASSUME NEW i \in 1..8, NEW j \in 1..8, i < j PROVE script[j] \in Later(script[i])
    <3>1. script[j] \in Steps
      BY <1>1, <2>2, <2>4
    <3>2. CASE i \in {1, 2, 3, 5, 7, 8}
      BY <2>2, <3>1, <3>2, LaterIs
    <3>3. CASE i = 4
      <4>1. j = 5 \/ j = 6 \/ j = 7 \/ j = 8
        BY <2>4, <3>3
      <4> QED
        BY <2>2, <3>3, <4>1, LaterIs
    <3>4. CASE i = 6
      <4>1. j = 7 \/ j = 8
        BY <2>4, <3>4
      <4> QED
        BY <2>2, <3>4, <4>1, LaterIs
    <3> QED
      BY <3>2, <3>3, <3>4
  <2>5. \A i \in 1..8 : /\ script[i] # "look"
                        /\ script[i] = "open" => Opener(r)
                        /\ script[i] = "cluster" => setting.kind[r] # "three"
    BY <1>2, <1>6, <2>2 DEF Opener
  <2>6. Planned(r, script)
    BY <2>2, <2>3, <2>4, <2>5, PlanByStep
  <2>7. 2 \in 1..8 /\ 3 \in 1..8
    OBVIOUS
  <2> QED
    BY <2>2, <2>6, <2>7 DEF Has
<1>7. CASE kind = "wallet"
  <2>1. script = <<"cluster", "look", "funds", "settle", "cluster", "read">>
    <3>1. setting.kind[r] = "wallet" /\ setting.kind[r] # "token"
      BY <1>2, <1>7
    <3> QED
      BY <1>4, <3>1, Zenon DEF Script
  <2>2. /\ Len(script) = 6 /\ script[1] = "cluster" /\ script[2] = "look" /\ script[3] = "funds"
        /\ script[4] = "settle" /\ script[5] = "cluster" /\ script[6] = "read"
        /\ Head(script) = "cluster"
    BY <2>1
  <2>3. script \in Seq(Steps)
    BY <1>1, <2>1
  <2>4. ASSUME NEW i \in 1..6, NEW j \in 1..6, i < j PROVE script[j] \in Later(script[i])
    <3>1. script[j] \in Steps
      BY <1>1, <2>2, <2>4
    <3>2. CASE i \in {1, 2, 3, 5, 6}
      BY <2>2, <3>1, <3>2, LaterIs
    <3>3. CASE i = 4
      <4>1. j = 5 \/ j = 6
        BY <2>4, <3>3
      <4> QED
        BY <2>2, <3>3, <4>1, LaterIs
    <3> QED
      BY <3>2, <3>3
  <2>5. 3 \in 1..6 /\ \A i \in 1..6 : i = 2 => 3 \in i + 1..6
    OBVIOUS
  <2>6. \A i \in 1..6 :
          /\ script[i] = "look" =>
               setting.kind[r] = "wallet" /\ \E j \in i + 1..6 : script[j] = "funds"
          /\ script[i] = "open" => Opener(r)
          /\ script[i] = "cluster" => setting.kind[r] # "three"
    <3>1. \A i \in 1..6 : (script[i] = "look" => i = 2) /\ script[i] # "open"
      BY <2>2
    <3> QED
      BY <1>2, <1>7, <2>2, <2>5, <3>1
  <2>7. Planned(r, script)
    BY <2>2, <2>3, <2>4, <2>6, PlanByStep
  <2> QED
    BY <1>7, <2>2, <2>5, <2>7 DEF Has
<1>8. CASE kind \in {"three", "nway"} /\ mode = "dry"
  <2>1. script = <<"load">>
    BY <1>2, <1>4, <1>8 DEF Script
  <2>2. Len(script) = 1 /\ script[1] = "load" /\ \A i \in 1..1 : i = 1
    BY <2>1
  <2>3. script \in Seq(Steps)
    BY <1>1, <2>1
  <2>4. Planned(r, script)
    BY <2>2, <2>3, PlanByStep
  <2> QED
    BY <1>8, <2>2, <2>4 DEF Has
<1>9. CASE kind \in {"three", "nway"} /\ mode = "system"
  <2>1. script = <<"load", "funds", "settle">>
    BY <1>2, <1>4, <1>9 DEF Script
  <2>2. Len(script) = 3 /\ script[1] = "load" /\ script[2] = "funds" /\ script[3] = "settle"
    BY <2>1
  <2>3. script \in Seq(Steps)
    BY <1>1, <2>1
  <2>4. ASSUME NEW i \in 1..3, NEW j \in 1..3, i < j PROVE script[j] \in Later(script[i])
    <3>1. script[j] \in Steps /\ (i = 1 \/ i = 2)
      BY <1>1, <2>2, <2>4
    <3> QED
      BY <2>2, <3>1, LaterIs
  <2>5. \A i \in 1..3 : script[i] # "look" /\ script[i] # "open" /\ script[i] # "cluster"
    BY <2>2
  <2>6. Planned(r, script)
    BY <2>2, <2>3, <2>4, <2>5, PlanByStep
  <2>7. 2 \in 1..3
    OBVIOUS
  <2> QED
    BY <1>9, <2>2, <2>6, <2>7 DEF Has
<1>10. CASE kind \in {"three", "nway"} /\ mode = "program"
  <2>1. PICK start, rest :
          /\ start = <<"load", "funds", "open", "settle">>
          /\ rest = IF kind = "nway" THEN <<"cluster", "read">> ELSE <<>>
    OBVIOUS
  <2>2. script = start \o rest
    BY <1>2, <1>4, <1>10, <2>1 DEF Script
  <2>3. start \in Seq(Steps) /\ rest \in Seq(Steps) /\ Len(start) = 4
    BY <1>1, <2>1
  <2>4. PICK n \in {0, 2} : n = Len(rest) /\ (n = 2 => kind = "nway")
    BY <2>1
  <2>5. /\ script \in Seq(Steps) /\ Len(script) = 4 + n
        /\ \A i \in 1..4 : script[i] = start[i]
        /\ \A i \in 1..n : script[4 + i] = rest[i]
    <3>1. IsJoin(script, start, rest)
      BY <2>2, <2>3, Joined, Zenon
    <3> QED
      BY <2>3, <2>4, <3>1 DEF IsJoin
  <2>6. script[1] = "load" /\ script[2] = "funds" /\ script[3] = "open" /\ script[4] = "settle"
    BY <2>1, <2>5
  <2>7. n = 2 => script[5] = "cluster" /\ script[6] = "read"
    <3>1. ASSUME n = 2 PROVE script[4 + 1] = "cluster" /\ script[4 + 2] = "read"
      BY <2>1, <2>4, <2>5, <3>1
    <3> QED
      BY <3>1
  <2>8. \A i \in 1..4 + n : \/ i = 1 \/ i = 2 \/ i = 3 \/ i = 4
                            \/ n = 2 /\ (i = 5 \/ i = 6)
    OBVIOUS
  <2>9. ASSUME NEW i \in 1..4 + n, NEW j \in 1..4 + n, i < j PROVE script[j] \in Later(script[i])
    <3>1. script[j] \in Steps
      BY <1>1, <2>6, <2>7, <2>8
    <3>2. CASE i = 1 \/ i = 2 \/ (n = 2 /\ (i = 5 \/ i = 6))
      BY <2>6, <2>7, <3>1, <3>2, LaterIs
    <3>3. CASE i = 3
      <4>1. j = 4 \/ (n = 2 /\ (j = 5 \/ j = 6))
        BY <2>8, <2>9, <3>3
      <4> QED
        BY <2>6, <2>7, <3>3, <4>1, LaterIs
    <3>4. CASE i = 4
      <4>1. n = 2 /\ (j = 5 \/ j = 6)
        BY <2>8, <2>9, <3>4
      <4> QED
        BY <2>6, <2>7, <3>4, <4>1, LaterIs
    <3> QED
      BY <2>8, <3>2, <3>3, <3>4
  <2>10. Opener(r)
    BY <1>2, <1>10 DEF Opener
  <2>11. ASSUME NEW i \in 1..4 + n
         PROVE  script[i] # "look" /\ (script[i] = "cluster" => setting.kind[r] # "three")
    BY <1>2, <2>4, <2>6, <2>7, <2>8
  <2>12. 4 + n \in Nat
    OBVIOUS
  <2>13. Planned(r, script)
    BY <2>5, <2>9, <2>10, <2>11, <2>12, PlanByStep
  <2>14. 2 \in 1..4 + n
    OBVIOUS
  <2> QED
    BY <1>10, <2>5, <2>6, <2>13, <2>14 DEF Has
<1> QED
  BY <1>3, <1>6, <1>7, <1>8, <1>9, <1>10

LEMMA InitRefusable == ASSUME Init PROVE Refusable
<1>1. setting \in Settings /\ sent = {} /\ chain = <<>>
  BY DEF Init
<1>2. ASSUME NEW r \in Runs
      PROVE  /\ run[r].opens \in BOOLEAN /\ (run[r].opens => setting.kind[r] = "wallet")
             /\ Planned(r, run[r].todo) /\ Informed(r)
  <2>1. PICK script : script = Script(r)
    OBVIOUS
  <2>2. run[r].todo = script /\ run[r].opens = FALSE
    BY <2>1 DEF Init
  <2>3. /\ Planned(r, script)
        /\ Has(script, {"open", "settle", "confirm"}) => Has(script, {"funds", "recheck"})
        /\ setting.kind[r] = "token" => Has(script, {"tokens"})
        /\ setting.kind[r] \in {"token", "wallet"} => Head(script) = "cluster"
    BY <1>1, <2>1, ScriptsPlanned
  <2> QED
    BY <2>2, <2>3 DEF Informed, Astray
<1>3. PlansOk
  BY <1>2 DEF PlansOk
<1>4. SentOk /\ PaidOk
  BY <1>1 DEF SentOk, PaidOk, Tip
<1> QED
  BY <1>1, <1>3, <1>4 DEF Refusable

-----------------------------------------------------------------------------
(* What a step knows                                                       *)

Ready(r) ==
  /\ IsRun(run[r]) /\ run[r].result = "running" /\ run[r].todo # <<>>
  /\ Planned(r, run[r].todo) /\ run[r].opens \in BOOLEAN

\* What is kept and what is learnt when a step goes on.
Kept(r, me, lead) ==
  LET head == Head(run[r].todo)
  IN /\ me.opens \in BOOLEAN
     /\ head # "load" => me.wallets = run[r].wallets
     /\ head # "look" => me.opens = run[r].opens
     /\ head \notin {"funds", "recheck"} => me.checked = run[r].checked
     /\ head \in {"funds", "recheck"} /\ lead = <<>> =>
          me.checked \in Int /\ me.checked >= Needed(r)
     /\ head = "cluster" => setting.cluster = "devnet"
     /\ head = "tokens" => setting.tokens >= AMOUNT_BASE_UNITS

Onward(r, me) ==
  \E lead :
    /\ LeadOf(Head(run[r].todo), lead) /\ Kept(r, me, lead)
    /\ me.todo = lead \o Tail(run[r].todo)

Same(r, me) ==
  me.wallets = run[r].wallets /\ me.opens = run[r].opens /\ me.checked = run[r].checked

\* The run asks for its evidence again.
Again(r, me) ==
  /\ Same(r, me) /\ Head(run[r].todo) \in {"read", "delay"}
  /\ me.todo = <<"read">> \/ me.todo = <<"delay">>

Stays(r, me) == Same(r, me) /\ me.todo = run[r].todo

Over(r, me) ==
  me.result # "running" /\ me.opens = run[r].opens /\ me.wallets = run[r].wallets

Goes(r, me) ==
  /\ run' = [run EXCEPT ![r] = me] /\ UNCHANGED <<setting, chain, final>>
  /\ Ready(r)
  /\ \/ /\ Onward(r, me)
        /\ \/ sent' = sent
           \/ \E op \in {"airdrop", "open", "settle"} :
                Head(run[r].todo) = op /\ sent' = sent \cup {Tx(r, op)}
     \/ (Again(r, me) \/ Stays(r, me) \/ Over(r, me)) /\ sent' = sent

LEMMA OnwardBy ==
  ASSUME NEW r, Ready(r), NEW n, IsRun(n), NEW lead,
         LeadOf(Head(run[r].todo), lead), Kept(r, n, lead),
         NEW me, me = Proceeds(n, lead \o Tail(run[r].todo))
  PROVE  Onward(r, me)
<1>1. PICK todo : todo = lead \o Tail(run[r].todo)
  OBVIOUS
<1>2. /\ me.todo = todo /\ me.wallets = n.wallets /\ me.opens = n.opens
      /\ me.checked = n.checked
  <2>1. me = Proceeds(n, todo)
    BY <1>1
  <2> QED
    BY <2>1, ProceedsIs
<1>3. Kept(r, me, lead)
  BY <1>2 DEF Kept
<1> QED
  BY <1>1, <1>2, <1>3 DEF Onward

LEMMA PassBy ==
  ASSUME NEW r, Ready(r), NEW n, IsRun(n), n.todo = run[r].todo, Kept(r, n, <<>>),
         NEW me, me = Passes(n)
  PROVE  Onward(r, me)
<1>1. PICK rest : rest = Tail(run[r].todo)
  OBVIOUS
<1>2. rest \in Seq(Steps)
  BY <1>1, EmptySeq, Rest DEF Ready, Planned
<1>3. <<>> \o rest = rest
  BY <1>2, ConcatEmptySeq
<1>4. me = Proceeds(n, <<>> \o Tail(run[r].todo))
  BY <1>1, <1>3 DEF Passes
<1>5. LeadOf(Head(run[r].todo), <<>>)
  BY DEF LeadOf
<1> QED
  BY <1>4, <1>5, OnwardBy

\* A step that learns nothing of what matters here.
LEMMA PlainGoes ==
  ASSUME NEW r, Ready(r), Head(run[r].todo) \notin {"load", "look", "funds", "recheck"},
         Head(run[r].todo) = "cluster" => setting.cluster = "devnet",
         Head(run[r].todo) = "tokens" => setting.tokens >= AMOUNT_BASE_UNITS
  PROVE  /\ Onward(r, Passes(run[r]))
         /\ \A lead : LeadOf(Head(run[r].todo), lead) =>
              Onward(r, Proceeds(run[r], lead \o Tail(run[r].todo)))
<1>1. IsRun(run[r]) /\ \A lead : Kept(r, run[r], lead)
  BY DEF Kept, Ready
<1> QED
  BY <1>1, PassBy, OnwardBy

LEMMA EndsOver ==
  ASSUME NEW r, Ready(r), NEW result, result # "running"
  PROVE  Over(r, Ends(run[r], result))
<1>1. PICK me : me = Ends(run[r], result)
  OBVIOUS
<1>2. Over(r, me)
  BY <1>1, EndsIs DEF Over, Ready
<1> QED
  BY <1>1, <1>2

LEMMA TokensKnown ==
  ASSUME setting \in Settings, ChainOk, NEW view \in Views
  PROVE  /\ TokensLeft(view) \in Int /\ TokensLeft(view) <= setting.tokens
         /\ TokenSettlements(view) = {} => TokensLeft(view) = setting.tokens
<1>1. view \in Nat
  BY LenProperties DEF ChainOk, Tip, Views
<1>2. IsFiniteSet(1..view)
  BY <1>1, FS_Interval
<1>3. PICK S : S = TokenSettlements(view)
  OBVIOUS
<1>4. S \subseteq 1..view
  BY <1>3 DEF TokenSettlements, Succeeded
<1>5. PICK c \in Nat : c = Cardinality(S)
  BY <1>2, <1>4, FS_Subset, FS_CardinalityType
<1>6. S = {} => c = 0
  BY <1>5, FS_EmptySet
<1>7. setting.tokens \in Nat
  BY SettingIs
<1> QED
  BY <1>3, <1>5, <1>6, <1>7 DEF TokensLeft, AMOUNT_BASE_UNITS

LEMMA PlainStepsGo ==
  ASSUME setting \in Settings, ChainOk, NEW r \in Runs, Ready(r),
         \/ Truncate(r) \/ Write(r) \/ Airdrop(r) \/ Await(r) \/ Tokens(r) \/ Opening(r)
         \/ Cluster(r) \/ Confirm(r)
  PROVE  \E me : Goes(r, me)
<1>1. PICK head : head = Head(run[r].todo)
  OBVIOUS
<1>2. UNCHANGED <<setting, chain, final>>
  BY DEF Truncate, Write, Airdrop, Await, Tokens, Opening, Cluster, Confirm
<1>3. ASSUME head \notin {"load", "look", "funds", "recheck"},
             head = "cluster" => setting.cluster = "devnet",
             head = "tokens" => setting.tokens >= AMOUNT_BASE_UNITS,
             Becomes(r, Passes(run[r])),
             sent' = sent \/ \E op \in {"airdrop", "open", "settle"} :
                               head = op /\ sent' = sent \cup {Tx(r, op)}
      PROVE  \E me : Goes(r, me)
  <2>1. Onward(r, Passes(run[r]))
    BY <1>1, <1>3, PlainGoes
  <2> QED
    BY <1>1, <1>2, <1>3, <2>1 DEF Goes, Becomes
<1>4. ASSUME NEW result, result # "running", Becomes(r, Ends(run[r], result)), sent' = sent
      PROVE  \E me : Goes(r, me)
  <2>1. Over(r, Ends(run[r], result))
    BY <1>4, EndsOver
  <2> QED
    BY <1>2, <1>4, <2>1 DEF Goes, Becomes
<1>5. CASE Truncate(r) \/ Write(r)
  <2>1. head \in {"truncate", "write"} /\ Becomes(r, Passes(run[r])) /\ sent' = sent
    BY <1>1, <1>5 DEF Truncate, Write, At
  <2> QED
    BY <1>3, <2>1
<1>6. CASE Airdrop(r)
  <2>1. /\ head = "airdrop"
        /\ \/ sent' = sent \cup {Tx(r, "airdrop")} /\ Becomes(r, Passes(run[r]))
           \/ Becomes(r, Ends(run[r], "AIRDROP")) /\ sent' = sent
    BY <1>1, <1>6 DEF Airdrop, At, Sends
  <2> QED
    BY <1>3, <1>4, <2>1
<1>7. CASE Await(r)
  <2>1. /\ head = "await" /\ sent' = sent
        /\ Becomes(r, Passes(run[r])) \/ Becomes(r, Ends(run[r], "AIRDROP"))
    BY <1>1, <1>7 DEF Await, At
  <2> QED
    BY <1>3, <1>4, <2>1
<1>8. CASE Tokens(r)
  <2>1. PICK view \in Views :
          Becomes(r, IF TokensLeft(view) >= AMOUNT_BASE_UNITS THEN Passes(run[r])
                     ELSE Ends(run[r], "NO_TOKENS"))
    BY <1>8 DEF Tokens
  <2>2. head = "tokens" /\ sent' = sent
    BY <1>1, <1>8 DEF Tokens, At
  <2>3. CASE TokensLeft(view) >= AMOUNT_BASE_UNITS
    <3>1. setting.tokens >= AMOUNT_BASE_UNITS
      BY <2>3, TokensKnown, SettingIs DEF AMOUNT_BASE_UNITS
    <3> QED
      BY <1>3, <2>1, <2>2, <2>3, <3>1
  <2>4. CASE ~(TokensLeft(view) >= AMOUNT_BASE_UNITS)
    BY <1>4, <2>1, <2>2, <2>4
  <2> QED
    BY <2>3, <2>4
<1>9. CASE Opening(r)
  <2>1. /\ head = "opening" /\ sent' = sent
        /\ Becomes(r, Passes(run[r])) \/ Becomes(r, Ends(run[r], "UNKNOWN"))
    BY <1>1, <1>9 DEF Opening, At
  <2> QED
    BY <1>3, <1>4, <2>1
<1>10. CASE Cluster(r)
  <2>1. /\ head = "cluster" /\ sent' = sent
        /\ \/ setting.cluster = "devnet" /\ Becomes(r, Passes(run[r]))
           \/ Becomes(r, Ends(run[r], "CLUSTER_MISMATCH"))
    BY <1>1, <1>10 DEF Cluster, At
  <2> QED
    BY <1>3, <1>4, <2>1
<1>11. CASE Confirm(r)
  <2>1. /\ head = "confirm" /\ sent' = sent
        /\ \/ Becomes(r, Passes(run[r])) \/ Becomes(r, Ends(run[r], "FAILED"))
           \/ Becomes(r, Ends(run[r], "UNKNOWN"))
    BY <1>1, <1>11 DEF Confirm, At
  <2> QED
    BY <1>3, <1>4, <2>1
<1> QED
  BY <1>5, <1>6, <1>7, <1>8, <1>9, <1>10, <1>11

LEMMA PayingStepsGo ==
  ASSUME NEW r \in Runs, Ready(r), Open(r) \/ Settle(r)
  PROVE  \E me : Goes(r, me)
<1>1. PICK head : head = Head(run[r].todo)
  OBVIOUS
<1>2. UNCHANGED <<setting, chain, final>> /\ head \in {"open", "settle"}
  BY <1>1 DEF Open, Settle, At
<1>3. /\ Onward(r, Passes(run[r]))
      /\ \A lead : LeadOf(head, lead) =>
           Onward(r, Proceeds(run[r], lead \o Tail(run[r].todo)))
  BY <1>1, <1>2, PlainGoes
<1>4. ASSUME NEW result, result # "running", Becomes(r, Ends(run[r], result)), sent' = sent
      PROVE  \E me : Goes(r, me)
  <2>1. Over(r, Ends(run[r], result))
    BY <1>4, EndsOver
  <2> QED
    BY <1>2, <1>4, <2>1 DEF Goes, Becomes
<1>5. ASSUME NEW me, Onward(r, me), Becomes(r, me),
             sent' = sent \/ (head = "open" /\ sent' = sent \cup {Tx(r, "open")})
                          \/ (head = "settle" /\ sent' = sent \cup {Tx(r, "settle")})
      PROVE  \E n : Goes(r, n)
  BY <1>1, <1>2, <1>5 DEF Goes, Becomes
<1>6. ASSUME NEW error, error \in {"ok", "OPENED", "NAMESPACE", "TOKENS", "LAMPORTS"}
      PROVE  error # "running"
  BY <1>6
<1>7. CASE Open(r)
  <2>2. \A node : Error(Tx(r, "open"), node) # "running"
    BY <1>6, ErrorIs
  <2>3. head = "open"
    BY <1>1, <1>7 DEF Open, At
  <2>4. \/ Becomes(r, Passes(run[r])) /\ sent' = sent
        \/ /\ sent' = sent \cup {Tx(r, "open")}
           /\ Becomes(r, Proceeds(run[r], <<"opening">> \o Tail(run[r].todo)))
        \/ \E node : Becomes(r, Ends(run[r], Error(Tx(r, "open"), node))) /\ sent' = sent
    BY <1>7 DEF Open, Sends
  <2>5. LeadOf(head, <<"opening">>)
    BY <2>3 DEF LeadOf
  <2> QED
    BY <1>3, <1>4, <1>5, <2>2, <2>3, <2>4, <2>5
<1>8. CASE Settle(r)
  <2>1. PICK waiting : waiting = IF setting.kind[r] = "wallet" THEN <<>> ELSE <<"confirm">>
    OBVIOUS
  <2>2. \A node : Error(Tx(r, "settle"), node) # "running"
    BY <1>6, ErrorIs
  <2>3. head = "settle"
    BY <1>1, <1>8 DEF Settle, At
  <2>4. \/ /\ sent' = sent \cup {Tx(r, "settle")}
           /\ Becomes(r, Proceeds(run[r], waiting \o Tail(run[r].todo)))
        \/ \E node : Becomes(r, Ends(run[r], Error(Tx(r, "settle"), node))) /\ sent' = sent
    BY <1>8, <2>1 DEF Settle, Sends
  <2>5. LeadOf(head, waiting)
    BY <2>1, <2>3 DEF LeadOf
  <2> QED
    BY <1>3, <1>4, <1>5, <2>2, <2>3, <2>4, <2>5
<1> QED
  BY <1>7, <1>8

LEMMA FundsStepsGo ==
  ASSUME setting \in Settings, ChainOk, PaidOk, NEW r \in Runs, Ready(r), Funds(r) \/ Recheck(r)
  PROVE  \E me : Goes(r, me)
<1>1. PICK head : head = Head(run[r].todo)
  OBVIOUS
<1>2. UNCHANGED <<setting, chain, final>> /\ sent' = sent /\ head \in {"funds", "recheck"}
  BY <1>1 DEF Funds, Recheck, At
<1>3. ASSUME NEW view \in Views PROVE Lamports(view) \in Int
  <2>1. view \in Nat /\ \A k \in 1..view : k \in 1..Tip
    BY LenProperties DEF ChainOk, Tip, Views
  <2> QED
    BY <2>1, LamportsInt DEF PaidOk
<1>4. ASSUME NEW balance \in Int, balance >= Needed(r), Becomes(r, Funded(r, balance))
      PROVE  \E me : Goes(r, me)
  <2>1. PICK n : n = [run[r] EXCEPT !.checked = balance]
    OBVIOUS
  <2>2. IsRun(n) /\ n.todo = run[r].todo /\ Kept(r, n, <<>>)
    BY <1>1, <1>2, <1>4, <2>1 DEF Kept, IsRun, Ready
  <2>3. PICK me : me = Passes(n)
    OBVIOUS
  <2>4. Onward(r, me)
    BY <2>2, <2>3, PassBy
  <2> QED
    BY <1>2, <1>4, <2>1, <2>3, <2>4 DEF Goes, Becomes, Funded
<1>5. ASSUME Becomes(r, Ends(run[r], "SHORT")) PROVE \E me : Goes(r, me)
  <2>1. Over(r, Ends(run[r], "SHORT"))
    BY EndsOver
  <2> QED
    BY <1>2, <1>5, <2>1 DEF Goes, Becomes
<1>6. CASE Funds(r)
  <2>1. PICK view \in Views :
          Becomes(r, IF Lamports(view) >= Needed(r) THEN Funded(r, Lamports(view))
                     ELSE IF setting.kind[r] = "wallet" THEN Ends(run[r], "SHORT")
                     ELSE Proceeds(run[r], <<"airdrop", "await", "recheck">> \o Tail(run[r].todo)))
    BY <1>6 DEF Funds
  <2>2. PICK balance \in Int : balance = Lamports(view)
    BY <1>3
  <2>3. head = "funds"
    BY <1>1, <1>6 DEF Funds, At
  <2>4. ASSUME Becomes(r, Proceeds(run[r], <<"airdrop", "await", "recheck">> \o Tail(run[r].todo)))
        PROVE  \E me : Goes(r, me)
    <3>1. PICK lead : lead = <<"airdrop", "await", "recheck">>
      OBVIOUS
    <3>2. LeadOf(head, lead) /\ lead # <<>>
      BY <2>3, <3>1 DEF LeadOf
    <3>3. Kept(r, run[r], lead) /\ IsRun(run[r])
      BY <1>1, <2>3, <3>2 DEF Kept, Ready
    <3>4. PICK me : me = Proceeds(run[r], lead \o Tail(run[r].todo))
      OBVIOUS
    <3>5. Onward(r, me)
      BY <1>1, <3>2, <3>3, <3>4, OnwardBy
    <3> QED
      BY <1>2, <2>4, <3>1, <3>4, <3>5 DEF Goes, Becomes
  <2>5. CASE balance >= Needed(r)
    BY <1>4, <2>1, <2>2, <2>5
  <2>6. CASE ~(balance >= Needed(r)) /\ setting.kind[r] = "wallet"
    BY <1>5, <2>1, <2>2, <2>6
  <2>7. CASE ~(balance >= Needed(r)) /\ setting.kind[r] # "wallet"
    BY <2>1, <2>2, <2>4, <2>7
  <2> QED
    BY <2>5, <2>6, <2>7
<1>7. CASE Recheck(r)
  <2>1. PICK view \in Views :
          Becomes(r, IF Lamports(view) >= Needed(r) THEN Funded(r, Lamports(view))
                     ELSE Ends(run[r], "SHORT"))
    BY <1>7 DEF Recheck
  <2>2. PICK balance \in Int : balance = Lamports(view)
    BY <1>3
  <2>3. CASE balance >= Needed(r)
    BY <1>4, <2>1, <2>2, <2>3
  <2>4. CASE ~(balance >= Needed(r))
    BY <1>5, <2>1, <2>2, <2>4
  <2> QED
    BY <2>3, <2>4
<1> QED
  BY <1>6, <1>7

LEMMA LookLoadGo ==
  ASSUME NEW r \in Runs, Ready(r), Look(r) \/ Load(r)
  PROVE  \E me : Goes(r, me)
<1>1. PICK head : head = Head(run[r].todo)
  OBVIOUS
<1>2. UNCHANGED <<setting, chain, final>> /\ sent' = sent
  BY DEF Look, Load
<1>3. CASE Look(r)
  <2>1. PICK opens \in BOOLEAN : Becomes(r, Passes([run[r] EXCEPT !.opens = opens]))
    <3>1. PICK view \in Views : Becomes(r, Passes([run[r] EXCEPT !.opens = ~IsOpen(view)]))
      BY <1>3 DEF Look
    <3>2. PICK opens : opens = ~IsOpen(view)
      OBVIOUS
    <3>3. opens \in BOOLEAN
      BY <3>2, Zenon DEF IsOpen
    <3> QED
      BY <3>1, <3>2, <3>3
  <2>2. PICK n : n = [run[r] EXCEPT !.opens = opens]
    OBVIOUS
  <2>3. head = "look"
    BY <1>1, <1>3 DEF Look, At
  <2>4. IsRun(n) /\ n.todo = run[r].todo /\ Kept(r, n, <<>>)
    BY <1>1, <2>1, <2>2, <2>3 DEF Kept, IsRun, Ready
  <2>5. PICK me : me = Passes(n)
    OBVIOUS
  <2>6. Onward(r, me)
    BY <2>4, <2>5, PassBy
  <2>7. Becomes(r, me)
    BY <2>1, <2>2, <2>5
  <2> QED
    BY <1>2, <2>6, <2>7 DEF Goes, Becomes
<1>4. CASE Load(r)
  <2>1. PICK read, writing :
          /\ read = [run[r] EXCEPT !.seen = file.wallets,
                                   !.wallets = Recipients(r, file.wallets)]
          /\ writing = IF Generates(r, file.wallets) THEN <<"truncate", "write">> ELSE <<>>
    OBVIOUS
  <2>2. /\ head = "load"
        /\ \/ Becomes(r, Ends(run[r], "PARSE"))
           \/ Becomes(r, Proceeds(read, writing \o Tail(run[r].todo)))
    BY <1>1, <1>4, <2>1 DEF Load, At
  <2>3. IsRun(read) /\ Kept(r, read, writing)
    BY <1>1, <2>1, <2>2 DEF Kept, IsRun, Ready
  <2>4. LeadOf(head, writing)
    BY <2>1, <2>2 DEF LeadOf
  <2>5. PICK me : me = Proceeds(read, writing \o Tail(run[r].todo))
    OBVIOUS
  <2>6. Onward(r, me)
    BY <1>1, <2>3, <2>4, <2>5, OnwardBy
  <2>7. Over(r, Ends(run[r], "PARSE"))
    BY EndsOver
  <2> QED
    BY <1>2, <2>2, <2>5, <2>6, <2>7 DEF Goes, Becomes
<1> QED
  BY <1>3, <1>4

LEMMA EvidenceStepsGo ==
  ASSUME NEW r \in Runs, Ready(r), Read(r) \/ Resume(r) \/ Tick(r) \/ Stop(r)
  PROVE  \E me : Goes(r, me)
<1>1. PICK head : head = Head(run[r].todo)
  OBVIOUS
<1>2. UNCHANGED <<setting, chain, final>> /\ sent' = sent /\ IsRun(run[r])
  BY DEF Read, Resume, Tick, Stop, Ready
<1>3. ASSUME NEW result, result # "running", Becomes(r, Ends(run[r], result))
      PROVE  \E me : Goes(r, me)
  <2>1. Over(r, Ends(run[r], result))
    BY <1>3, EndsOver
  <2> QED
    BY <1>2, <1>3, <2>1 DEF Goes, Becomes
<1>4. ASSUME NEW n, IsRun(n), Same(r, n), NEW todo \in {<<"read">>, <<"delay">>},
             head \in {"read", "delay"}, Becomes(r, Proceeds(n, todo))
      PROVE  \E me : Goes(r, me)
  <2>1. PICK me : me = Proceeds(n, todo)
    OBVIOUS
  <2>2. Again(r, me)
    BY <1>1, <1>4, <2>1, ProceedsIs DEF Again, Same
  <2> QED
    BY <1>2, <1>4, <2>1, <2>2 DEF Goes, Becomes
<1>5. CASE Read(r)
  <2>1. PICK n : n = [run[r] EXCEPT
                        !.left = Smaller(Poll, Larger(0, Timeout - run[r].elapsed)),
                        !.heard = run[r].elapsed]
    OBVIOUS
  <2>2. IsRun(n) /\ Same(r, n)
    BY <1>2, <2>1 DEF IsRun, Same
  <2>3. head = "read"
    BY <1>1, <1>5 DEF Read, At
  <2>4. \/ Becomes(r, Proceeds(n, <<"delay">>))
        \/ \E k \in Evidence(r) :
             Becomes(r, Ends(run[r], IF chain[k].error = "ok" THEN "MATCH" ELSE "TX_FAILED"))
    BY <1>5, <2>1 DEF Read
  <2>5. \/ Becomes(r, Proceeds(n, <<"delay">>))
        \/ Becomes(r, Ends(run[r], "MATCH")) \/ Becomes(r, Ends(run[r], "TX_FAILED"))
    BY <2>4
  <2> QED
    BY <1>3, <1>4, <2>2, <2>3, <2>5
<1>6. CASE Resume(r)
  <2>1. /\ head = "delay"
        /\ \/ Becomes(r, Proceeds(run[r], <<"read">>))
           \/ Becomes(r, Ends(run[r], "TX_NOT_FOUND"))
    BY <1>1, <1>6 DEF Resume, At
  <2> QED
    BY <1>2, <1>3, <1>4, <2>1 DEF Same
<1>7. CASE Tick(r)
  <2>1. PICK me : me = [run[r] EXCEPT !.elapsed = @ + 1, !.left = Larger(0, @ - 1)]
    OBVIOUS
  <2>2. Stays(r, me)
    BY <1>2, <2>1 DEF IsRun, Stays, Same
  <2>3. Becomes(r, me)
    BY <1>7, <2>1 DEF Tick
  <2> QED
    BY <1>2, <2>2, <2>3 DEF Goes, Becomes
<1>8. CASE Stop(r)
  <2>1. PICK n : n = Ends(run[r], "stopped")
    OBVIOUS
  <2>2. PICK me : me = [n EXCEPT !.checked = 0, !.elapsed = 0, !.left = 0, !.heard = 0]
    OBVIOUS
  <2>3. IsRun(n) /\ n.wallets = run[r].wallets /\ n.opens = run[r].opens /\ n.result = "stopped"
    BY <1>2, <2>1, EndsIs
  <2>4. Over(r, me)
    BY <2>2, <2>3 DEF IsRun, Over
  <2>5. Becomes(r, me)
    BY <1>8, <2>1, <2>2 DEF Stop
  <2> QED
    BY <1>2, <2>4, <2>5 DEF Goes, Becomes
<1> QED
  BY <1>5, <1>6, <1>7, <1>8

LEMMA EveryStepGoes ==
  ASSUME IInv, Refusable, NEW r \in Runs, Step(r) \/ Stop(r)
  PROVE  \E me : Goes(r, me)
<1>1. setting \in Settings /\ ChainOk /\ PaidOk
  BY DEF IInv, Refusable
<1>2. RunOk(r, run[r])
  BY DEF IInv, RunsOk
<1>3. run[r].result = "running"
  BY <1>2, EveryStep DEF StepsTo
<1>4. Ready(r)
  BY <1>2, <1>3 DEF Ready, RunOk, Refusable, PlansOk
<1>5. CASE Funds(r) \/ Recheck(r)
  BY <1>1, <1>4, <1>5, FundsStepsGo
<1>6. CASE Look(r) \/ Load(r) \/ Open(r) \/ Settle(r)
  BY <1>4, <1>6, LookLoadGo, PayingStepsGo
<1>7. CASE \/ Truncate(r) \/ Write(r) \/ Airdrop(r) \/ Await(r) \/ Tokens(r) \/ Opening(r)
           \/ Cluster(r) \/ Confirm(r)
  BY <1>1, <1>4, <1>7, PlainStepsGo
<1>8. CASE Read(r) \/ Resume(r) \/ Tick(r) \/ Stop(r)
  BY <1>4, <1>8, EvidenceStepsGo
<1> QED
  BY <1>5, <1>6, <1>7, <1>8 DEF Step

-----------------------------------------------------------------------------
(* What a run knows                                                        *)

\* The rest of a script after a step, and what was put before it.
LEMMA OnwardPlan ==
  ASSUME NEW r, Ready(r), NEW me, NEW lead,
         LeadOf(Head(run[r].todo), lead), me.todo = lead \o Tail(run[r].todo)
  PROVE  /\ Planned(r, me.todo) /\ Fitting(Head(run[r].todo), lead)
         /\ lead # <<>> /\ Head(run[r].todo) = "funds" => Has(lead, {"recheck"})
         /\ \A steps : Has(me.todo, steps) <=> Has(lead, steps) \/ Has(Tail(run[r].todo), steps)
         /\ \A steps : Has(run[r].todo, steps) <=>
              Head(run[r].todo) \in steps \/ Has(Tail(run[r].todo), steps)
<1>1. PICK todo, new : todo = run[r].todo /\ new = me.todo
  OBVIOUS
<1>2. todo \in Seq(Steps) /\ todo # <<>> /\ Planned(r, todo) /\ new = lead \o Tail(todo)
  BY <1>1 DEF Ready, Planned
<1>3. /\ Fitting(Head(todo), lead)
      /\ lead # <<>> /\ Head(todo) = "funds" => Has(lead, {"recheck"})
  BY <1>1, LeadFits
<1>4. Planned(r, new)
  BY <1>2, <1>3, PlanGoesOn
<1>5. Tail(todo) \in Seq(Steps) /\ lead \in Seq(Steps)
  BY <1>2, <1>3, EmptySeq, Rest DEF Fitting
<1>6. \A steps : Has(new, steps) <=> Has(lead, steps) \/ Has(Tail(todo), steps)
  BY <1>2, <1>5, HasJoined
<1>7. \A steps : Has(todo, steps) <=> Head(todo) \in steps \/ Has(Tail(todo), steps)
  BY <1>2, HasRest
<1> QED
  BY <1>1, <1>3, <1>4, <1>6, <1>7

\* What comes after the head of a plan.
LEMMA AfterHead ==
  ASSUME NEW r, Ready(r), NEW steps, Has(Tail(run[r].todo), steps)
  PROVE  \E step \in steps : step \in Later(Head(run[r].todo))
<1>1. PICK todo, rest : todo = run[r].todo /\ rest = Tail(todo)
  OBVIOUS
<1>2. /\ todo \in Seq(Steps) /\ todo # <<>>
      /\ \A i, j \in 1..Len(todo) : i < j => todo[j] \in Later(todo[i])
  BY <1>1 DEF Ready, Planned
<1>3. /\ Len(todo) \in Nat \ {0} /\ Len(rest) = Len(todo) - 1
      /\ \A i \in 1..Len(rest) : rest[i] = todo[i + 1]
      /\ Head(todo) = todo[1]
  BY <1>1, <1>2, EmptySeq, Rest
<1>4. PICK i \in 1..Len(rest) : rest[i] \in steps
  BY <1>1 DEF Has
<1>5. 1 \in 1..Len(todo) /\ i + 1 \in 1..Len(todo) /\ 1 < i + 1
  BY <1>3, <1>4
<1> QED
  BY <1>1, <1>2, <1>3, <1>4, <1>5

LEMMA HeadPlanned ==
  ASSUME NEW r, Ready(r)
  PROVE  /\ Head(run[r].todo) = "open" => Opener(r)
         /\ Head(run[r].todo) = "cluster" => setting.kind[r] # "three"
         /\ Head(run[r].todo) = "look" =>
              setting.kind[r] = "wallet" /\ Has(Tail(run[r].todo), {"funds"})
<1>1. PICK todo, rest : todo = run[r].todo /\ rest = Tail(todo)
  OBVIOUS
<1>2. /\ todo \in Seq(Steps) /\ todo # <<>>
      /\ \A i \in 1..Len(todo) :
           /\ todo[i] = "look" =>
                setting.kind[r] = "wallet" /\ \E j \in i + 1..Len(todo) : todo[j] = "funds"
           /\ todo[i] = "open" => Opener(r)
           /\ todo[i] = "cluster" => setting.kind[r] # "three"
  BY <1>1 DEF Ready, Planned
<1>3. /\ Len(todo) \in Nat \ {0} /\ Len(rest) = Len(todo) - 1
      /\ \A i \in 1..Len(rest) : rest[i] = todo[i + 1]
      /\ Head(todo) = todo[1] /\ 1 \in 1..Len(todo)
  BY <1>1, <1>2, EmptySeq, Rest
<1>4. ASSUME todo[1] = "look" PROVE Has(rest, {"funds"})
  <2>1. PICK j \in 1 + 1..Len(todo) : todo[j] = "funds"
    BY <1>2, <1>3, <1>4
  <2>2. j - 1 \in 1..Len(rest) /\ rest[j - 1] = "funds"
    <3>1. j - 1 \in 1..Len(rest) /\ j - 1 + 1 = j
      BY <1>3, <2>1
    <3> QED
      BY <1>3, <2>1, <3>1
  <2> QED
    BY <2>2 DEF Has
<1> QED
  BY <1>1, <1>2, <1>3, <1>4

\* Nothing but the step it replaces could have put these before the rest.
LEMMA LeadLacks ==
  ASSUME NEW head, NEW lead, Fitting(head, lead)
  PROVE  /\ ~Has(lead, {"load", "look", "open", "settle"}) /\ ~Has(lead, {"open"})
         /\ ~Has(lead, {"settle"})
         /\ Has(lead, {"open", "settle", "confirm"}) => head = "settle"
BY DEF Fitting, Has

\* What a run knew before the step, restated for what the step makes of it.
LEMMA InformedOnward ==
  ASSUME NEW r, Ready(r), NEW me, Onward(r, me), Informed(r),
         me.opens # run[r].opens => Head(run[r].todo) = "look",
         NEW needed, me.opens = run[r].opens => needed = Needed(r)
  PROVE  /\ Planned(r, me.todo)
         /\ Has(me.todo, {"open", "settle", "confirm"}) /\ ~Has(me.todo, {"funds", "recheck"}) =>
              me.checked \in Int /\ me.checked >= needed
         /\ setting.kind[r] = "token" /\ Has(me.todo, {"settle"}) /\ ~Has(me.todo, {"tokens"}) =>
              setting.tokens >= AMOUNT_BASE_UNITS
         /\ ~Astray(r)
<1>1. PICK lead : /\ LeadOf(Head(run[r].todo), lead) /\ Kept(r, me, lead)
                  /\ me.todo = lead \o Tail(run[r].todo)
  BY DEF Onward
<1>2. PICK head, rest, todo, new :
        head = Head(run[r].todo) /\ rest = Tail(run[r].todo) /\ todo = run[r].todo /\ new = me.todo
  OBVIOUS
<1>3. /\ Planned(r, new) /\ Fitting(head, lead)
      /\ lead # <<>> /\ head = "funds" => Has(lead, {"recheck"})
      /\ \A steps : Has(new, steps) <=> Has(lead, steps) \/ Has(rest, steps)
      /\ \A steps : Has(todo, steps) <=> head \in steps \/ Has(rest, steps)
  BY <1>1, <1>2, OnwardPlan
<1>4. /\ ~Has(lead, {"settle"})
      /\ Has(lead, {"open", "settle", "confirm"}) => head = "settle"
  BY <1>3, LeadLacks
<1>5. ASSUME Has(new, {"open", "settle", "confirm"}), ~Has(new, {"funds", "recheck"})
      PROVE  me.checked \in Int /\ me.checked >= needed
  <2>1. Has(todo, {"open", "settle", "confirm"})
    BY <1>3, <1>4, <1>5
  <2>2. ~Has(rest, {"funds", "recheck"}) /\ ~Has(lead, {"funds", "recheck"})
    BY <1>3, <1>5
  <2>3. head # "look"
    <3>1. ~Has(rest, {"funds"})
      BY <2>2 DEF Has
    <3> QED
      BY <1>2, <3>1, HeadPlanned
  <2>4. needed = Needed(r)
    BY <1>2, <2>3
  <2>5. CASE head \in {"funds", "recheck"}
    <3>1. lead = <<>>
      <4>1. ~Has(lead, {"recheck"})
        BY <2>2 DEF Has
      <4>2. head = "recheck" => lead = <<>>
        BY <1>1, <1>2 DEF LeadOf
      <4> QED
        BY <1>3, <2>5, <4>1, <4>2
    <3> QED
      BY <1>1, <1>2, <2>4, <2>5, <3>1 DEF Kept
  <2>6. CASE head \notin {"funds", "recheck"}
    <3>1. me.checked = run[r].checked
      BY <1>1, <1>2, <2>6 DEF Kept
    <3>2. ~Has(todo, {"funds", "recheck"})
      BY <1>3, <2>2, <2>6
    <3> QED
      BY <1>2, <2>1, <2>4, <3>1, <3>2 DEF Informed
  <2> QED
    BY <2>5, <2>6
<1>6. ASSUME setting.kind[r] = "token", Has(new, {"settle"}), ~Has(new, {"tokens"})
      PROVE  setting.tokens >= AMOUNT_BASE_UNITS
  <2>1. CASE head = "tokens"
    BY <1>1, <1>2, <2>1 DEF Kept
  <2>2. CASE head # "tokens"
    <3>1. Has(todo, {"settle"}) /\ ~Has(todo, {"tokens"})
      BY <1>3, <1>4, <1>6, <2>2
    <3> QED
      BY <1>2, <1>6, <3>1 DEF Informed
  <2> QED
    BY <2>1, <2>2
<1>7. ~Astray(r)
  <2>1. Astray(r) => head = "cluster"
    BY <1>2 DEF Informed
  <2>2. head = "cluster" => setting.cluster = "devnet"
    BY <1>1, <1>2 DEF Kept
  <2> QED
    BY <2>1, <2>2 DEF Astray
<1> QED
  BY <1>2, <1>3, <1>5, <1>6, <1>7

LEMMA NeededStays ==
  ASSUME setting' = setting, NEW r, run'[r].opens = run[r].opens
  PROVE  Needed(r)' = Needed(r)
BY DEF Needed, RecordRent, NamespaceRent, WalletMinimum, Rent

LEMMA PlanStays ==
  ASSUME setting' = setting, NEW r, NEW todo, Planned(r, todo)
  PROVE  Planned(r, todo)'
BY DEF Planned, Opener

LEMMA InformedStays ==
  ASSUME setting' = setting, NEW r, NEW me, me = run'[r], me.opens = run[r].opens,
         /\ Has(me.todo, {"open", "settle", "confirm"}) /\ ~Has(me.todo, {"funds", "recheck"}) =>
              me.checked \in Int /\ me.checked >= Needed(r)
         /\ setting.kind[r] = "token" /\ Has(me.todo, {"settle"}) /\ ~Has(me.todo, {"tokens"}) =>
              setting.tokens >= AMOUNT_BASE_UNITS
         /\ Astray(r) => Head(me.todo) = "cluster"
  PROVE  Informed(r)'
<1>1. Needed(r)' = Needed(r)
  BY NeededStays
<1>2. Astray(r)' <=> Astray(r)
  BY DEF Astray
<1> QED
  BY <1>1, <1>2 DEF Informed, Has

LEMMA PlansKept ==
  ASSUME RunsOk, PlansOk, NEW r \in Runs, NEW me, Goes(r, me)
  PROVE  /\ PlansOk' /\ run'[r] = me /\ \A p \in Runs \ {r} : run'[p] = run[p]
<1>1. run'[r] = me /\ (\A p \in Runs \ {r} : run'[p] = run[p]) /\ setting' = setting
  BY DEF RunsOk, Goes
<1>2. /\ Ready(r) /\ Planned(r, run[r].todo) /\ Informed(r)
      /\ run[r].opens \in BOOLEAN /\ (run[r].opens => setting.kind[r] = "wallet")
  BY DEF Goes, Ready, PlansOk
<1>3. /\ me.opens \in BOOLEAN /\ (me.opens => setting.kind[r] = "wallet")
      /\ Onward(r, me) /\ me.opens # run[r].opens => Head(run[r].todo) = "look"
  <2>1. CASE Onward(r, me)
    <3>1. me.opens \in BOOLEAN /\ (me.opens # run[r].opens => Head(run[r].todo) = "look")
      BY <2>1 DEF Onward, Kept
    <3> QED
      BY <1>2, <3>1, HeadPlanned
  <2>2. CASE me.opens = run[r].opens
    BY <1>2, <2>2
  <2> QED
    BY <2>1, <2>2 DEF Goes, Again, Stays, Over, Same
<1>4. ASSUME me.result = "running" PROVE (Planned(r, me.todo) /\ Informed(r))'
  <2>1. CASE Onward(r, me)
    <3>1. PICK needed : needed = Needed(r)'
      OBVIOUS
    <3>2. me.opens = run[r].opens => needed = Needed(r)
      BY <1>1, <3>1, NeededStays
    <3>3. /\ Planned(r, me.todo)
          /\ Has(me.todo, {"open", "settle", "confirm"}) /\ ~Has(me.todo, {"funds", "recheck"}) =>
               me.checked \in Int /\ me.checked >= needed
          /\ setting.kind[r] = "token" /\ Has(me.todo, {"settle"}) /\ ~Has(me.todo, {"tokens"}) =>
               setting.tokens >= AMOUNT_BASE_UNITS
          /\ ~Astray(r)
      BY <1>2, <1>3, <2>1, <3>2, InformedOnward
    <3>4. Informed(r)'
      BY <1>1, <3>1, <3>3 DEF Informed, Has, Astray
    <3> QED
      BY <1>1, <3>3, <3>4, PlanStays
  <2>2. CASE Again(r, me)
    <3>1. PICK step \in {"read", "delay"} : me.todo = <<step>>
      BY <2>2 DEF Again
    <3>2. /\ Planned(r, me.todo) /\ ~Has(me.todo, {"open", "settle", "confirm", "load", "look"})
      BY <3>1, PlanOfOne
    <3>3. ~Has(me.todo, {"open", "settle", "confirm"}) /\ ~Has(me.todo, {"settle"})
      BY <3>2 DEF Has
    <3>4. ~Astray(r)
      BY <1>2, <2>2 DEF Again, Informed
    <3>5. Informed(r)'
      BY <1>1, <2>2, <3>3, <3>4, InformedStays DEF Again, Same
    <3> QED
      BY <1>1, <3>2, <3>5, PlanStays
  <2>3. CASE Stays(r, me)
    <3>1. /\ me.todo = run[r].todo /\ me.opens = run[r].opens /\ me.checked = run[r].checked
      BY <2>3 DEF Stays, Same
    <3>2. Informed(r)'
      BY <1>1, <1>2, <3>1, InformedStays DEF Informed
    <3> QED
      BY <1>1, <1>2, <3>1, <3>2, PlanStays
  <2> QED
    BY <1>4, <2>1, <2>2, <2>3 DEF Goes, Over
<1>5. ASSUME NEW p \in Runs \ {r}, run[p].result = "running"
      PROVE  (Planned(p, run[p].todo) /\ Informed(p))'
  <2>1. PICK you : you = run[p]
    OBVIOUS
  <2>2. run'[p] = you /\ Planned(p, you.todo) /\ Informed(p)
    BY <1>1, <1>5, <2>1 DEF PlansOk
  <2>3. Informed(p)'
    BY <1>1, <2>1, <2>2, InformedStays DEF Informed
  <2> QED
    BY <1>1, <2>2, <2>3, PlanStays
<1>6. ASSUME NEW p \in Runs
      PROVE  /\ run'[p].opens \in BOOLEAN /\ (run'[p].opens => setting'.kind[p] = "wallet")
             /\ run'[p].result = "running" => (Planned(p, run[p].todo) /\ Informed(p))'
  <2>1. CASE p = r
    BY <1>1, <1>3, <1>4, <2>1
  <2>2. CASE p # r
    BY <1>1, <1>5, <2>2 DEF PlansOk
  <2> QED
    BY <2>1, <2>2
<1> QED
  BY <1>1, <1>6 DEF PlansOk

LEMMA PlansStay ==
  ASSUME PlansOk, run' = run, setting' = setting
  PROVE  PlansOk'
<1>1. ASSUME NEW r \in Runs, run[r].result = "running"
      PROVE  (Planned(r, run[r].todo) /\ Informed(r))'
  <2>1. PICK you : you = run[r]
    OBVIOUS
  <2>2. run'[r] = you /\ Planned(r, you.todo) /\ Informed(r)
    BY <1>1, <2>1 DEF PlansOk
  <2>3. Informed(r)'
    BY <2>1, <2>2, InformedStays DEF Informed
  <2> QED
    BY <2>2, <2>3, PlanStays
<1> QED
  BY <1>1 DEF PlansOk

-----------------------------------------------------------------------------
(* What is sent                                                            *)

LEMMA TxStays ==
  ASSUME setting' = setting, NEW r, run'[r].wallets = run[r].wallets,
         run'[r].opens = run[r].opens, NEW op
  PROVE  Tx(r, op)' = Tx(r, op)
BY DEF Tx, Wanted

\* What the chain was given by a run: one transaction of the set.
Given(tx) ==
  /\ tx.run \in Runs /\ tx.op \in {"airdrop", "open", "settle"}
  /\ tx.op = "settle" =>
       /\ tx = Tx(tx.run, "settle") /\ ~Astray(tx.run)
       /\ run[tx.run].result = "running" =>
            ~Has(run[tx.run].todo, {"load", "look", "open", "settle"})
  /\ tx.op = "open" =>
       /\ Opener(tx.run)
       /\ run[tx.run].result = "running" => ~Has(run[tx.run].todo, {"open"})

LEMMA GivenStays ==
  ASSUME setting' = setting, NEW tx, Given(tx), run'[tx.run] = run[tx.run]
  PROVE  Given(tx)'
<1>1. Tx(tx.run, "settle")' = Tx(tx.run, "settle")
  BY TxStays
<1> QED
  BY <1>1 DEF Given, Astray, Opener, Has

\* A step of the run keeps what holds of what it sent.
LEMMA GivenKept ==
  ASSUME NEW r \in Runs, NEW me, Goes(r, me), run'[r] = me, NEW tx, Given(tx), tx.run = r
  PROVE  Given(tx)'
<1>1. Ready(r) /\ setting' = setting
  BY DEF Goes
<1>2. PICK todo, head, rest : todo = run[r].todo /\ head = Head(todo) /\ rest = Tail(todo)
  OBVIOUS
<1>3. \A steps : Has(todo, steps) <=> head \in steps \/ Has(rest, steps)
  <2>1. todo \in Seq(Steps) /\ todo # <<>>
    BY <1>1, <1>2 DEF Ready, Planned
  <2> QED
    BY <1>2, <2>1, HasRest
<1>4. ASSUME NEW steps, ~Has(todo, steps), me.result = "running",
             \A head2, lead : Fitting(head2, lead) => ~Has(lead, steps),
             steps \subseteq {"open", "settle", "confirm", "load", "look"}
      PROVE  ~Has(me.todo, steps)
  <2>1. CASE Onward(r, me)
    <3>1. PICK lead : LeadOf(head, lead) /\ me.todo = lead \o rest
      BY <1>2, <2>1 DEF Onward
    <3>2. Fitting(head, lead) /\ (Has(me.todo, steps) <=> Has(lead, steps) \/ Has(rest, steps))
      BY <1>1, <1>2, <3>1, OnwardPlan
    <3> QED
      BY <1>3, <1>4, <3>2
  <2>2. CASE Again(r, me)
    <3>1. PICK step \in {"read", "delay"} : me.todo = <<step>>
      BY <2>2 DEF Again
    <3>2. ~Has(me.todo, {"open", "settle", "confirm", "load", "look"})
      BY <3>1, PlanOfOne
    <3> QED
      BY <1>4, <3>2 DEF Has
  <2>3. CASE Stays(r, me)
    BY <1>2, <1>4, <2>3 DEF Stays
  <2> QED
    BY <1>4, <2>1, <2>2, <2>3 DEF Goes, Over
<1>5. run[r].result = "running"
  BY <1>1 DEF Ready
<1>6. ASSUME tx.op = "settle"
      PROVE  /\ Tx(r, "settle")' = Tx(r, "settle")
             /\ me.result = "running" => ~Has(me.todo, {"load", "look", "open", "settle"})
  <2>1. ~Has(todo, {"load", "look", "open", "settle"})
    BY <1>2, <1>5, <1>6 DEF Given
  <2>2. head \notin {"load", "look"}
    BY <1>3, <2>1
  <2>3. me.wallets = run[r].wallets /\ me.opens = run[r].opens
    BY <1>2, <2>2 DEF Goes, Onward, Kept, Again, Stays, Over, Same
  <2>4. Tx(r, "settle")' = Tx(r, "settle")
    BY <1>1, <2>3, TxStays
  <2>5. \A head2, lead : Fitting(head2, lead) => ~Has(lead, {"load", "look", "open", "settle"})
    BY LeadLacks
  <2> QED
    BY <1>4, <2>1, <2>4, <2>5
<1>7. ASSUME tx.op = "open" PROVE me.result = "running" => ~Has(me.todo, {"open"})
  <2>1. ~Has(todo, {"open"})
    BY <1>2, <1>5, <1>7 DEF Given
  <2>2. \A head2, lead : Fitting(head2, lead) => ~Has(lead, {"open"})
    BY LeadLacks
  <2> QED
    BY <1>4, <2>1, <2>2
<1> QED
  BY <1>1, <1>6, <1>7 DEF Given, Astray, Opener, Has

\* What a run sends is of its kind.
LEMMA GivenSent ==
  ASSUME NEW r \in Runs, NEW me, Goes(r, me), run'[r] = me, Onward(r, me), Informed(r),
         NEW op \in {"airdrop", "open", "settle"}, Head(run[r].todo) = op
  PROVE  Given(Tx(r, op))' /\ Tx(r, op)' = Tx(r, op)
<1>1. Ready(r) /\ setting' = setting
  BY DEF Goes
<1>2. PICK lead : /\ LeadOf(op, lead) /\ Kept(r, me, lead)
                  /\ me.todo = lead \o Tail(run[r].todo)
  BY DEF Onward
<1>3. me.wallets = run[r].wallets /\ me.opens = run[r].opens
  BY <1>2 DEF Kept
<1>4. Tx(r, op)' = Tx(r, op)
  BY <1>1, <1>3, TxStays
<1>5. PICK tx : tx = Tx(r, op)
  OBVIOUS
<1>6. tx.run = r /\ tx.op = op
  BY <1>5 DEF Tx
<1>7. /\ Fitting(op, lead)
      /\ \A steps : Has(me.todo, steps) <=> Has(lead, steps) \/ Has(Tail(run[r].todo), steps)
  BY <1>1, <1>2, OnwardPlan
<1>8. ASSUME op = "settle"
      PROVE  ~Astray(r) /\ ~Has(me.todo, {"load", "look", "open", "settle"})
  <2>1. Later("settle") = {"cluster", "read"}
    BY DEF Later
  <2>2. ~Has(Tail(run[r].todo), {"load", "look", "open", "settle"})
    BY <1>1, <1>8, <2>1, AfterHead
  <2>3. ~Has(lead, {"load", "look", "open", "settle"})
    BY <1>7, LeadLacks
  <2> QED
    BY <1>7, <1>8, <2>2, <2>3 DEF Informed
<1>9. ASSUME op = "open" PROVE Opener(r) /\ ~Has(me.todo, {"open"})
  <2>1. "open" \notin Later("open")
    BY DEF Later
  <2>2. ~Has(Tail(run[r].todo), {"open"})
    BY <1>1, <1>9, <2>1, AfterHead
  <2>3. ~Has(lead, {"open"})
    BY <1>7, LeadLacks
  <2> QED
    BY <1>1, <1>7, <1>9, <2>2, <2>3, HeadPlanned
<1>10. Given(tx)'
  BY <1>1, <1>4, <1>5, <1>6, <1>8, <1>9 DEF Given, Astray, Opener, Has
<1> QED
  BY <1>4, <1>5, <1>10

LEMMA SentKept ==
  ASSUME RunsOk, PlansOk, SentOk, NEW r \in Runs, NEW me, Goes(r, me)
  PROVE  SentOk'
<1>1. /\ run'[r] = me /\ (\A p \in Runs \ {r} : run'[p] = run[p])
      /\ Ready(r) /\ setting' = setting /\ Informed(r)
  BY PlansKept DEF Goes, PlansOk, Ready
<1>2. ASSUME NEW tx \in sent PROVE Given(tx) /\ Given(tx)'
  <2>1. Given(tx)
    BY DEF SentOk, Given
  <2>2. CASE tx.run = r
    BY <1>1, <2>1, <2>2, GivenKept
  <2>3. CASE tx.run # r
    <3>1. run'[tx.run] = run[tx.run]
      BY <1>1, <2>1, <2>3 DEF Given
    <3> QED
      BY <1>1, <2>1, <3>1, GivenStays
  <2> QED
    BY <2>1, <2>2, <2>3
<1>3. CASE sent' = sent
  <2>1. \A tx \in sent' : Given(tx)'
    BY <1>2, <1>3
  <2> QED
    BY <1>3, <2>1 DEF SentOk, Given
<1>4. ASSUME Onward(r, me), NEW op \in {"airdrop", "open", "settle"},
             Head(run[r].todo) = op, sent' = sent \cup {Tx(r, op)}
      PROVE  SentOk'
  <2>1. PICK new : new = Tx(r, op)
    OBVIOUS
  <2>2. new.run = r /\ new.op = op
    BY <2>1 DEF Tx
  <2>3. Given(new)'
    BY <1>1, <1>4, <2>1, GivenSent
  <2>4. \A tx \in sent' : Given(tx)'
    BY <1>2, <1>4, <2>1, <2>3
  <2>5. ASSUME NEW tx \in sent, tx.op = "open", new.op = "open" PROVE tx.run # new.run
    <3>1. Has(run[r].todo, {"open"})
      <4>1. run[r].todo \in Seq(Steps) /\ run[r].todo # <<>>
        BY <1>1 DEF Ready, Planned
      <4> QED
        BY <1>4, <2>2, <2>5, <4>1, HasRest
    <3>2. run[r].result = "running"
      BY <1>1 DEF Ready
    <3> QED
      BY <1>2, <2>2, <2>5, <3>1, <3>2 DEF Given
  <2>6. ASSUME NEW tx \in sent', NEW other \in sent',
               tx.op = "open", other.op = "open", tx.run = other.run
        PROVE  tx = other
    <3>1. tx \in sent \/ tx = new
      BY <1>4, <2>1
    <3>2. other \in sent \/ other = new
      BY <1>4, <2>1
    <3> QED
      BY <2>5, <2>6, <3>1, <3>2 DEF SentOk
  <2> QED
    BY <2>4, <2>6 DEF SentOk, Given
<1> QED
  BY <1>3, <1>4 DEF Goes

LEMMA SentStays ==
  ASSUME SentOk, sent' = sent, run' = run, setting' = setting
  PROVE  SentOk'
<1>1. ASSUME NEW tx \in sent PROVE Given(tx)'
  BY GivenStays DEF SentOk, Given
<1> QED
  BY <1>1 DEF SentOk, Given

-----------------------------------------------------------------------------
(* What is paid                                                            *)

LEMMA MostCostStays ==
  ASSUME setting' = setting, NEW tx
  PROVE  MostCost(tx)' = MostCost(tx) /\ WalletMinimum' = WalletMinimum
         /\ NamespaceRent' = NamespaceRent
BY DEF MostCost, NamespaceRent, RecordRent, TokenAccountRent, WalletMinimum, Rent

\* An entry of the chain, and what its payer had before.
Entry(e, lamports) ==
  /\ e.tx \in sent /\ e.cost \in Int
  /\ e.tx.op = "open" => e.cost <= FEE + IF e.error = "ok" THEN NamespaceRent ELSE 0
  /\ e.tx.op # "airdrop" /\ e.error = "LAMPORTS" => lamports < MostCost(e.tx) + WalletMinimum

LEMMA PaidIs == PaidOk <=> \A k \in 1..Tip : Entry(chain[k], Lamports(k - 1))
BY DEF PaidOk, Entry

LEMMA EntryStays ==
  ASSUME setting' = setting, sent \subseteq sent', NEW e, NEW lamports, Entry(e, lamports)
  PROVE  Entry(e, lamports)'
<1>1. /\ MostCost(e.tx)' = MostCost(e.tx) /\ WalletMinimum' = WalletMinimum
      /\ NamespaceRent' = NamespaceRent
  BY MostCostStays
<1> QED
  BY <1>1 DEF Entry

LEMMA EntriesKept ==
  ASSUME setting' = setting, sent \subseteq sent', PaidOk, NEW n \in Nat, Tip \in Nat, n <= Tip,
         \A k \in 1..n : chain'[k] = chain[k]
  PROVE  \A k \in 1..n : Entry(chain[k], Lamports(k - 1))'
<1> SUFFICES ASSUME NEW k \in 1..n PROVE Entry(chain[k], Lamports(k - 1))'
  OBVIOUS
<1>1. k \in 1..Tip /\ \A i \in 1..k - 1 : i \in 1..n
  OBVIOUS
<1>2. PICK e, lamports : e = chain[k] /\ lamports = Lamports(k - 1)
  OBVIOUS
<1>3. Lamports(k - 1)' = Lamports(k - 1)
  <2>1. PICK m : m = k - 1
    OBVIOUS
  <2>2. \A i \in 1..m : chain'[i] = chain[i]
    BY <1>1, <2>1
  <2>3. Lamports(m)' = Lamports(m)
    BY <2>2, LamportsKept
  <2> QED
    BY <2>1, <2>3
<1>4. Entry(e, lamports)
  BY <1>1, <1>2, PaidIs
<1>5. Entry(e, lamports)'
  BY <1>4, EntryStays
<1> QED
  BY <1>2, <1>3, <1>5

LEMMA PaidShrinks ==
  ASSUME setting' = setting, sent \subseteq sent', PaidOk, Tip \in Nat, Tip' \in Nat, Tip' <= Tip,
         \A k \in 1..Tip' : chain'[k] = chain[k]
  PROVE  PaidOk'
<1>1. PICK n \in Nat : n = Tip'
  OBVIOUS
<1>2. \A k \in 1..n : Entry(chain[k], Lamports(k - 1))'
  BY <1>1, EntriesKept
<1> QED
  BY <1>1, <1>2 DEF PaidOk, Entry

\* A refusal for lamports means that paying would have left too little.
LEMMA RefusedForLamports ==
  ASSUME setting \in Settings, NEW tx, NEW n, tx.run \in Runs, tx.op \in {"open", "settle"},
         tx.op = "settle" => DOMAIN tx.to \subseteq Roles,
         Lamports(n) \in Int, Error(tx, n) = "LAMPORTS"
  PROVE  Lamports(n) < MostCost(tx) + WalletMinimum
<1>1. PICK cost \in Int, most \in Int : cost = Cost(tx, n) /\ most = MostCost(tx) /\ cost <= most
  BY CostBound
<1>2. PICK minimum \in Nat : minimum = WalletMinimum
  BY SettingIs, RentIs
<1>3. PICK lamports \in Int : lamports = Lamports(n)
  OBVIOUS
<1>4. ~Bears(Lamports(n) - Cost(tx, n))
  BY DEF Error
<1>5. ~(lamports - cost >= minimum)
  BY <1>1, <1>2, <1>3, <1>4 DEF Bears
<1> QED
  BY <1>1, <1>2, <1>3, <1>5

LEMMA SentRoles ==
  ASSUME SentOk, NEW tx \in sent
  PROVE  /\ tx.run \in Runs /\ tx.op \in {"airdrop", "open", "settle"}
         /\ tx.op = "settle" => DOMAIN tx.to \subseteq Roles
<1>1. /\ tx.run \in Runs /\ tx.op \in {"airdrop", "open", "settle"}
      /\ tx.op = "settle" => tx = Tx(tx.run, "settle")
  BY DEF SentOk
<1>2. \A r : DOMAIN Tx(r, "settle").to \subseteq Roles
  BY DEF Tx, Wanted, Roles
<1>3. PICK new : new = Tx(tx.run, "settle")
  OBVIOUS
<1> QED
  BY <1>1, <1>2, <1>3

LEMMA PaidLands ==
  ASSUME setting \in Settings, ChainOk, SentOk, PaidOk, NEW tx \in sent, Land(tx)
  PROVE  PaidOk'
<1>1. PICK error, n : error = Error(tx, Tip) /\ n = Tip
  OBVIOUS
<1>2. PICK e : /\ chain' = Append(chain, e) /\ e.tx = tx /\ e.error = error
               /\ e.cost = IF error = "ok" THEN Cost(tx, n) ELSE FEE
  BY <1>1 DEF Land
<1>3. setting' = setting /\ sent' = sent
  BY DEF Land
<1>4. /\ n \in Nat /\ Tip' = n + 1
      /\ \A k \in 1..n : chain'[k] = chain[k]
      /\ chain'[n + 1] = e
  BY <1>1, <1>2 DEF ChainOk, Tip
<1>5. /\ tx.run \in Runs /\ tx.op \in {"airdrop", "open", "settle"}
      /\ tx.op = "settle" => DOMAIN tx.to \subseteq Roles
  BY SentRoles
<1>6. PICK lamports \in Int : lamports = Lamports(n)
  BY <1>1, <1>4, LamportsInt DEF PaidOk
<1>7. Entry(e, lamports)
  <2>1. FEE \in Int /\ NamespaceRent \in Nat
    BY SettingIs, RentIs DEF FEE
  <2>2. Cost(tx, n) \in Int
    BY <1>5, CostBound
  <2>3. e.cost \in Int
    BY <1>2, <2>1, <2>2
  <2>4. tx.op = "open" => e.cost <= FEE + IF error = "ok" THEN NamespaceRent ELSE 0
    <3>1. ASSUME tx.op = "open" PROVE Cost(tx, n) <= FEE + NamespaceRent
      <4>1. Cost(tx, n) = FEE + IF tx.opens THEN NamespaceRent ELSE 0
        BY <3>1, Zenon DEF Cost
      <4> QED
        BY <2>1, <4>1
    <3> QED
      BY <1>2, <2>1, <3>1
  <2>5. ASSUME tx.op # "airdrop", error = "LAMPORTS" PROVE lamports < MostCost(tx) + WalletMinimum
    BY <1>1, <1>5, <1>6, <2>5, RefusedForLamports
  <2> QED
    BY <1>2, <2>3, <2>4, <2>5 DEF Entry
<1>8. Entry(e, lamports)'
  BY <1>3, <1>7, EntryStays
<1>9. Lamports(n)' = Lamports(n)
  BY <1>3, <1>4, LamportsKept
<1>10. \A k \in 1..n : Entry(chain[k], Lamports(k - 1))'
  BY <1>1, <1>3, <1>4, EntriesKept
<1>11. ASSUME NEW k \in 1..n + 1 PROVE Entry(chain[k], Lamports(k - 1))'
  <2>1. CASE k \in 1..n
    BY <1>10, <2>1
  <2>2. CASE k = n + 1
    <3>1. k - 1 = n
      BY <1>4, <2>2
    <3> QED
      BY <1>4, <1>6, <1>8, <1>9, <2>2, <3>1
  <2> QED
    BY <1>4, <2>1, <2>2
<1> QED
  BY <1>4, <1>11 DEF PaidOk, Entry

LEMMA NextRefusable == ASSUME IInv, Refusable, [Next]_vars PROVE Refusable'
<1>1. /\ RunsOk /\ ChainOk /\ setting \in Settings /\ PlansOk /\ SentOk /\ PaidOk
      /\ Tip \in Nat
  BY LenProperties DEF IInv, Refusable, ChainOk, Tip
<1>2. ASSUME NEW r \in Runs, Step(r) \/ Stop(r) PROVE Refusable'
  <2>1. PICK me : Goes(r, me)
    BY <1>2, EveryStepGoes
  <2>2. PlansOk' /\ SentOk'
    BY <1>1, <2>1, PlansKept, SentKept
  <2>3. setting' = setting /\ chain' = chain /\ sent \subseteq sent'
    BY <2>1 DEF Goes
  <2>4. PaidOk'
    BY <1>1, <2>3, PaidShrinks DEF Tip
  <2> QED
    BY <1>1, <2>2, <2>3, <2>4 DEF Refusable
<1>3. ASSUME setting' = setting, run' = run, sent' = sent, PaidOk' PROVE Refusable'
  BY <1>1, <1>3, PlansStay, SentStays DEF Refusable
<1>4. ASSUME NEW tx \in sent, Land(tx) PROVE Refusable'
  BY <1>1, <1>3, <1>4, PaidLands DEF Land
<1>5. CASE Finalize
  <2>1. PaidOk'
    BY <1>1, <1>5, PaidShrinks DEF Finalize, Tip
  <2> QED
    BY <1>3, <1>5, <2>1 DEF Finalize
<1>6. CASE Fork
  <2>1. setting' = setting /\ sent' = sent /\ run' = run
    BY <1>6 DEF Fork
  <2>2. Tip' = Tip - 1 /\ Tip' \in Nat /\ \A k \in 1..Tip' : chain'[k] = chain[k]
    BY <1>1, <1>6, ForkPrefix
  <2>3. PaidOk'
    BY <1>1, <2>1, <2>2, PaidShrinks
  <2> QED
    BY <1>3, <2>1, <2>3
<1>7. CASE UNCHANGED vars
  <2>1. PaidOk'
    BY <1>1, <1>7, PaidShrinks DEF vars, Tip
  <2> QED
    BY <1>3, <1>7, <2>1 DEF vars
<1> QED
  BY <1>2, <1>4, <1>5, <1>6, <1>7 DEF Next

THEOREM RefusableInvariant == Spec => [](IInv /\ Refusable)
<1>1. Init => IInv /\ Refusable
  BY InitIInv, InitRefusable
<1>2. IInv /\ Refusable /\ [Next]_vars => (IInv /\ Refusable)'
  BY NextIInv, NextRefusable
<1> QED
  BY <1>1, <1>2, PTL DEF Spec

-----------------------------------------------------------------------------
(* Refusals                                                                *)

\* Which step refuses a run, and when.
LEMMA RefusedBy ==
  ASSUME IInv, Refusable, [Next]_vars, NEW r \in Runs, NEW result, Ended(r, result),
         result \in {"LAMPORTS", "TOKENS", "FAILED", "CLUSTER_MISMATCH"}
  PROVE  /\ Ready(r)
         /\ \/ result = "FAILED" /\ Head(run[r].todo) = "confirm"
            \/ /\ result = "CLUSTER_MISMATCH" /\ Head(run[r].todo) = "cluster"
               /\ setting.cluster # "devnet" /\ sent' = sent
            \/ \E op \in {"open", "settle"} :
                 /\ result \in {"LAMPORTS", "TOKENS"} /\ Head(run[r].todo) = op
                 /\ \E node \in Views : Error(Tx(r, op), node) = result
<1>1. run[r].result = "running" /\ run'[r].result = result /\ result # "running"
  BY DEF Ended
<1>2. RunsOk /\ PlansOk /\ RunOk(r, run[r])
  BY DEF IInv, RunsOk, Refusable
<1>3. PICK p \in Runs : Step(p) \/ Stop(p)
  <2>1. run' # run
    BY <1>1
  <2> QED
    BY <2>1 DEF Next, Land, Finalize, Fork, vars
<1>4. PICK me : Goes(p, me)
  BY <1>3, EveryStepGoes
<1>5. p = r
  <2>1. p # r => run'[r] = run[r]
    BY <1>2, <1>4, PlansKept
  <2> QED
    BY <1>1, <2>1
<1>6. Ready(r)
  BY <1>4, <1>5 DEF Goes
<1>7. ASSUME NEW you, Becomes(r, you) PROVE run'[r] = you
  BY <1>2, <1>7 DEF Becomes, RunsOk
<1>8. ASSUME NEW todo, NEW n, IsRun(n), n.result = "running", Becomes(r, Proceeds(n, todo))
      PROVE  FALSE
  <2>1. PICK you : you = Proceeds(n, todo)
    OBVIOUS
  <2>2. you.result \in {"done", "running"}
    BY <1>8, <2>1, ProceedsIs
  <2> QED
    BY <1>1, <1>7, <1>8, <2>1, <2>2
<1>9. ASSUME NEW other, Becomes(r, Ends(run[r], other)) PROVE other = result
  <2>1. PICK you : you = Ends(run[r], other)
    OBVIOUS
  <2>2. you.result = other
    BY <1>6, <2>1, EndsIs DEF Ready
  <2> QED
    BY <1>1, <1>7, <1>9, <2>1, <2>2
<1>10. IsRun(run[r]) /\ \A todo : ~Becomes(r, Proceeds(run[r], todo))
  BY <1>6, <1>8 DEF Ready
<1>11. ~Becomes(r, Passes(run[r]))
  BY <1>10 DEF Passes
<1>12. CASE Truncate(r) \/ Write(r) \/ Airdrop(r) \/ Await(r) \/ Tokens(r) \/ Opening(r)
  BY <1>9, <1>11, <1>12 DEF Truncate, Write, Airdrop, Await, Tokens, Opening
<1>13. CASE Cluster(r)
  BY <1>6, <1>9, <1>11, <1>13 DEF Cluster, At
<1>14. CASE Confirm(r)
  BY <1>6, <1>9, <1>11, <1>14 DEF Confirm, At
<1>15. CASE Open(r)
  <2>1. Head(run[r].todo) = "open"
    BY <1>15 DEF Open, At
  <2>2. PICK node \in Views : Becomes(r, Ends(run[r], Error(Tx(r, "open"), node)))
    BY <1>10, <1>11, <1>15 DEF Open
  <2>3. Error(Tx(r, "open"), node) = result
    BY <1>9, <2>2
  <2>4. result \in {"LAMPORTS", "TOKENS"}
    BY <2>3, ErrorIs
  <2> QED
    BY <1>6, <2>1, <2>3, <2>4
<1>16. CASE Settle(r)
  <2>1. Head(run[r].todo) = "settle"
    BY <1>16 DEF Settle, At
  <2>2. PICK node \in Views : Becomes(r, Ends(run[r], Error(Tx(r, "settle"), node)))
    BY <1>10, <1>16 DEF Settle
  <2>3. Error(Tx(r, "settle"), node) = result
    BY <1>9, <2>2
  <2>4. result \in {"LAMPORTS", "TOKENS"}
    BY <2>3, ErrorIs
  <2> QED
    BY <1>6, <2>1, <2>3, <2>4
<1>17. CASE Funds(r) \/ Recheck(r)
  <2>1. ~\E balance : Becomes(r, Funded(r, balance))
    <3>1. ASSUME NEW balance, Becomes(r, Funded(r, balance)) PROVE FALSE
      <4>1. PICK n : n = [run[r] EXCEPT !.checked = balance]
        OBVIOUS
      <4>2. IsRun(n) /\ n.result = "running"
        BY <1>6, <4>1 DEF IsRun, Ready
      <4>3. Becomes(r, Proceeds(n, Tail(n.todo)))
        BY <3>1, <4>1 DEF Funded, Passes
      <4> QED
        BY <1>8, <4>2, <4>3
    <3> QED
      BY <3>1
  <2>2. PICK balance : \/ Becomes(r, Funded(r, balance)) \/ Becomes(r, Ends(run[r], "SHORT"))
                       \/ Becomes(r, Proceeds(run[r], <<"airdrop", "await", "recheck">> \o Tail(run[r].todo)))
    BY <1>17 DEF Funds, Recheck
  <2> QED
    BY <1>9, <1>10, <2>1, <2>2
<1>18. CASE Look(r)
  <2>1. PICK view \in Views : Becomes(r, Passes([run[r] EXCEPT !.opens = ~IsOpen(view)]))
    BY <1>18 DEF Look
  <2>2. PICK n : n = [run[r] EXCEPT !.opens = ~IsOpen(view)]
    OBVIOUS
  <2>3. IsRun(n) /\ n.result = "running"
    BY <1>6, <2>2 DEF IsRun, Ready
  <2>4. Becomes(r, Proceeds(n, Tail(n.todo)))
    BY <2>1, <2>2 DEF Passes
  <2> QED
    BY <1>8, <2>3, <2>4
<1>19. CASE Load(r)
  <2>1. PICK read, writing :
          /\ read = [run[r] EXCEPT !.seen = file.wallets,
                                   !.wallets = Recipients(r, file.wallets)]
          /\ writing = IF Generates(r, file.wallets) THEN <<"truncate", "write">> ELSE <<>>
    OBVIOUS
  <2>2. \/ Becomes(r, Ends(run[r], "PARSE"))
        \/ Becomes(r, Proceeds(read, writing \o Tail(run[r].todo)))
    BY <1>19, <2>1 DEF Load
  <2>3. IsRun(read) /\ read.result = "running"
    BY <1>6, <2>1 DEF IsRun, Ready
  <2> QED
    BY <1>8, <1>9, <2>2, <2>3
<1>20. CASE Read(r)
  <2>1. PICK n : n = [run[r] EXCEPT
                        !.left = Smaller(Poll, Larger(0, Timeout - run[r].elapsed)),
                        !.heard = run[r].elapsed]
    OBVIOUS
  <2>2. IsRun(n) /\ n.result = "running"
    BY <1>6, <2>1 DEF IsRun, Ready
  <2>3. \/ Becomes(r, Proceeds(n, <<"delay">>))
        \/ \E k \in Evidence(r) :
             Becomes(r, Ends(run[r], IF chain[k].error = "ok" THEN "MATCH" ELSE "TX_FAILED"))
    BY <1>20, <2>1 DEF Read
  <2>4. \/ Becomes(r, Proceeds(n, <<"delay">>))
        \/ Becomes(r, Ends(run[r], "MATCH")) \/ Becomes(r, Ends(run[r], "TX_FAILED"))
    BY <2>3
  <2> QED
    BY <1>8, <1>9, <2>2, <2>4
<1>21. CASE Resume(r)
  BY <1>9, <1>10, <1>21 DEF Resume
<1>22. CASE Tick(r)
  <2>1. PICK you : you = [run[r] EXCEPT !.elapsed = @ + 1, !.left = Larger(0, @ - 1)]
    OBVIOUS
  <2>2. you.result = "running" /\ Becomes(r, you)
    BY <1>6, <1>22, <2>1 DEF IsRun, Ready, Tick
  <2> QED
    BY <1>1, <1>7, <2>2
<1>23. CASE Stop(r)
  <2>1. PICK n : n = Ends(run[r], "stopped")
    OBVIOUS
  <2>2. PICK you : you = [n EXCEPT !.checked = 0, !.elapsed = 0, !.left = 0, !.heard = 0]
    OBVIOUS
  <2>3. IsRun(n) /\ n.result = "stopped"
    BY <1>10, <2>1, EndsIs
  <2>4. you.result = "stopped" /\ Becomes(r, you)
    BY <1>23, <2>1, <2>2, <2>3 DEF IsRun, Stop
  <2> QED
    BY <1>1, <1>7, <2>4
<1> QED
  BY <1>3, <1>5, <1>12, <1>13, <1>14, <1>15, <1>16, <1>17, <1>18, <1>19, <1>20, <1>21, <1>22,
     <1>23 DEF Step

\* The checks that a run passed cover what its refused transaction would take.
LEMMA RefusalIsExplained ==
  ASSUME IInv, Refusable, NEW r \in Runs, Ready(r),
         NEW head, head = Head(run[r].todo), head \in {"open", "settle", "confirm"},
         NEW op \in {"open", "settle"}, op = "open" => head = "open",
         NEW n \in Nat, n <= Tip,
         \A k \in 1..n : ~(chain[k].tx.run = r /\ chain[k].tx.op = "settle"),
         Lamports(n) < MostCost(Tx(r, op)) + WalletMinimum
  PROVE  Explained(r, n)
<1>1. /\ setting \in Settings /\ ChainOk /\ PlansOk /\ SentOk /\ PaidOk
      /\ run[r].result = "running"
  BY DEF IInv, Refusable, Ready
<1>2. /\ run[r].opens \in BOOLEAN /\ (run[r].opens => setting.kind[r] = "wallet")
      /\ Informed(r)
  BY <1>1 DEF PlansOk
<1>3. PICK todo, rest : todo = run[r].todo /\ rest = Tail(todo)
  OBVIOUS
<1>4. \A steps : Has(todo, steps) <=> head \in steps \/ Has(rest, steps)
  <2>1. todo \in Seq(Steps) /\ todo # <<>>
    BY <1>3 DEF Ready, Planned
  <2> QED
    BY <1>3, <2>1, HasRest
<1>5. Has(todo, {"open", "settle", "confirm"})
  BY <1>4
<1>6. ~Has(todo, {"funds", "recheck"})
  <2>1. ASSUME Has(rest, {"funds", "recheck"}) PROVE FALSE
    <3>1. "funds" \in Later(head) \/ "recheck" \in Later(head)
      <4>1. Has(Tail(run[r].todo), {"funds", "recheck"})
        BY <1>3, <2>1
      <4>2. PICK step \in {"funds", "recheck"} : step \in Later(Head(run[r].todo))
        BY <4>1, AfterHead
      <4> QED
        BY <4>2
    <3> QED
      BY <3>1 DEF Later
  <2> QED
    BY <1>4, <2>1
<1>7. run[r].checked \in Int /\ run[r].checked >= Needed(r)
  BY <1>2, <1>3, <1>5, <1>6 DEF Informed
<1>8. Lamports(n) \in Int
  <2>1. \A k \in 1..n : k \in 1..Tip
    BY LenProperties, <1>1 DEF ChainOk, Tip
  <2> QED
    BY <1>1, <2>1, LamportsInt DEF PaidOk
<1>9. OwnCost(r, n) \in Int /\ OwnCost(r, n) <= OpeningCost(r, n)
  BY <1>1, OwnCostBound
<1>10. op = "open" => Opener(r)
  BY HeadPlanned
<1>11. MostCost(Tx(r, op)) \in Int
  <2>1. PICK tx : tx = Tx(r, op)
    OBVIOUS
  <2>2. tx.run = r /\ tx.op = op /\ DOMAIN tx.to \subseteq Roles
    BY <2>1 DEF Tx, Wanted, Roles
  <2> QED
    BY <1>1, <2>1, <2>2, CostBound
<1> QED
  BY <1>1, <1>2, <1>7, <1>8, <1>9, <1>10, <1>11, RefusalExplained

\* A run whose payment was not sent has none on the chain.
LEMMA NotPaid ==
  ASSUME IInv, Refusable, NEW r \in Runs, Ready(r), Head(run[r].todo) \in {"open", "settle"}
  PROVE  \A k \in 1..Tip : ~(chain[k].tx.run = r /\ chain[k].tx.op = "settle")
<1>1. PICK todo : todo = run[r].todo
  OBVIOUS
<1>2. Has(todo, {"load", "look", "open", "settle"})
  <2>1. todo \in Seq(Steps) /\ todo # <<>>
    BY <1>1 DEF Ready, Planned
  <2> QED
    BY <1>1, <2>1, HasRest
<1>3. run[r].result = "running"
  BY DEF Ready
<1> QED
  BY <1>1, <1>2, <1>3 DEF Refusable, SentOk, PaidOk

\* A node refuses a run that passed its funding check for lamports only if the payer was
\* spent from meanwhile, or the node is behind the one that was asked for the balance, or
\* the run opened the namespace itself where rent is dear and the overhead covers less than
\* the minimum the payer must keep; a run is refused for tokens only if another payment
\* took them; and one that meets the wrong cluster has paid only if it is nway.ts: for any
\* number of runs.
THEOREM RefusalsAreExplained == Spec => RefusalsExplained
<1>1. ASSUME IInv, Refusable, [Next]_vars, NEW r \in Runs
      PROVE  /\ Ended(r, "LAMPORTS") =>
                  \A node \in Views :
                    Error(Tx(r, Head(run[r].todo)), node) = "LAMPORTS" => Explained(r, node)
             /\ Ended(r, "TOKENS") => TokenSettlements(Tip) # {}
             /\ Ended(r, "FAILED") =>
                  \A k \in EntriesOf(Tx(r, "settle")) :
                    chain[k].error = "LAMPORTS" => Explained(r, k - 1)
             /\ Ended(r, "CLUSTER_MISMATCH") =>
                  setting.kind[r] = "nway" \/ Tx(r, "settle") \notin sent
  <2>1. /\ setting \in Settings /\ ChainOk /\ PlansOk /\ SentOk /\ PaidOk /\ Tip \in Nat
        /\ final \in Nat /\ final <= Tip
    BY <1>1, LenProperties DEF IInv, Refusable, ChainOk, Tip
  <2>2. ASSUME Ended(r, "LAMPORTS"), NEW node \in Views,
               Error(Tx(r, Head(run[r].todo)), node) = "LAMPORTS"
        PROVE  Explained(r, node)
    <3>1. PICK op \in {"open", "settle"} : Ready(r) /\ Head(run[r].todo) = op
      BY <1>1, <2>2, RefusedBy
    <3>2. PICK tx : tx = Tx(r, op)
      OBVIOUS
    <3>3. tx.run = r /\ tx.op = op /\ DOMAIN tx.to \subseteq Roles /\ Error(tx, node) = "LAMPORTS"
      BY <2>2, <3>1, <3>2 DEF Tx, Wanted, Roles
    <3>4. node \in Nat /\ node <= Tip /\ \A k \in 1..node : k \in 1..Tip
      BY <2>1 DEF Views
    <3>5. Lamports(node) \in Int
      BY <2>1, <3>4, LamportsInt DEF PaidOk
    <3>6. Lamports(node) < MostCost(tx) + WalletMinimum
      BY <2>1, <3>3, <3>5, RefusedForLamports
    <3>7. \A k \in 1..node : ~(chain[k].tx.run = r /\ chain[k].tx.op = "settle")
      BY <1>1, <3>1, <3>4, NotPaid
    <3> QED
      BY <1>1, <3>1, <3>2, <3>4, <3>6, <3>7, RefusalIsExplained
  <2>3. ASSUME Ended(r, "TOKENS"), TokenSettlements(Tip) = {} PROVE FALSE
    <3>1. PICK op \in {"open", "settle"}, node \in Views :
            Ready(r) /\ Head(run[r].todo) = op /\ Error(Tx(r, op), node) = "TOKENS"
      BY <1>1, <2>3, RefusedBy
    <3>2. PICK tx : tx = Tx(r, op)
      OBVIOUS
    <3>3. tx.run = r /\ tx.op = op
      BY <3>2 DEF Tx
    <3>4. tx.op = "settle" /\ setting.kind[r] = "token" /\ TokensLeft(node) < AMOUNT_BASE_UNITS
      BY <3>1, <3>2, <3>3 DEF Error
    <3>5. TokensLeft(node) = setting.tokens
      <4>1. TokenSettlements(node) \subseteq TokenSettlements(Tip)
        BY <2>1 DEF Views, TokenSettlements, Succeeded
      <4> QED
        BY <2>1, <2>3, <4>1, TokensKnown
    <3>6. PICK todo, rest : todo = run[r].todo /\ rest = Tail(todo)
      OBVIOUS
    <3>7. \A steps : Has(todo, steps) <=> "settle" \in steps \/ Has(rest, steps)
      <4>1. todo \in Seq(Steps) /\ todo # <<>> /\ Head(todo) = "settle"
        BY <3>1, <3>3, <3>4, <3>6 DEF Ready, Planned
      <4> QED
        BY <3>6, <4>1, HasRest
    <3>8. ~Has(rest, {"tokens"})
      <4>1. "tokens" \notin Later("settle") /\ Head(run[r].todo) = "settle"
        BY <3>1, <3>3, <3>4 DEF Later
      <4>2. ~Has(Tail(run[r].todo), {"tokens"})
        BY <3>1, <4>1, AfterHead
      <4> QED
        BY <3>6, <4>2
    <3>9. Has(todo, {"settle"}) /\ ~Has(todo, {"tokens"})
      BY <3>7, <3>8
    <3>10. Informed(r)
      BY <2>1, <3>1 DEF PlansOk, Ready
    <3>11. setting.tokens >= AMOUNT_BASE_UNITS
      BY <3>4, <3>6, <3>9, <3>10 DEF Informed
    <3> QED
      BY <2>1, <3>4, <3>5, <3>11, SettingIs DEF AMOUNT_BASE_UNITS
  <2>4. ASSUME Ended(r, "FAILED"), NEW k \in EntriesOf(Tx(r, "settle")),
               chain[k].error = "LAMPORTS"
        PROVE  Explained(r, k - 1)
    <3>1. Ready(r) /\ Head(run[r].todo) = "confirm"
      BY <1>1, <2>4, RefusedBy
    <3>2. PICK tx, n : tx = Tx(r, "settle") /\ n = k - 1
      OBVIOUS
    <3>3. k \in 1..Tip /\ chain[k].tx = tx /\ tx.run = r /\ tx.op = "settle"
      BY <2>4, <3>2 DEF EntriesOf, Tx
    <3>4. n \in Nat /\ n <= Tip /\ \A j \in 1..n : j \in 1..Tip /\ j # k
      BY <2>1, <3>2, <3>3
    <3>5. Lamports(n) < MostCost(tx) + WalletMinimum
      BY <2>1, <2>4, <3>2, <3>3 DEF PaidOk
    <3>6. ASSUME NEW j \in 1..n, chain[j].tx.run = r, chain[j].tx.op = "settle" PROVE FALSE
      <4>1. chain[j].tx \in sent
        BY <2>1, <3>4 DEF PaidOk
      <4>2. chain[j].tx = tx
        BY <2>1, <3>2, <3>6, <4>1 DEF SentOk
      <4> QED
        BY <2>1, <3>3, <3>4, <4>2 DEF ChainOk
    <3> QED
      BY <1>1, <3>1, <3>2, <3>4, <3>5, <3>6, RefusalIsExplained
  <2>5. ASSUME Ended(r, "CLUSTER_MISMATCH"), Tx(r, "settle") \in sent
        PROVE  setting.kind[r] = "nway"
    <3>1. /\ Ready(r) /\ Head(run[r].todo) = "cluster" /\ setting.cluster # "devnet"
      BY <1>1, <2>5, RefusedBy
    <3>2. setting.kind[r] # "three"
      BY <3>1, HeadPlanned
    <3>3. ~Astray(r)
      <4>1. PICK tx : tx = Tx(r, "settle")
        OBVIOUS
      <4>2. tx.run = r /\ tx.op = "settle"
        BY <4>1 DEF Tx
      <4> QED
        BY <2>1, <2>5, <4>1, <4>2 DEF SentOk
    <3> QED
      BY <2>1, <3>1, <3>2, <3>3, SettingIs DEF Astray
  <2> QED
    BY <2>2, <2>3, <2>4, <2>5
<1>2. IInv /\ Refusable /\ [Next]_vars =>
        \A r \in Runs :
          /\ Ended(r, "LAMPORTS") =>
               \A node \in Views :
                 Error(Tx(r, Head(run[r].todo)), node) = "LAMPORTS" => Explained(r, node)
          /\ Ended(r, "TOKENS") => TokenSettlements(Tip) # {}
          /\ Ended(r, "FAILED") =>
               \A k \in EntriesOf(Tx(r, "settle")) :
                 chain[k].error = "LAMPORTS" => Explained(r, k - 1)
          /\ Ended(r, "CLUSTER_MISMATCH") =>
               setting.kind[r] = "nway" \/ Tx(r, "settle") \notin sent
  BY <1>1
<1> QED
  BY <1>2, RefusableInvariant, PTL DEF Spec, RefusalsExplained
=============================================================================
