--------------------------- MODULE PaymentPromise ---------------------------
(***************************************************************************)
(* What the settlement worker promises whoever reads its database, without *)
(* attempts, providers or crashes: in each namespace the cluster settles   *)
(* an event once, for good, with some content, and the worker passes a     *)
(* verdict on the event. The verdict "paid" is right and final; "incident" *)
(* is right; "needs_attention" may be passed at any time; only a person    *)
(* reopens either of them.                                                 *)
(***************************************************************************)

CONSTANTS Events, Namespaces,
          Contents,   \* what a settlement can be, NotSettled excepted
          Unclear,    \* the contents nobody can judge but a person
          Faithful,   \* the contents a stored request can ask for
          NotSettled

VARIABLES content,    \* what the cluster settled each event with, for good
          asked,      \* the contents asked for, by the requests stored so far
          verdict     \* "open" | "paid" | "incident" | "needs_attention"

vars == <<content, asked, verdict>>

Init ==
  /\ content = [n \in Namespaces |-> [e \in Events |-> NotSettled]]
  /\ asked = [e \in Events |-> {}]
  /\ verdict = [e \in Events |-> "open"]

Settle(n, e, c) ==
  /\ content[n][e] = NotSettled
  /\ content' = [content EXCEPT ![n][e] = c]
  /\ UNCHANGED <<asked, verdict>>

Ask(e, c) ==
  /\ verdict[e] = "open"
  /\ asked' = [asked EXCEPT ![e] = @ \cup {c}]
  /\ UNCHANGED <<content, verdict>>

Pass(e, v) ==
  /\ verdict[e] = "open"
  /\ \/ v = "paid" /\ \E n \in Namespaces : content[n][e] \in Faithful
     \/ /\ v = "incident"
        /\ \E n \in Namespaces : content[n][e] \in Contents \ (asked[e] \cup Unclear)
     \/ v = "needs_attention"
  /\ verdict' = [verdict EXCEPT ![e] = v]
  /\ UNCHANGED <<content, asked>>

Reopen(e) ==
  /\ verdict[e] \in {"incident", "needs_attention"}
  /\ verdict' = [verdict EXCEPT ![e] = "open"]
  /\ UNCHANGED <<content, asked>>

Next ==
  \E e \in Events :
    \/ \E n \in Namespaces, c \in Contents : Settle(n, e, c)
    \/ \E c \in Faithful : Ask(e, c)
    \/ \E v \in {"paid", "incident", "needs_attention"} : Pass(e, v)
    \/ Reopen(e)

Spec == Init /\ [][Next]_vars
=============================================================================
