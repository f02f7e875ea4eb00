----------------------------- MODULE AnswerOnce -----------------------------
(***************************************************************************)
(* What answering an agent's request promises, whatever the hub does in    *)
(* between (crates/hub/src/machine_manager/agent_runs.rs:346, "a second    *)
(* answer is refused so nothing is typed twice"): an answer is claimed     *)
(* before it is typed, only while its request is open, and typed at most   *)
(* once; a request that is over stays over.                                *)
(***************************************************************************)
EXTENDS Sequences

CONSTANT Question

VARIABLES
    asked,    \* requests that were ever opened
    open,     \* those still waiting for an answer
    claimed,  \* those an answer was claimed for
    typed     \* the answers typed so far, in order

vars == <<asked, open, claimed, typed>>

Typed == {typed[i] : i \in DOMAIN typed}

Init == asked = {} /\ open = {} /\ claimed = {} /\ typed = <<>>

(* A request may supersede the one that was open. *)
Ask(q) ==
    /\ q \notin asked /\ asked' = asked \cup {q}
    /\ \E over \in SUBSET open : open' = (open \ over) \cup {q}
    /\ UNCHANGED <<claimed, typed>>

Close ==
    /\ open' \in SUBSET open /\ UNCHANGED <<asked, claimed, typed>>

Claim(q) ==
    /\ q \in open \ claimed /\ claimed' = claimed \cup {q}
    /\ UNCHANGED <<asked, open, typed>>

(* Only an answer that was not typed may be offered again. *)
GiveBack(q) ==
    /\ q \in claimed \ Typed /\ claimed' = claimed \ {q}
    /\ UNCHANGED <<asked, open, typed>>

Type(q) ==
    /\ q \in claimed \ Typed /\ typed' = Append(typed, q)
    /\ UNCHANGED <<asked, open, claimed>>

Next ==
    \/ Close
    \/ \E q \in Question : Ask(q) \/ Claim(q) \/ GiveBack(q) \/ Type(q)

Spec == Init /\ [][Next]_vars
=============================================================================
