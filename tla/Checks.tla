------------------------------- MODULE Checks -------------------------------
(***************************************************************************)
(* What the permission checks of one role promise, without rows that are   *)
(* read, pipelines or a hash: an answer is what the table granted at an    *)
(* instant of the check, or a yes from memory, to a permission that is     *)
(* granted or was revoked and is not forgotten yet.  A refusal never comes *)
(* from memory.  Only a check that fails is refused without a look at the  *)
(* table, and its answer is marked: what is granted can then be refused.   *)
(* PermCache implements this specification (PermCache!ImplementsChecks).   *)
(***************************************************************************)
CONSTANTS
    Perm,        \* permissions that routes ask for
    Wild,        \* the permission that grants every other
    Worker,      \* checks that can be in progress at once
    NoPerm

VARIABLES
    table,       \* the permissions of the role
    lag,         \* revoked permissions that may still be remembered
    ask,         \* the permission a worker is to answer for
    seen,        \* the answer it has found, if any
    reply        \* the last answer; failed if the check failed

checkVars == <<table, lag, ask, seen, reply>>

Granted(p)   == p \in table \/ Wild \in table
Says(p, a) == reply' = [perm |-> p, allowed |-> a, failed |-> FALSE]
Done(w) ==
    /\ ask[w] # NoPerm
    /\ ask' = [ask EXCEPT ![w] = NoPerm] /\ seen' = [seen EXCEPT ![w] = {}]
    /\ UNCHANGED <<table, lag>>

Init ==
    /\ table \in SUBSET (Perm \cup {Wild})
    /\ lag = {}
    /\ ask = [w \in Worker |-> NoPerm]
    /\ seen = [w \in Worker |-> {}]
    /\ reply = [perm |-> NoPerm, allowed |-> FALSE, failed |-> FALSE]

Ask(w, p) ==
    /\ ask[w] = NoPerm
    /\ ask' = [ask EXCEPT ![w] = p]
    /\ UNCHANGED <<table, lag, seen, reply>>

\* The instant whose table decides.
Look(w) ==
    /\ ask[w] # NoPerm /\ seen[w] = {}
    /\ seen' = [seen EXCEPT ![w] = {Granted(ask[w])}]
    /\ UNCHANGED <<table, lag, ask, reply>>

Tell(w)   == Done(w) /\ \E a \in seen[w] : Says(ask[w], a)
Answer(w) == Done(w) /\ seen[w] = {} /\ Says(ask[w], Granted(ask[w]))
GiveUp(w) == Done(w) /\ UNCHANGED reply

\* The check fails before it has an answer: no.
Deny(w) ==
    /\ Done(w) /\ seen[w] = {}
    /\ reply' = [perm |-> ask[w], allowed |-> FALSE, failed |-> TRUE]

Recall(w, p) ==
    /\ ask[w] = NoPerm
    /\ p \in table \cup lag
    /\ Says(p, TRUE)
    /\ UNCHANGED <<table, lag, ask, seen>>

Grant(p)  == table' = table \cup {p} /\ lag' = lag \ {p} /\ UNCHANGED <<ask, seen, reply>>
Revoke(p) == table' = table \ {p} /\ lag' = lag \cup {p} /\ UNCHANGED <<ask, seen, reply>>
Forget    == lag' \in SUBSET lag /\ UNCHANGED <<table, ask, seen, reply>>

Next ==
    \/ \E w \in Worker :
          \/ \E p \in Perm : Ask(w, p) \/ Recall(w, p)
          \/ Look(w) \/ Tell(w) \/ Answer(w) \/ GiveUp(w) \/ Deny(w)
    \/ \E p \in Perm \cup {Wild} : Grant(p) \/ Revoke(p)
    \/ Forget

Spec == Init /\ [][Next]_checkVars
=============================================================================
