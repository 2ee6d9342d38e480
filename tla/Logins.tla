------------------------------- MODULE Logins -------------------------------
(***************************************************************************)
(* What refresh tokens promise, without tables, requests or locks: a login *)
(* is held by one token at a time.  A refresh passes it on to a token that *)
(* never held a login before; a logout ends one login and a logout from    *)
(* all devices some of one user's; a login that is over stays over.        *)
(* Sessions implements this specification (Sessions!ImplementsLogins).     *)
(***************************************************************************)
CONSTANTS
    User,
    Token,
    NoUser,      \* the account of a login that was not made yet
    Unmade,      \* the holder of such a login
    Over         \* the holder of a login that is over

VARIABLES
    account,     \* whose login it is; a login is named by its first token
    holder,      \* the token that can be refreshed
    handed       \* the tokens that were ever handed out

loginVars == <<account, holder, handed>>

Init ==
    /\ account = [s \in Token |-> NoUser]
    /\ holder = [s \in Token |-> Unmade]
    /\ handed = {}

Open(s, u) ==
    /\ s \notin handed
    /\ handed' = handed \cup {s}
    /\ account' = [account EXCEPT ![s] = u]
    /\ holder' = [holder EXCEPT ![s] = s]

PassOn(s, t) ==
    /\ t \notin handed
    /\ handed' = handed \cup {t}
    /\ holder[s] \in Token
    /\ holder' = [holder EXCEPT ![s] = t]
    /\ UNCHANGED account

\* Some logins of user u end together.
End(u) ==
    /\ UNCHANGED <<account, handed>>
    /\ holder' \in [Token -> Token \cup {Unmade, Over}]
    /\ \A s \in Token : holder'[s] # holder[s] =>
          account[s] = u /\ holder[s] \in Token /\ holder'[s] = Over

Next ==
    \/ \E u \in User : End(u)
    \/ \E s \in Token, u \in User : Open(s, u)
    \/ \E s, t \in Token : PassOn(s, t)

Spec == Init /\ [][Next]_loginVars
=============================================================================
