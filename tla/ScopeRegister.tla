---------------------------- MODULE ScopeRegister ----------------------------
(***************************************************************************)
(* What POST /scopes/student really gives its users: the scope of each is  *)
(* a register that only a client that found it empty may set.  "Student    *)
(* scope is immutable once assigned" would be the same with finding it     *)
(* empty and setting it one step; here other steps may come between.       *)
(***************************************************************************)
CONSTANTS Clients, Users, Scopes, None

VARIABLES
    scope,  \* scope[u]: the scope of u, or None
    claim   \* claim[c]: the user whose register c found empty, or None

Init ==
    /\ scope = [u \in Users |-> None]
    /\ claim = [c \in Clients |-> None]

\* c finds the register of u empty.
Claim(c, u) ==
    /\ claim[c] = None
    /\ scope[u] = None
    /\ claim' = [claim EXCEPT ![c] = u]
    /\ UNCHANGED scope

\* c sets the register it claimed, empty or not by now.
Set(c, s) ==
    /\ claim[c] # None
    /\ scope' = [scope EXCEPT ![claim[c]] = s]
    /\ claim' = [claim EXCEPT ![c] = None]

\* c is refused, or fails.
Drop(c) ==
    /\ claim' = [claim EXCEPT ![c] = None]
    /\ UNCHANGED scope

Next ==
    \E c \in Clients :
        \/ \E u \in Users : Claim(c, u)
        \/ \E s \in Scopes : Set(c, s)
        \/ Drop(c)

Spec == Init /\ [][Next]_<<scope, claim>>
=============================================================================
