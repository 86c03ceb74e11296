-------------------------- MODULE MCNotifications --------------------------
\* Finite instances of Notifications.
EXTENDS Notifications, TLC

CONSTANTS u1, u2, u3, g1, t1, t2

Notify(u) == [op |-> "notify", uid |-> u, group |-> g1]
Register(u, target, t) == [op |-> "register", uid |-> u, target |-> target, token |-> t]

\* A message of a user who has two devices; two other users with one, so that
\* after a push that fails somebody is left; a device that changes hands; and a
\* body with somebody else's uid.
SomeJobs == {Notify(u1), Register(u1, u1, t1), Register(u1, u1, t2),
             Register(u2, u2, t2), Register(u3, u3, t2),
             Register(u2, u3, t2), Register(u3, u2, t2)}

\* u2 and u3 may send the same.
Symmetric == Permutations({u2, u3}) \cup Permutations(Writers) \cup Permutations(Requests)
=============================================================================
