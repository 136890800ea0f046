----------------------------- MODULE UserSessions -----------------------------
(***************************************************************************)
(* What the broker promises of logins: a user is logged in from one client *)
(* at a time.  A client that logs in as another user has left the first    *)
(* one's session.                                                          *)
(***************************************************************************)
CONSTANTS
    Conns,     \* connections
    Names,     \* user names
    None       \* no user

VARIABLE
    session    \* per connection, the user who is logged in through it

Init == session = [c \in Conns |-> None]

Login(c, name) ==
    /\ \A d \in Conns : session[d] # name
    /\ session' = [session EXCEPT ![c] = name]

Logout(c) == session' = [session EXCEPT ![c] = None]

Next == \E c \in Conns : Logout(c) \/ \E name \in Names : Login(c, name)

Spec == Init /\ [][Next]_session
=============================================================================
