---------------------------- MODULE SessionBook ----------------------------
(***************************************************************************)
(* What the admin sessions promise, without Redis: a session has one user  *)
(* for good and ends for good, and a change of an account takes effect     *)
(* when the sessions its user had at the beginning have ended.  The one    *)
(* exception is admitted in the open: a session may be missed when its     *)
(* cookie goes out while such a change is under way.                       *)
(***************************************************************************)
CONSTANTS User, Sid, Change,
          None,   \* nobody
          Anon    \* the visitor before the login

VARIABLES
  owner,   \* owner[s]: whose session s is; None: never opened
  live,    \* sessions that have not ended
  given,   \* sessions whose id a browser has been given
  missed,  \* sessions a change may miss
  may,     \* users who may use /admin
  whom,    \* whom[c]: the user of a change under way that ends sessions
  due      \* due[c]: the sessions it has to end

book == <<owner, live, given, missed, may, whom, due>>

BookInit ==
  /\ owner = [s \in Sid |-> None]
  /\ live = {} /\ given = {} /\ missed = {}
  /\ may \in SUBSET User
  /\ whom = [c \in Change |-> None]
  /\ due = [c \in Change |-> {}]

\* Only an id that was never used begins a session.
Open(s, w) ==
  /\ owner[s] = None
  /\ owner' = [owner EXCEPT ![s] = w]
  /\ live' = live \cup {s}
  /\ given' \in {given, given \cup {s}}
  /\ UNCHANGED <<missed, may, whom, due>>

\* The browser gets the id.
Give(s) ==
  /\ owner[s] # None
  /\ given' = given \cup {s}
  /\ \/ missed' = missed
     \/ (\E c \in Change : whom[c] = owner[s]) /\ missed' = missed \cup {s}
  /\ UNCHANGED <<owner, live, may, whom, due>>

\* A logout, an expiry, a revocation.
End(ended) ==
  /\ live' = live \ ended
  /\ UNCHANGED <<owner, given, missed, may, whom, due>>

Arrange(c, u, sessions) ==
  /\ whom' = [whom EXCEPT ![c] = u]
  /\ due' = [due EXCEPT ![c] = sessions]
  /\ UNCHANGED <<owner, live, given, missed>>

\* A demotion, a new password or a deletion begins.
Revoke(c, u) ==
  /\ whom[c] = None
  /\ Arrange(c, u, {s \in live \cap given : owner[s] = u})
  /\ may' = may

\* It takes effect: for a demotion or a deletion the user is out.
Settle(c) ==
  /\ whom[c] # None
  /\ due[c] \cap live \subseteq missed
  /\ may' \in {may, may \ {whom[c]}}
  /\ Arrange(c, None, {})

\* It fails; sessions may have ended all the same.
Fail(c) ==
  /\ whom[c] # None
  /\ Arrange(c, None, {})
  /\ may' = may

Grant(u) ==
  /\ may' = may \cup {u}
  /\ UNCHANGED <<owner, live, given, missed, whom, due>>

BookNext ==
  \/ \E s \in Sid, w \in User \cup {Anon} : Open(s, w)
  \/ \E s \in Sid : Give(s)
  \/ \E ended \in SUBSET live : End(ended)
  \/ \E c \in Change, u \in User : Revoke(c, u)
  \/ \E c \in Change : Settle(c)
  \/ \E c \in Change : Fail(c)
  \/ \E u \in User : Grant(u)

BookSpec == BookInit /\ [][BookNext]_book
=============================================================================
