--------------------------- MODULE LoginThrottle ---------------------------
(***************************************************************************)
(* RateLimiter under the login and the registration: fixed windows in      *)
(* Redis, one counter per address and one per address and user name, and   *)
(* the address a request is counted for (ClientIPResolver).  The /admin    *)
(* login has the same steps on keys of its own.                            *)
(*                                                                         *)
(* Redis runs a MULTI block as one step.  TTLs count down in seconds; a    *)
(* counter of 0 is a key that is not there, and a key without a TTL stays. *)
(***************************************************************************)
EXTENDS Naturals, Sequences, FiniteSets

CONSTANTS Client,        \* addresses that requests come from
          Forged,        \* what a client may write into X-Forwarded-For
          Proxies,       \* the trusted proxies before the application, in order
          Junk,          \* header entries that are no address
          Name, Req,
          None,
          LoginWindow, RegisterWindow,      \* AUTH_LOGIN_WINDOW_SECONDS, ...
          UserLimit, IpLimit, RegisterLimit \* AUTH_LOGIN_MAX_ATTEMPTS, ...

Addr == Client \cup (Forged \ Junk) \cup {Proxies[i] : i \in DOMAIN Proxies}

IpKey(a) == <<"login-ip", a>>
UserKey(a, n) == <<"login", a, n>>
RegisterKey(a) == <<"register", a>>
Key == {IpKey(a) : a \in Addr} \cup {RegisterKey(a) : a \in Addr}
         \cup {UserKey(a, n) : a \in Addr, n \in Name}

ASSUME ThrottleAssumption ==
  /\ Proxies \in Seq(Addr)
  /\ Junk \cap Client = {}
  /\ None \notin Nat \cup Addr \cup Name
  /\ LoginWindow \in Nat \ {0} /\ RegisterWindow \in Nat \ {0}
  /\ UserLimit \in Nat \ {0} /\ IpLimit \in Nat \ {0} /\ RegisterLimit \in Nat \ {0}

VARIABLES
  count,   \* the counter under each key, 0: no key
  ttl,     \* its remaining TTL, 0: none
  pc,      \* the step a login is at
  ip,      \* the address it is counted for
  name,    \* the user name it was sent with
  promise, \* history: the smallest Retry-After of the key's window, counted down
  recent   \* history: logins let through per client and age in seconds

redis == <<count, ttl>>
request == <<pc, ip, name>>
vars == <<redis, request, promise, recent>>

Ages == 0..(LoginWindow - 1)
Phases == {"idle", "user", "verify", "reset"}

\* Variant: the windows are swapped.
WindowSwapped(k) == IF k[1] = "register" THEN LoginWindow ELSE RegisterWindow

Window(k) == IF k[1] = "register" THEN RegisterWindow ELSE LoginWindow
Limit(k) == IF k[1] = "register" THEN RegisterLimit
            ELSE IF k[1] = "login" THEN UserLimit ELSE IpLimit

ThrottleTypeOK ==
  /\ count \in [Key -> Nat] /\ \A k \in Key : count[k] <= Limit(k) + 1
  /\ ttl \in [Key -> Nat]
  /\ \A k \in Key : ttl[k] <= (IF k[1] = "register" THEN RegisterWindow ELSE LoginWindow)
  /\ pc \in [Req -> Phases]
  /\ ip \in [Req -> Addr \cup {None}]
  /\ name \in [Req -> Name \cup {None}]
  /\ promise \in [Key -> Nat \cup {None}]
  /\ recent \in [Client -> [Ages -> Nat]]

ThrottleInit ==
  /\ count = [k \in Key |-> 0]
  /\ ttl = [k \in Key |-> 0]
  /\ pc = [r \in Req |-> "idle"]
  /\ ip = [r \in Req |-> None]
  /\ name = [r \in Req |-> None]
  /\ promise = [k \in Key |-> None]
  /\ recent = [c \in Client |-> [i \in Ages |-> 0]]
-----------------------------------------------------------------------------
\* What arrives at the application of a request of c that was sent with the
\* header before: each proxy appends the address it was reached from.
Route(c) == <<c>> \o Proxies
Forwarded(c, before) == before \o SubSeq(Route(c), 1, Len(Proxies))
Peer(c) == Route(c)[Len(Proxies) + 1]

\* Variant: the leftmost entry is taken for the client.
ResolveLeftmost(forwarded, peer) ==
  IF Proxies = <<>> \/ Len(forwarded) < Len(Proxies) \/ forwarded[1] \in Junk
  THEN peer ELSE forwarded[1]

\* ClientIPResolver.resolve with TRUSTED_PROXY_HOPS = Len(Proxies), its
\* documented condition.  Every proxy appends, so that a list is there whenever
\* hops are trusted and X-Real-IP is never looked at.
Resolve(forwarded, peer) ==
  LET hops == Len(Proxies) IN
  IF hops = 0 \/ Len(forwarded) < hops THEN peer
  ELSE LET candidate == forwarded[Len(forwarded) + 1 - hops]
       IN IF candidate \in Junk THEN peer ELSE candidate
-----------------------------------------------------------------------------
Lesser(m, n) == IF m <= n THEN m ELSE n
Down(n) == IF n > 0 THEN n - 1 ELSE 0

\* Variant: EXPIRE without NX.
HitExpire(k) ==
  /\ count' = [count EXCEPT ![k] = Lesser(@ + 1, Limit(k) + 1)]
  /\ ttl' = [ttl EXCEPT ![k] = Window(k)]

\* Variant: INCR first, EXPIRE in a command of its own that may be lost.
HitThenExpire(k) ==
  /\ count' = [count EXCEPT ![k] = Lesser(@ + 1, Limit(k) + 1)]
  /\ \/ ttl' = [ttl EXCEPT ![k] = IF count[k] = 0 THEN Window(k) ELSE @]
     \/ UNCHANGED ttl

\* hit: MULTI { INCR ; EXPIRE NX ; TTL }.  A count above the limit is as good
\* as any other, so it stops at limit + 1.
Hit(k) ==
  /\ count' = [count EXCEPT ![k] = Lesser(@ + 1, Limit(k) + 1)]
  /\ ttl' = [ttl EXCEPT ![k] = IF @ = 0 THEN Window(k) ELSE @]

Allowed(k) == count[k] < Limit(k)

\* TTL answers in rounded seconds; the answer 0 becomes a whole window.
RetryAfter(k) == {IF n > 0 THEN n ELSE Window(k) : n \in {ttl'[k], Down(ttl'[k])}}

\* The refusal of a hit tells the client when to come back.
Refuse(k) ==
  \E n \in RetryAfter(k) :
    promise' = [promise EXCEPT ![k] = IF @ = None THEN n ELSE Lesser(@, n)]
-----------------------------------------------------------------------------
Goto(r, p, a, n) ==
  /\ pc' = [pc EXCEPT ![r] = p]
  /\ ip' = [ip EXCEPT ![r] = a]
  /\ name' = [name EXCEPT ![r] = n]

Leave(r) == Goto(r, "idle", None, None)

\* login_rate_limit: the address first.
LoginIp(r, c, n, before) ==
  LET a == Resolve(Forwarded(c, before), Peer(c))
      k == IpKey(a)
  IN /\ pc[r] = "idle"
     /\ Hit(k)
     /\ IF Allowed(k)
        THEN /\ Goto(r, "user", a, n)
             /\ recent' = [recent EXCEPT ![c][0] = @ + 1]
             /\ UNCHANGED promise
        ELSE Refuse(k) /\ UNCHANGED <<request, recent>>

\* Then the address with the user name.
LoginUser(r) ==
  LET k == UserKey(ip[r], name[r]) IN
  /\ pc[r] = "user"
  /\ Hit(k)
  /\ IF Allowed(k)
     THEN Goto(r, "verify", ip[r], name[r]) /\ UNCHANGED promise
     ELSE Refuse(k) /\ Leave(r)
  /\ UNCHANGED recent

\* authenticate, issue_tokens and the commit: the password is right or not.
Verify(r) ==
  /\ pc[r] = "verify"
  /\ \/ Goto(r, "reset", ip[r], name[r])
     \/ Leave(r)
  /\ UNCHANGED <<redis, promise, recent>>

\* Variant: a success also frees the address.
ResetBoth(r) ==
  LET done == {UserKey(ip[r], name[r]), IpKey(ip[r])} IN
  /\ pc[r] = "reset"
  /\ count' = [k \in Key |-> IF k \in done THEN 0 ELSE count[k]]
  /\ ttl' = [k \in Key |-> IF k \in done THEN 0 ELSE ttl[k]]
  /\ promise' = [k \in Key |-> IF k \in done THEN None ELSE promise[k]]
  /\ Leave(r)
  /\ UNCHANGED recent

\* limiter.reset(throttle_key) after a success.
Reset(r) ==
  LET k == UserKey(ip[r], name[r]) IN
  /\ pc[r] = "reset"
  /\ count' = [count EXCEPT ![k] = 0]
  /\ ttl' = [ttl EXCEPT ![k] = 0]
  /\ promise' = [promise EXCEPT ![k] = None]
  /\ Leave(r)
  /\ UNCHANGED recent

\* register_rate_limit.
Register(c, before) ==
  LET k == RegisterKey(Resolve(Forwarded(c, before), Peer(c))) IN
  /\ Hit(k)
  /\ IF Allowed(k) THEN UNCHANGED promise ELSE Refuse(k)
  /\ UNCHANGED <<request, recent>>

\* Redis or the database fails, the client goes, the worker dies.
Abort(r) ==
  /\ pc[r] # "idle"
  /\ Leave(r)
  /\ UNCHANGED <<redis, promise, recent>>

Tick ==
  LET ends(k) == ttl[k] = 1 IN
  /\ ttl' = [k \in Key |-> Down(ttl[k])]
  /\ count' = [k \in Key |-> IF ends(k) THEN 0 ELSE count[k]]
  /\ promise' = [k \in Key |-> IF ends(k) \/ promise[k] = None THEN None
                               ELSE Down(promise[k])]
  /\ recent' = [c \in Client |-> [i \in Ages |-> IF i = 0 THEN 0 ELSE recent[c][i - 1]]]
  /\ UNCHANGED request

Headers == {<<>>} \cup {<<f>> : f \in Forged}

ThrottleNext ==
  \/ \E r \in Req, c \in Client, n \in Name, h \in Headers : LoginIp(r, c, n, h)
  \/ \E r \in Req : LoginUser(r)
  \/ \E r \in Req : Verify(r)
  \/ \E r \in Req : Reset(r)
  \/ \E c \in Client, h \in Headers : Register(c, h)
  \/ \E r \in Req : Abort(r)
  \/ Tick

\* Time passes; nobody need ever log in.
ThrottleSpec == ThrottleInit /\ [][ThrottleNext]_vars /\ WF_vars(Tick)
-----------------------------------------------------------------------------
\* Retry-After is true to the second: whatever others do meanwhile, the window
\* a client was refused in is over one second after the time it was told.
RetryAfterHolds ==
  \A k \in Key : promise[k] # None => ttl[k] <= promise[k] + 1

\* The logins let through at the ages A, f[i] of them at age i: each a pair.
LetThrough(f, A) == UNION {{i} \X (1..f[i]) : i \in A}
Total(f) == Cardinality(LetThrough(f, Ages))

\* No header a client writes, no reset and no order of requests lets more than
\* two windows' worth of its logins through in the time of one window.
AttemptsBounded ==
  \A c \in Client : Total(recent[c]) <= 2 * IpLimit

\* No lockout is for ever: the counters of a client come to their end again and
\* again, also when it never stops trying and when processes die at any step.
CountersEnd ==
  \A c \in Client :
    /\ []<>(count[IpKey(c)] = 0)
    /\ []<>(count[RegisterKey(c)] = 0)
    /\ \A n \in Name : []<>(count[UserKey(c, n)] = 0)
=============================================================================
