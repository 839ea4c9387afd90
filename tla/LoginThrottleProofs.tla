------------------------ MODULE LoginThrottleProofs ------------------------
(***************************************************************************)
(* Proofs about LoginThrottle for any clients, proxies, names, limits and  *)
(* windows: the address a request is counted for, the type invariant, the  *)
(* truth of Retry-After, and the bound on the logins of a client.          *)
(***************************************************************************)
EXTENDS LoginThrottle, SequenceTheorems, FiniteSetTheorems, TLAPS

USE ThrottleAssumption

\* The counter under a key and what its refusals have promised.
KeyOK(k) ==
  /\ count[k] \in Nat /\ count[k] <= Limit(k) + 1
  /\ ttl[k] \in Nat /\ ttl[k] <= Window(k)
  /\ promise[k] \in Nat \cup {None}
  /\ promise[k] # None => ttl[k] # 0 /\ ttl[k] <= promise[k] + 1
  /\ count[k] # 0 => ttl[k] # 0

\* A login past its first step has an address and a user name.
RequestOK ==
  /\ pc \in [Req -> Phases]
  /\ ip \in [Req -> Addr \cup {None}]
  /\ name \in [Req -> Name \cup {None}]
  /\ \A r \in Req : pc[r] # "idle" => ip[r] \in Addr /\ name[r] \in Name

RedisOK ==
  /\ DOMAIN count = Key /\ count = [k \in Key |-> count[k]]
  /\ DOMAIN ttl = Key /\ ttl = [k \in Key |-> ttl[k]]
  /\ DOMAIN promise = Key /\ promise = [k \in Key |-> promise[k]]
  /\ \A k \in Key : KeyOK(k)

ThrottleInv == RedisOK /\ RequestOK /\ recent \in [Client -> [Ages -> Nat]]

\* A counter never stands without a TTL: INCR and EXPIRE are one block.
CountersHaveTtl == \A k \in Key : count[k] > 0 => ttl[k] > 0
-----------------------------------------------------------------------------
\* Whatever a client writes into X-Forwarded-For, it is counted for its own
\* address: the proxies' entries are the last of the list.
THEOREM ResolvedIsTheClient ==
  ASSUME NEW c \in Client, NEW before \in Seq(Forged)
  PROVE  Resolve(Forwarded(c, before), Peer(c)) = c
<1> DEFINE n == Len(Proxies)
           all == Client \cup Forged \cup Addr
           appended == SubSeq(Route(c), 1, n)
<1>1. n \in Nat /\ Proxies \in Seq(all) /\ <<c>> \in Seq(all) /\ before \in Seq(all)
  BY DEF all, Addr
<1>2. /\ Route(c) \in Seq(all) /\ Len(Route(c)) = n + 1
      /\ Route(c)[1] = c
  BY <1>1 DEF Route
<1>3. CASE n = 0
  BY <1>2, <1>3 DEF Resolve, Peer
<1>4. CASE n # 0
  <2>1. appended \in Seq(all) /\ Len(appended) = n /\ appended[1] = c
    BY <1>1, <1>2, <1>4
  <2>2. /\ Len(before \o appended) = Len(before) + n
        /\ (before \o appended)[Len(before) + 1] = c
    BY <1>1, <2>1, <1>4, ConcatProperties
  <2>3. Forwarded(c, before) = before \o appended
    BY DEF Forwarded
  <2>4. Len(before) \in Nat /\ Len(before) + n + 1 - n = Len(before) + 1 /\ ~(Len(before) + n < n)
    BY <1>1
  <2>5. c \notin Junk
    OBVIOUS
  <2> QED BY <2>2, <2>3, <2>4, <2>5, <1>4 DEF Resolve
<1> QED BY <1>3, <1>4

LEMMA HeadersAreLists == Headers \subseteq Seq(Forged)
<1>1. \A f \in Forged : <<f>> \in Seq(Forged)
  OBVIOUS
<1>2. <<>> \in Seq(Forged)
  OBVIOUS
<1> QED BY <1>1, <1>2, Zenon DEF Headers

LEMMA WindowNatural ==
  ASSUME NEW k
  PROVE  /\ Window(k) \in Nat /\ Window(k) # 0
         /\ Limit(k) \in Nat /\ Limit(k) # 0
BY DEF Window, Limit
-----------------------------------------------------------------------------
\* hit keeps the counter within its limit plus one, starts a window only where
\* none runs, and leaves every other key alone.
LEMMA HitKey ==
  ASSUME RedisOK, NEW k \in Key, Hit(k)
  PROVE  /\ DOMAIN count' = Key /\ count' = [j \in Key |-> count'[j]]
         /\ DOMAIN ttl' = Key /\ ttl' = [j \in Key |-> ttl'[j]]
         /\ \A j \in Key \ {k} : count'[j] = count[j] /\ ttl'[j] = ttl[j]
         /\ count'[k] \in Nat /\ count'[k] <= Limit(k) + 1
         /\ ttl'[k] \in Nat /\ ttl'[k] <= Window(k) /\ ttl'[k] # 0
         /\ ttl[k] # 0 => ttl'[k] = ttl[k]
<1>1. KeyOK(k)
  BY DEF RedisOK
<1>2. /\ DOMAIN count' = Key /\ count' = [j \in Key |-> count'[j]]
      /\ DOMAIN ttl' = Key /\ ttl' = [j \in Key |-> ttl'[j]]
      /\ \A j \in Key \ {k} : count'[j] = count[j] /\ ttl'[j] = ttl[j]
      /\ count'[k] = Lesser(count[k] + 1, Limit(k) + 1)
      /\ ttl'[k] = IF ttl[k] = 0 THEN Window(k) ELSE ttl[k]
  BY DEF RedisOK, Hit
<1>3. count[k] \in Nat /\ ttl[k] \in Nat /\ ttl[k] <= Window(k)
  BY <1>1 DEF KeyOK
<1>4. count'[k] \in Nat /\ count'[k] <= Limit(k) + 1
  <2>1. Limit(k) \in Nat
    BY WindowNatural
  <2> QED BY <1>2, <1>3, <2>1 DEF Lesser
<1>5. /\ ttl'[k] \in Nat /\ ttl'[k] <= Window(k) /\ ttl'[k] # 0
      /\ ttl[k] # 0 => ttl'[k] = ttl[k]
  <2>1. Window(k) \in Nat /\ Window(k) # 0
    BY WindowNatural
  <2> QED BY <1>2, <1>3, <2>1
<1> QED BY <1>2, <1>4, <1>5

\* A hit that is allowed makes no promise.
LEMMA HitAllowed ==
  ASSUME RedisOK, NEW k \in Key, Hit(k), UNCHANGED promise
  PROVE  RedisOK'
<1>1. \A j \in Key : KeyOK(j)'
  <2> TAKE j \in Key
  <2>1. KeyOK(j)
    BY DEF RedisOK
  <2> QED BY <2>1, HitKey DEF KeyOK, Window, Limit
<1> QED BY <1>1, HitKey DEF RedisOK

\* A refusal promises the end of the window it has just read.
LEMMA HitRefused ==
  ASSUME RedisOK, NEW k \in Key, Hit(k), Refuse(k)
  PROVE  RedisOK'
<1>1. PICK n \in RetryAfter(k) :
        promise' = [promise EXCEPT ![k] = IF @ = None THEN n ELSE Lesser(@, n)]
  BY DEF Refuse
<1>2. n \in Nat /\ ttl'[k] <= n + 1
  BY HitKey, WindowNatural DEF RetryAfter, Down
<1>3. KeyOK(k)
  BY DEF RedisOK
<1>4. promise'[k] \in Nat /\ ttl'[k] <= promise'[k] + 1
  <2>1. CASE promise[k] = None
    BY <1>1, <1>2, <2>1 DEF RedisOK
  <2>2. CASE promise[k] # None
    BY <1>1, <1>2, <1>3, <2>2, HitKey DEF RedisOK, KeyOK, Lesser
  <2> QED BY <2>1, <2>2
<1>5. /\ DOMAIN promise' = Key /\ promise' = [j \in Key |-> promise'[j]]
      /\ \A j \in Key \ {k} : promise'[j] = promise[j]
  BY <1>1 DEF RedisOK
<1>6. \A j \in Key : KeyOK(j)'
  <2> TAKE j \in Key
  <2>1. CASE j = k
    BY <2>1, <1>4, HitKey DEF KeyOK, Window, Limit
  <2>2. CASE j # k
    <3>1. KeyOK(j)
      BY DEF RedisOK
    <3> QED BY <2>2, <3>1, <1>5, HitKey DEF KeyOK, Window, Limit
  <2> QED BY <2>1, <2>2
<1> QED BY <1>5, <1>6, HitKey DEF RedisOK

LEMMA RedisSame ==
  ASSUME RedisOK, UNCHANGED <<redis, promise>>
  PROVE  RedisOK'
BY DEF RedisOK, KeyOK, redis, Window, Limit

LEMMA RequestSame ==
  ASSUME RequestOK, UNCHANGED request
  PROVE  RequestOK'
BY DEF RequestOK, request

LEMMA Moved ==
  ASSUME RequestOK, NEW r \in Req, NEW p \in Phases, NEW a \in Addr, NEW n \in Name,
         Goto(r, p, a, n) \/ Leave(r)
  PROVE  RequestOK'
BY DEF RequestOK, Goto, Leave, Phases
-----------------------------------------------------------------------------
LEMMA ThrottleInitially == ThrottleInit => ThrottleInv
<1> SUFFICES ASSUME ThrottleInit PROVE ThrottleInv
  OBVIOUS
<1>1. RedisOK
  BY WindowNatural DEF ThrottleInit, RedisOK, KeyOK
<1>2. RequestOK /\ recent \in [Client -> [Ages -> Nat]]
  BY DEF ThrottleInit, RequestOK, Phases
<1> QED BY <1>1, <1>2 DEF ThrottleInv

LEMMA LoginIpStep ==
  ASSUME ThrottleInv, NEW r \in Req, NEW c \in Client, NEW n \in Name, NEW h \in Headers,
         LoginIp(r, c, n, h)
  PROVE  ThrottleInv'
<1> DEFINE k == IpKey(c)
<1>1. Resolve(Forwarded(c, h), Peer(c)) = c /\ c \in Addr /\ k \in Key
  BY ResolvedIsTheClient, HeadersAreLists DEF Addr, Key
<1>2. Hit(k) /\ RedisOK /\ RequestOK
  BY <1>1 DEF LoginIp, ThrottleInv
<1>3. CASE Allowed(k)
  <2>1. Goto(r, "user", c, n) /\ UNCHANGED promise /\ recent' = [recent EXCEPT ![c][0] = @ + 1]
    BY <1>1, <1>3 DEF LoginIp
  <2>2. 0 \in Ages
    BY DEF Ages
  <2>3. recent' \in [Client -> [Ages -> Nat]]
    BY <2>1, <2>2 DEF ThrottleInv
  <2>4. RequestOK'
    BY <1>1, <1>2, <2>1, Moved DEF Phases
  <2> QED BY <1>1, <1>2, <2>1, <2>3, <2>4, HitAllowed DEF ThrottleInv
<1>4. CASE ~Allowed(k)
  <2>1. Refuse(k) /\ UNCHANGED <<request, recent>>
    BY <1>1, <1>4 DEF LoginIp
  <2> QED BY <1>1, <1>2, <2>1, HitRefused, RequestSame DEF ThrottleInv
<1> QED BY <1>3, <1>4

LEMMA LoginUserStep ==
  ASSUME ThrottleInv, NEW r \in Req, LoginUser(r)
  PROVE  ThrottleInv'
<1> DEFINE k == UserKey(ip[r], name[r])
<1>1. ip[r] \in Addr /\ name[r] \in Name /\ k \in Key /\ RedisOK /\ RequestOK
  BY DEF ThrottleInv, RequestOK, LoginUser, Key
<1>2. Hit(k) /\ UNCHANGED recent
  BY DEF LoginUser
<1>3. RequestOK'
  BY <1>1, Moved DEF LoginUser, Phases
<1>4. RedisOK'
  <2>1. CASE Allowed(k)
    BY <1>1, <1>2, <2>1, HitAllowed DEF LoginUser
  <2>2. CASE ~Allowed(k)
    BY <1>1, <1>2, <2>2, HitRefused DEF LoginUser
  <2> QED BY <2>1, <2>2
<1> QED BY <1>2, <1>3, <1>4 DEF ThrottleInv

LEMMA ResetStep ==
  ASSUME ThrottleInv, NEW r \in Req, Reset(r)
  PROVE  ThrottleInv'
<1> DEFINE k == UserKey(ip[r], name[r])
<1>1. ip[r] \in Addr /\ name[r] \in Name /\ k \in Key /\ RedisOK /\ RequestOK
  BY DEF ThrottleInv, RequestOK, Reset, Key
<1>2. RequestOK'
  BY <1>1, Moved DEF Reset, Phases
<1>3. /\ DOMAIN count' = Key /\ count' = [j \in Key |-> count'[j]]
      /\ DOMAIN ttl' = Key /\ ttl' = [j \in Key |-> ttl'[j]]
      /\ DOMAIN promise' = Key /\ promise' = [j \in Key |-> promise'[j]]
      /\ count'[k] = 0 /\ ttl'[k] = 0 /\ promise'[k] = None
      /\ \A j \in Key \ {k} : count'[j] = count[j] /\ ttl'[j] = ttl[j] /\ promise'[j] = promise[j]
  BY <1>1 DEF Reset, RedisOK
<1>4. \A j \in Key : KeyOK(j)'
  <2> TAKE j \in Key
  <2>1. KeyOK(j)
    BY <1>1 DEF RedisOK
  <2> QED BY <2>1, <1>3, WindowNatural DEF KeyOK, Window, Limit
<1>5. RedisOK'
  BY <1>3, <1>4 DEF RedisOK
<1> QED BY <1>2, <1>5 DEF ThrottleInv, Reset

LEMMA RegisterStep ==
  ASSUME ThrottleInv, NEW c \in Client, NEW h \in Headers, Register(c, h)
  PROVE  ThrottleInv'
<1> DEFINE k == RegisterKey(c)
<1>1. Resolve(Forwarded(c, h), Peer(c)) = c /\ c \in Addr /\ k \in Key
  BY ResolvedIsTheClient, HeadersAreLists DEF Addr, Key
<1>2. Hit(k) /\ RedisOK /\ RequestOK /\ UNCHANGED <<request, recent>>
  BY <1>1 DEF Register, ThrottleInv
<1>3. RedisOK'
  <2>1. CASE Allowed(k)
    BY <1>1, <1>2, <2>1, HitAllowed DEF Register
  <2>2. CASE ~Allowed(k)
    BY <1>1, <1>2, <2>2, HitRefused DEF Register
  <2> QED BY <2>1, <2>2
<1> QED BY <1>2, <1>3, RequestSame DEF ThrottleInv

\* A window that ends takes its counter and its promises with it.
LEMMA TickStep ==
  ASSUME ThrottleInv, Tick
  PROVE  ThrottleInv'
<1>1. /\ DOMAIN count' = Key /\ count' = [j \in Key |-> count'[j]]
      /\ DOMAIN ttl' = Key /\ ttl' = [j \in Key |-> ttl'[j]]
      /\ DOMAIN promise' = Key /\ promise' = [j \in Key |-> promise'[j]]
  BY DEF Tick
<1>2. \A k \in Key : KeyOK(k)'
  <2> TAKE k \in Key
  <2>1. KeyOK(k)
    BY DEF ThrottleInv, RedisOK
  <2>2. /\ ttl'[k] = Down(ttl[k])
        /\ count'[k] = IF ttl[k] = 1 THEN 0 ELSE count[k]
        /\ promise'[k] = IF ttl[k] = 1 \/ promise[k] = None THEN None ELSE Down(promise[k])
    BY DEF Tick
  <2> QED BY <2>1, <2>2, WindowNatural DEF KeyOK, Down, Window, Limit
<1>3. recent' \in [Client -> [Ages -> Nat]]
  <2>1. \A i \in Ages : i # 0 => i - 1 \in Ages
    BY DEF Ages
  <2> QED BY <2>1 DEF Tick, ThrottleInv
<1> QED BY <1>1, <1>2, <1>3, RequestSame DEF ThrottleInv, RedisOK, Tick

LEMMA ThrottleStep == ThrottleInv /\ [ThrottleNext]_vars => ThrottleInv'
<1> SUFFICES ASSUME ThrottleInv, [ThrottleNext]_vars PROVE ThrottleInv'
  OBVIOUS
<1>1. CASE UNCHANGED vars
  BY <1>1, RedisSame, RequestSame DEF vars, ThrottleInv
<1>2. ASSUME NEW r \in Req, Verify(r) \/ Abort(r) PROVE ThrottleInv'
  <2>1. pc[r] # "idle" /\ UNCHANGED <<redis, promise, recent>>
    BY <1>2 DEF Verify, Abort
  <2>2. ip[r] \in Addr /\ name[r] \in Name
    BY <2>1 DEF ThrottleInv, RequestOK
  <2>3. RequestOK'
    BY <1>2, <2>2, Moved DEF Verify, Abort, Phases, ThrottleInv
  <2> QED BY <2>1, <2>3, RedisSame DEF ThrottleInv
<1> QED BY <1>1, <1>2, LoginIpStep, LoginUserStep, ResetStep, RegisterStep, TickStep DEF ThrottleNext

LEMMA ThrottleInvariant == ThrottleSpec => []ThrottleInv
BY ThrottleInitially, ThrottleStep, PTL DEF ThrottleSpec
-----------------------------------------------------------------------------
\* Every counter stays within its limit plus one and every TTL within its
\* window, and requests keep their type.
THEOREM ThrottleTypeCorrect == ThrottleSpec => []ThrottleTypeOK
<1>1. ThrottleInv => ThrottleTypeOK
  <2> SUFFICES ASSUME ThrottleInv PROVE ThrottleTypeOK
    OBVIOUS
  <2>1. count \in [Key -> Nat] /\ ttl \in [Key -> Nat] /\ promise \in [Key -> Nat \cup {None}]
    BY DEF ThrottleInv, RedisOK, KeyOK
  <2> QED BY <2>1 DEF ThrottleInv, RedisOK, RequestOK, KeyOK, ThrottleTypeOK, Window
<1> QED BY <1>1, ThrottleInvariant, PTL

\* No hit, reset or expiry makes the server break what Retry-After said.
THEOREM RetryAfterIsTrue == ThrottleSpec => []RetryAfterHolds
<1>1. ThrottleInv => RetryAfterHolds
  BY DEF ThrottleInv, RedisOK, KeyOK, RetryAfterHolds
<1> QED BY <1>1, ThrottleInvariant, PTL

\* No step of any request, nor its death, leaves a counter without a TTL.
THEOREM CountersAlwaysExpire == ThrottleSpec => []CountersHaveTtl
<1>1. ThrottleInv => CountersHaveTtl
  BY DEF ThrottleInv, RedisOK, KeyOK, CountersHaveTtl
<1> QED BY <1>1, ThrottleInvariant, PTL
-----------------------------------------------------------------------------
\* The logins of a client that were let through, as a set of pairs.
LEMMA LetThroughMember ==
  ASSUME NEW f, NEW A, NEW p
  PROVE  p \in LetThrough(f, A) <=> \E i \in A : \E n \in 1..f[i] : p = <<i, n>>
BY DEF LetThrough

\* One more of age 0 is one more pair.
LEMMA OneMore ==
  ASSUME NEW f \in [Ages -> Nat], NEW A \in SUBSET Ages, 0 \in A,
         IsFiniteSet(LetThrough(f, A)),
         NEW g, g = [f EXCEPT ![0] = @ + 1]
  PROVE  /\ IsFiniteSet(LetThrough(g, A))
         /\ Cardinality(LetThrough(g, A)) = Cardinality(LetThrough(f, A)) + 1
<1> DEFINE new == <<0, f[0] + 1>>
<1>1. /\ f[0] \in Nat /\ g[0] = f[0] + 1
      /\ \A i \in A : i # 0 => g[i] = f[i]
  OBVIOUS
<1>2. 1..g[0] = (1..f[0]) \cup {f[0] + 1} /\ f[0] + 1 \notin 1..f[0]
  BY <1>1
<1>3. LetThrough(g, A) = LetThrough(f, A) \cup {new}
  <2>1. ASSUME NEW p \in LetThrough(g, A) PROVE p \in LetThrough(f, A) \cup {new}
    <3>1. PICK i \in A : \E n \in 1..g[i] : p = <<i, n>>
      BY <2>1 DEF LetThrough
    <3>2. PICK n \in 1..g[i] : p = <<i, n>>
      BY <3>1
    <3>3. CASE n \in 1..f[i]
      BY <3>2, <3>3, LetThroughMember
    <3>4. CASE n \notin 1..f[i]
      <4>1. i = 0 /\ n = f[0] + 1
        BY <1>1, <1>2, <3>4
      <4> QED BY <3>2, <4>1
    <3> QED BY <3>3, <3>4
  <2>2. ASSUME NEW p \in LetThrough(f, A) PROVE p \in LetThrough(g, A)
    <3>1. PICK i \in A : \E n \in 1..f[i] : p = <<i, n>>
      BY <2>2 DEF LetThrough
    <3>2. PICK n \in 1..f[i] : p = <<i, n>>
      BY <3>1
    <3>3. n \in 1..g[i]
      BY <1>1, <1>2
    <3> QED BY <3>2, <3>3, LetThroughMember
  <2>3. new \in LetThrough(g, A)
    <3>1. f[0] + 1 \in 1..g[0]
      BY <1>2
    <3> QED BY <3>1, LetThroughMember
  <2> QED BY <2>1, <2>2, <2>3
<1>4. new \notin LetThrough(f, A)
  <2> SUFFICES ASSUME NEW i \in A, NEW n \in 1..f[i], new = <<i, n>> PROVE FALSE
    BY LetThroughMember
  <2>1. i = 0 /\ n = f[0] + 1
    OBVIOUS
  <2> QED BY <1>2, <2>1
<1> DEFINE F == LetThrough(f, A)
           G == LetThrough(g, A)
<1>5. IsFiniteSet(F) /\ G = F \cup {new} /\ new \notin F
  BY <1>3, <1>4
<1> HIDE DEF new, F, G
<1>6. IsFiniteSet(G) /\ Cardinality(G) = Cardinality(F) + 1
  BY <1>5, FS_AddElement
<1> QED BY <1>6 DEF F, G

LEMMA Unmoved ==
  ASSUME NEW f \in [Ages -> Nat], NEW A \in SUBSET Ages, 0 \notin A,
         NEW g, g = [f EXCEPT ![0] = @ + 1]
  PROVE  LetThrough(g, A) = LetThrough(f, A)
<1>1. \A i \in A : g[i] = f[i]
  OBVIOUS
<1> QED BY <1>1 DEF LetThrough

\* A second older, logins are at most as many, and none is of age 0.
LEMMA Older ==
  ASSUME NEW f \in [Ages -> Nat], NEW A \in SUBSET Ages, NEW B \in SUBSET Ages,
         IsFiniteSet(LetThrough(f, A)),
         NEW g, g = [i \in Ages |-> IF i = 0 THEN 0 ELSE f[i - 1]],
         \A i \in B : i # 0 => i - 1 \in A
  PROVE  /\ IsFiniteSet(LetThrough(g, B))
         /\ Cardinality(LetThrough(g, B)) <= Cardinality(LetThrough(f, A))
<1> DEFINE h == [p \in LetThrough(g, B) |-> <<p[1] - 1, p[2]>>]
<1>1. ASSUME NEW p \in LetThrough(g, B)
      PROVE  /\ p = <<p[1], p[2]>> /\ p[1] \in Int
             /\ h[p] \in LetThrough(f, A) /\ h[p] = <<p[1] - 1, p[2]>>
  <2>1. PICK i \in B : \E n \in 1..g[i] : p = <<i, n>>
    BY <1>1 DEF LetThrough
  <2>2. PICK n \in 1..g[i] : p = <<i, n>>
    BY <2>1
  <2>3. i # 0
    BY DEF Ages
  <2>4. i - 1 \in A /\ n \in 1..f[i - 1]
    BY <2>3
  <2>5. i \in Int /\ h[p] = <<i - 1, n>>
    BY <1>1, <2>2 DEF Ages
  <2>6. <<i - 1, n>> \in LetThrough(f, A)
    BY <2>4, LetThroughMember
  <2> QED BY <2>2, <2>5, <2>6
<1>2. h \in Injection(LetThrough(g, B), LetThrough(f, A))
  <2>1. h \in [LetThrough(g, B) -> LetThrough(f, A)]
    BY <1>1
  <2>2. ASSUME NEW p \in LetThrough(g, B), NEW q \in LetThrough(g, B), h[p] = h[q]
        PROVE  p = q
    <3>1. <<p[1] - 1, p[2]>> = <<q[1] - 1, q[2]>>
      BY <1>1, <2>2
    <3>2. p[1] - 1 = q[1] - 1 /\ p[2] = q[2]
      BY <3>1
    <3>3. p[1] \in Int /\ q[1] \in Int /\ p = <<p[1], p[2]>> /\ q = <<q[1], q[2]>>
      BY <1>1
    <3>4. p[1] = q[1]
      BY <3>2, <3>3
    <3> QED BY <3>2, <3>3, <3>4
  <2> HIDE DEF h
  <2> QED BY <2>1, <2>2 DEF Injection, IsInjective
<1> HIDE DEF h
<1> QED BY <1>2, FS_Injection

\* Fewer ages, fewer logins.
LEMMA FewerAges ==
  ASSUME NEW f, NEW A, NEW B, A \subseteq B, IsFiniteSet(LetThrough(f, B))
  PROVE  /\ IsFiniteSet(LetThrough(f, A))
         /\ Cardinality(LetThrough(f, A)) <= Cardinality(LetThrough(f, B))
<1>1. LetThrough(f, A) \subseteq LetThrough(f, B)
  BY DEF LetThrough
<1> DEFINE F == LetThrough(f, A)
           G == LetThrough(f, B)
<1>2. F \subseteq G /\ IsFiniteSet(G)
  BY <1>1
<1> HIDE DEF F, G
<1>3. IsFiniteSet(F) /\ Cardinality(F) <= Cardinality(G)
  BY <1>2, FS_Subset
<1> QED BY <1>3 DEF F, G

LEMMA HowMany ==
  ASSUME NEW f, NEW A, IsFiniteSet(LetThrough(f, A))
  PROVE  Cardinality(LetThrough(f, A)) \in Nat
<1> DEFINE F == LetThrough(f, A)
<1>1. IsFiniteSet(F)
  OBVIOUS
<1> HIDE DEF F
<1>2. Cardinality(F) \in Nat
  BY <1>1, FS_CardinalityType
<1> QED BY <1>2 DEF F

LEMMA NoneOfNoAge ==
  ASSUME NEW f, NEW A, A = {} \/ (A = {0} /\ f[0] = 0)
  PROVE  Cardinality(LetThrough(f, A)) = 0
<1>1. LetThrough(f, A) = {}
  BY DEF LetThrough
<1> QED BY <1>1, FS_EmptySet

\* The ages in the window that runs for t more seconds.
Fresh(t) == {i \in Ages : t # 0 /\ i + t <= LoginWindow}

\* A client's budget under a counter that stands at n for t seconds: what the
\* running window let through was counted in it, and what came before it was
\* counted in one window.
Budget(f, n, t) ==
  /\ IsFiniteSet(LetThrough(f, Ages))
  /\ Cardinality(LetThrough(f, Fresh(t))) <= n
  /\ Cardinality(LetThrough(f, Fresh(t))) <= IpLimit
  /\ Cardinality(LetThrough(f, Ages \ Fresh(t))) <= IpLimit
  /\ t = 0 => f[0] = 0

LEMMA BudgetAfterLogin ==
  ASSUME NEW f \in [Ages -> Nat], NEW n \in Nat, NEW t \in Nat, t <= LoginWindow,
         Budget(f, n, t), n < IpLimit,
         NEW g, g = [f EXCEPT ![0] = @ + 1],
         NEW u, u = IF t = 0 THEN LoginWindow ELSE t
  PROVE  Budget(g, n + 1, u)
<1>1. 0 \in Ages /\ u # 0 /\ u \in Nat /\ u <= LoginWindow /\ 0 \in Fresh(u)
  BY DEF Ages, Fresh
<1>2. IsFiniteSet(LetThrough(f, Ages)) /\ Fresh(u) \in SUBSET Ages
  BY DEF Budget, Fresh
<1>3. IsFiniteSet(LetThrough(g, Ages))
  BY <1>1, <1>2, OneMore
<1>4. /\ IsFiniteSet(LetThrough(f, Fresh(u)))
      /\ Cardinality(LetThrough(f, Fresh(u))) \in Nat
  BY <1>2, FewerAges, HowMany
<1>5. Cardinality(LetThrough(g, Fresh(u))) = Cardinality(LetThrough(f, Fresh(u))) + 1
  BY <1>1, <1>2, <1>4, OneMore
<1>6. LetThrough(g, Ages \ Fresh(u)) = LetThrough(f, Ages \ Fresh(u))
  BY <1>1, Unmoved
<1>7. /\ Cardinality(LetThrough(f, Fresh(u))) <= n
      /\ Cardinality(LetThrough(f, Ages \ Fresh(u))) <= IpLimit
  <2>1. CASE t = 0
    <3>1. Fresh(u) = {0} /\ Ages \ Fresh(t) = Ages
      BY <2>1 DEF Fresh, Ages
    <3>2. Cardinality(LetThrough(f, Fresh(u))) = 0
      BY <2>1, <3>1, NoneOfNoAge DEF Budget
    <3>3. Cardinality(LetThrough(f, Ages)) <= IpLimit
      BY <3>1 DEF Budget
    <3>4. /\ IsFiniteSet(LetThrough(f, Ages \ Fresh(u)))
          /\ Cardinality(LetThrough(f, Ages \ Fresh(u))) <= Cardinality(LetThrough(f, Ages))
      BY <1>2, FewerAges
    <3>5. Cardinality(LetThrough(f, Ages \ Fresh(u))) \in Nat /\ Cardinality(LetThrough(f, Ages)) \in Nat
      BY <1>2, <3>4, HowMany
    <3> QED BY <3>2, <3>3, <3>4, <3>5
  <2>2. CASE t # 0
    BY <2>2 DEF Budget
  <2> QED BY <2>1, <2>2
<1>8. /\ Cardinality(LetThrough(g, Fresh(u))) <= n + 1
      /\ Cardinality(LetThrough(g, Fresh(u))) <= IpLimit
  BY <1>4, <1>5, <1>7
<1> QED BY <1>1, <1>3, <1>6, <1>7, <1>8 DEF Budget

LEMMA BudgetAfterTick ==
  ASSUME NEW f \in [Ages -> Nat], NEW n \in Nat, NEW t \in Nat, t <= LoginWindow,
         Budget(f, n, t),
         NEW g, g = [i \in Ages |-> IF i = 0 THEN 0 ELSE f[i - 1]],
         NEW m, m = IF t = 1 THEN 0 ELSE n
  PROVE  Budget(g, m, Down(t))
<1>1. IsFiniteSet(LetThrough(f, Ages))
  BY DEF Budget
<1>2. Fresh(t) \in SUBSET Ages /\ Ages \ Fresh(t) \in SUBSET Ages
      /\ Fresh(Down(t)) \in SUBSET Ages /\ Ages \ Fresh(Down(t)) \in SUBSET Ages
  BY DEF Fresh
<1>3. 0 \in Ages /\ g[0] = 0
  BY DEF Ages
<1>4. IsFiniteSet(LetThrough(g, Ages))
  <2>1. \A i \in Ages : i # 0 => i - 1 \in Ages
    BY DEF Ages
  <2> QED BY <1>1, <2>1, Older
<1>5. ASSUME NEW A \in SUBSET Ages, NEW B \in SUBSET Ages,
             \A i \in B : i # 0 => i - 1 \in A,
             NEW k \in Nat, Cardinality(LetThrough(f, A)) <= k
      PROVE  Cardinality(LetThrough(g, B)) <= k
  <2>1. IsFiniteSet(LetThrough(f, A))
    BY <1>1, FewerAges
  <2>2. /\ IsFiniteSet(LetThrough(g, B))
        /\ Cardinality(LetThrough(g, B)) <= Cardinality(LetThrough(f, A))
    BY <1>5, <2>1, Older
  <2>3. Cardinality(LetThrough(g, B)) \in Nat /\ Cardinality(LetThrough(f, A)) \in Nat
    BY <2>1, <2>2, HowMany
  <2> QED BY <1>5, <2>2, <2>3
<1>6. CASE t <= 1
  <2>1. Down(t) = 0 /\ Fresh(Down(t)) = {} /\ Ages \ Fresh(Down(t)) = Ages /\ m \in Nat
    BY <1>6 DEF Down, Fresh
  <2>2. Cardinality(LetThrough(f, Ages)) <= IpLimit
    <3>1. IF t = 0 THEN Ages \ Fresh(t) = Ages ELSE Fresh(t) = Ages
      BY <1>6 DEF Fresh, Ages
    <3> QED BY <3>1 DEF Budget
  <2>3. \A i \in Ages : i # 0 => i - 1 \in Ages
    BY DEF Ages
  <2>4. Cardinality(LetThrough(g, Ages)) <= IpLimit
    BY <1>5, <2>2, <2>3
  <2>5. Cardinality(LetThrough(g, {})) = 0
    BY NoneOfNoAge
  <2>6. /\ Cardinality(LetThrough(g, Fresh(Down(t)))) <= m
        /\ Cardinality(LetThrough(g, Fresh(Down(t)))) <= IpLimit
    <3>1. Cardinality(LetThrough(g, Fresh(Down(t)))) = 0
      BY <2>1, <2>5
    <3>2. 0 <= m /\ 0 <= IpLimit
      BY <2>1
    <3> QED BY <3>1, <3>2
  <2>7. Cardinality(LetThrough(g, Ages \ Fresh(Down(t)))) <= IpLimit
    BY <2>1, <2>4
  <2> QED BY <1>3, <1>4, <2>6, <2>7 DEF Budget
<1>7. CASE ~(t <= 1)
  <2>1. Down(t) = t - 1 /\ Down(t) # 0 /\ m = n
    BY <1>7 DEF Down
  <2>2. \A i \in Fresh(Down(t)) : i # 0 => i - 1 \in Fresh(t)
    BY <2>1, <1>7 DEF Fresh, Ages
  <2>3. \A i \in Ages \ Fresh(Down(t)) : i # 0 => i - 1 \in Ages \ Fresh(t)
    BY <2>1, <1>7 DEF Fresh, Ages
  <2>4. /\ Cardinality(LetThrough(f, Fresh(t))) <= n
        /\ Cardinality(LetThrough(f, Fresh(t))) <= IpLimit
        /\ Cardinality(LetThrough(f, Ages \ Fresh(t))) <= IpLimit
    BY DEF Budget
  <2>5. /\ Cardinality(LetThrough(g, Fresh(Down(t)))) <= n
        /\ Cardinality(LetThrough(g, Fresh(Down(t)))) <= IpLimit
    BY <1>2, <1>5, <2>2, <2>4
  <2>6. Cardinality(LetThrough(g, Ages \ Fresh(Down(t)))) <= IpLimit
    BY <1>2, <1>5, <2>3, <2>4
  <2> QED BY <1>4, <2>1, <2>5, <2>6 DEF Budget
<1> QED BY <1>6, <1>7
-----------------------------------------------------------------------------
IpBudget(c) == Budget(recent[c], count[IpKey(c)], ttl[IpKey(c)])

BudgetInv == ThrottleInv /\ \A c \in Client : IpBudget(c)

LEMMA IpKeyOK ==
  ASSUME ThrottleInv, NEW c \in Client
  PROVE  /\ IpKey(c) \in Key /\ Limit(IpKey(c)) = IpLimit /\ Window(IpKey(c)) = LoginWindow
         /\ count[IpKey(c)] \in Nat /\ ttl[IpKey(c)] \in Nat /\ ttl[IpKey(c)] <= LoginWindow
         /\ count[IpKey(c)] # 0 => ttl[IpKey(c)] # 0
         /\ recent[c] \in [Ages -> Nat]
<1>1. IpKey(c) \in Key
  BY DEF Key, Addr
<1>2. Limit(IpKey(c)) = IpLimit /\ Window(IpKey(c)) = LoginWindow
  BY DEF IpKey, Limit, Window
<1>3. KeyOK(IpKey(c)) /\ recent[c] \in [Ages -> Nat]
  BY <1>1 DEF ThrottleInv, RedisOK
<1> QED BY <1>1, <1>2, <1>3 DEF KeyOK

\* The keys of addresses are apart, and apart from the others.
LEMMA KeysApart ==
  ASSUME NEW a, NEW b, NEW n
  PROVE  /\ IpKey(a) = IpKey(b) => a = b
         /\ IpKey(a) # UserKey(b, n) /\ IpKey(a) # RegisterKey(b)
BY DEF IpKey, UserKey, RegisterKey

LEMMA BudgetSame ==
  ASSUME NEW c \in Client, IpBudget(c), recent'[c] = recent[c],
         count'[IpKey(c)] = count[IpKey(c)], ttl'[IpKey(c)] = ttl[IpKey(c)]
  PROVE  IpBudget(c)'
BY DEF IpBudget, Budget, Fresh, IpKey, LetThrough

LEMMA BudgetPrimed ==
  ASSUME NEW c \in Client, Budget(recent'[c], count'[IpKey(c)], ttl'[IpKey(c)])
  PROVE  IpBudget(c)'
BY DEF IpBudget, Budget, Fresh, IpKey, LetThrough

LEMMA LoginIpBudget ==
  ASSUME BudgetInv, NEW r \in Req, NEW d \in Client, NEW n \in Name, NEW h \in Headers,
         LoginIp(r, d, n, h), NEW c \in Client
  PROVE  IpBudget(c)'
<1> DEFINE k == IpKey(d)
<1>1. Resolve(Forwarded(d, h), Peer(d)) = d
  BY ResolvedIsTheClient, HeadersAreLists
<1>2. Hit(k) /\ RedisOK /\ k \in Key /\ ThrottleInv
  BY <1>1, IpKeyOK DEF LoginIp, ThrottleInv, BudgetInv
<1>3. \/ Allowed(k) /\ recent' = [recent EXCEPT ![d][0] = @ + 1]
      \/ ~Allowed(k) /\ recent' = recent
  BY <1>1 DEF LoginIp
<1>4. /\ \A j \in Key \ {k} : count'[j] = count[j] /\ ttl'[j] = ttl[j]
      /\ count'[k] = Lesser(count[k] + 1, Limit(k) + 1)
      /\ ttl'[k] = IF ttl[k] = 0 THEN Window(k) ELSE ttl[k]
  BY <1>2 DEF RedisOK, Hit
<1>5. recent \in [Client -> [Ages -> Nat]]
  BY <1>2 DEF ThrottleInv
<1>6. CASE c # d
  <2>1. IpKey(c) \in Key \ {k}
    BY <1>2, <1>6, IpKeyOK, KeysApart
  <2>2. recent'[c] = recent[c]
    BY <1>3, <1>5, <1>6
  <2>3. count'[IpKey(c)] = count[IpKey(c)] /\ ttl'[IpKey(c)] = ttl[IpKey(c)]
    BY <1>4, <2>1
  <2> QED BY <2>2, <2>3, BudgetSame DEF BudgetInv
<1>7. CASE c = d
  <2>1. /\ Limit(k) = IpLimit /\ Window(k) = LoginWindow
        /\ count[k] \in Nat /\ ttl[k] \in Nat /\ ttl[k] <= LoginWindow
        /\ count[k] # 0 => ttl[k] # 0
        /\ recent[d] \in [Ages -> Nat]
    BY <1>2, IpKeyOK
  <2>2. Budget(recent[d], count[k], ttl[k])
    BY DEF BudgetInv, IpBudget
  <2>3. CASE Allowed(k) /\ recent' = [recent EXCEPT ![d][0] = @ + 1]
    <3>1. count[k] < IpLimit /\ count'[k] = count[k] + 1
      BY <1>4, <2>1, <2>3 DEF Allowed, Lesser
    <3>2. recent'[d] = [recent[d] EXCEPT ![0] = @ + 1]
      BY <1>5, <2>3
    <3>3. ttl'[k] = IF ttl[k] = 0 THEN LoginWindow ELSE ttl[k]
      BY <1>4, <2>1
    <3> HIDE DEF k
    <3>4. Budget(recent'[d], count[k] + 1, ttl'[k])
      BY <2>1, <2>2, <3>1, <3>2, <3>3, BudgetAfterLogin
    <3>5. Budget(recent'[d], count'[k], ttl'[k])
      BY <3>1, <3>4
    <3> QED BY <1>7, <3>5, BudgetPrimed DEF k
  <2>4. CASE ~Allowed(k) /\ recent' = recent
    <3>1. count[k] <= count'[k] /\ count'[k] \in Nat /\ ttl[k] # 0 /\ ttl'[k] = ttl[k]
      <4>1. count'[k] = Lesser(count[k] + 1, IpLimit + 1) /\ ~(count[k] < IpLimit)
        BY <1>4, <2>1, <2>4 DEF Allowed
      <4>2. ttl[k] # 0 /\ ttl'[k] = ttl[k]
        BY <1>4, <2>1, <4>1
      <4>3. count[k] <= IpLimit + 1
        BY <1>2 DEF RedisOK, KeyOK, IpKey, Limit
      <4> HIDE DEF k
      <4>4. count'[k] = IpLimit + 1
        BY <2>1, <4>1 DEF Lesser
      <4> QED BY <2>1, <4>2, <4>3, <4>4
    <3>2. Budget(recent[d], count'[k], ttl[k])
      <4>1. Cardinality(LetThrough(recent[d], Fresh(ttl[k]))) \in Nat
        <5>1. IsFiniteSet(LetThrough(recent[d], Ages)) /\ Fresh(ttl[k]) \subseteq Ages
          BY <2>2 DEF Budget, Fresh
        <5> QED BY <5>1, FewerAges, HowMany
      <4>2. Cardinality(LetThrough(recent[d], Fresh(ttl[k]))) <= count[k]
        BY <2>2 DEF Budget
      <4>3. Cardinality(LetThrough(recent[d], Fresh(ttl[k]))) <= count'[k]
        BY <4>1, <4>2, <3>1, <2>1
      <4> QED BY <2>2, <4>3 DEF Budget
    <3>3. Budget(recent'[d], count'[k], ttl'[k])
      BY <2>4, <3>1, <3>2
    <3> QED BY <1>7, <3>3, BudgetPrimed
  <2> QED BY <1>3, <2>3, <2>4
<1> QED BY <1>6, <1>7

\* Hits under other keys, and resets of them, leave the budget as it is.
LEMMA OtherKeysBudget ==
  ASSUME BudgetInv, NEW k \in Key, NEW c \in Client, IpKey(c) # k, UNCHANGED recent,
         \A j \in Key \ {k} : count'[j] = count[j] /\ ttl'[j] = ttl[j]
  PROVE  IpBudget(c)'
<1>1. IpKey(c) \in Key \ {k}
  BY IpKeyOK DEF BudgetInv
<1>2. count'[IpKey(c)] = count[IpKey(c)] /\ ttl'[IpKey(c)] = ttl[IpKey(c)] /\ recent'[c] = recent[c]
  BY <1>1
<1> QED BY <1>2, BudgetSame DEF BudgetInv

LEMMA TickBudget ==
  ASSUME BudgetInv, Tick, NEW c \in Client
  PROVE  IpBudget(c)'
<1> DEFINE k == IpKey(c)
<1>1. /\ k \in Key /\ count[k] \in Nat /\ ttl[k] \in Nat /\ ttl[k] <= LoginWindow
      /\ recent[c] \in [Ages -> Nat]
  BY IpKeyOK DEF BudgetInv
<1>2. /\ ttl'[k] = Down(ttl[k]) /\ count'[k] = IF ttl[k] = 1 THEN 0 ELSE count[k]
      /\ recent'[c] = [i \in Ages |-> IF i = 0 THEN 0 ELSE recent[c][i - 1]]
  BY <1>1 DEF Tick
<1>3. Budget(recent[c], count[k], ttl[k])
  BY DEF BudgetInv, IpBudget
<1> DEFINE f == recent[c]
           g == recent'[c]
           n == count[k]
           m == count'[k]
           t == ttl[k]
<1>4. Budget(g, m, Down(t))
  <2>1. /\ f \in [Ages -> Nat] /\ n \in Nat /\ t \in Nat /\ t <= LoginWindow /\ Budget(f, n, t)
        /\ g = [i \in Ages |-> IF i = 0 THEN 0 ELSE f[i - 1]]
        /\ m = IF t = 1 THEN 0 ELSE n
    BY <1>1, <1>2, <1>3
  <2> HIDE DEF f, g, n, m, t
  <2> QED BY <2>1, BudgetAfterTick
<1>5. Budget(recent'[c], count'[k], ttl'[k])
  BY <1>2, <1>4
<1> QED BY <1>5, BudgetPrimed

LEMMA BudgetInitially == ThrottleInit => BudgetInv
<1> SUFFICES ASSUME ThrottleInit, NEW c \in Client PROVE IpBudget(c)
  BY ThrottleInitially DEF BudgetInv
<1> DEFINE f == recent[c]
<1>1. ttl[IpKey(c)] = 0 /\ count[IpKey(c)] = 0 /\ f = [i \in Ages |-> 0] /\ 0 \in Ages
  BY IpKeyOK, ThrottleInitially DEF ThrottleInit, Ages
<1>2. LetThrough(f, Ages) = {} /\ Fresh(0) = {} /\ Ages \ Fresh(0) = Ages
  BY <1>1 DEF LetThrough, Fresh
<1>3. LetThrough(f, {}) = {}
  BY DEF LetThrough
<1>4. IsFiniteSet({}) /\ Cardinality({}) = 0
  BY FS_EmptySet
<1> QED BY <1>1, <1>2, <1>3, <1>4 DEF IpBudget, Budget

LEMMA BudgetStep == BudgetInv /\ [ThrottleNext]_vars => BudgetInv'
<1> SUFFICES ASSUME BudgetInv, [ThrottleNext]_vars, NEW c \in Client
             PROVE  IpBudget(c)'
  BY ThrottleStep DEF BudgetInv
<1>1. ThrottleInv
  BY DEF BudgetInv
<1>2. ASSUME NEW r \in Req, LoginUser(r) \/ Reset(r) PROVE IpBudget(c)'
  <2> DEFINE k == UserKey(ip[r], name[r])
  <2>1. k \in Key /\ RedisOK /\ IpKey(c) # k
    BY <1>1, <1>2, KeysApart DEF ThrottleInv, RequestOK, LoginUser, Reset, Key
  <2>2. UNCHANGED recent /\ \A j \in Key \ {k} : count'[j] = count[j] /\ ttl'[j] = ttl[j]
    BY <1>2, <2>1, HitKey DEF LoginUser, Reset, RedisOK
  <2> QED BY <2>1, <2>2, OtherKeysBudget
<1>3. ASSUME NEW d \in Client, NEW h \in Headers, Register(d, h) PROVE IpBudget(c)'
  <2> DEFINE k == RegisterKey(d)
  <2>1. Resolve(Forwarded(d, h), Peer(d)) = d /\ k \in Key /\ RedisOK /\ IpKey(c) # k
    <3>1. Resolve(Forwarded(d, h), Peer(d)) = d
      BY ResolvedIsTheClient, HeadersAreLists
    <3>2. k \in Key
      BY DEF Key, Addr
    <3> QED BY <1>1, <3>1, <3>2, KeysApart DEF ThrottleInv
  <2>2. UNCHANGED recent /\ \A j \in Key \ {k} : count'[j] = count[j] /\ ttl'[j] = ttl[j]
    BY <1>3, <2>1, HitKey DEF Register
  <2> QED BY <2>1, <2>2, OtherKeysBudget
<1>4. CASE UNCHANGED <<redis, recent>>
  BY <1>4, BudgetSame DEF BudgetInv, redis
<1>5. [ThrottleNext]_vars =>
        \/ \E r \in Req, d \in Client, n \in Name, h \in Headers : LoginIp(r, d, n, h)
        \/ \E r \in Req : LoginUser(r) \/ Reset(r)
        \/ \E d \in Client, h \in Headers : Register(d, h)
        \/ Tick \/ UNCHANGED <<redis, recent>>
  BY DEF ThrottleNext, vars, Verify, Abort
<1> QED BY <1>2, <1>3, <1>4, <1>5, LoginIpBudget, TickBudget

\* No header a client writes, no reset and no order of requests lets more than
\* two windows' worth of its logins through in the time of one window.
THEOREM AttemptsAreBounded == ThrottleSpec => []AttemptsBounded
<1>1. BudgetInv => AttemptsBounded
  <2> SUFFICES ASSUME BudgetInv, NEW c \in Client
               PROVE  Total(recent[c]) <= 2 * IpLimit
    BY DEF AttemptsBounded
  <2> DEFINE A == Fresh(ttl[IpKey(c)])
             F == LetThrough(recent[c], A)
             G == LetThrough(recent[c], Ages \ A)
             H == LetThrough(recent[c], Ages)
  <2>1. IsFiniteSet(H) /\ Cardinality(F) <= IpLimit /\ Cardinality(G) <= IpLimit
    BY DEF BudgetInv, IpBudget, Budget
  <2>2. A \subseteq Ages
    BY DEF Fresh
  <2>3. H = F \cup G
    <3> HIDE DEF A
    <3> QED BY <2>2 DEF LetThrough
  <2>4. IsFiniteSet(F) /\ IsFiniteSet(G)
    BY <2>1, <2>2, FewerAges
  <2>5. Total(recent[c]) = Cardinality(H)
    BY DEF Total
  <2> HIDE DEF A, F, G, H
  <2>6. /\ Cardinality(H) = Cardinality(F) + Cardinality(G) - Cardinality(F \cap G)
        /\ Cardinality(F \cap G) \in Nat /\ Cardinality(F) \in Nat /\ Cardinality(G) \in Nat
    BY <2>3, <2>4, FS_Union, FS_Intersection, FS_CardinalityType
  <2> QED BY <2>1, <2>5, <2>6
<1> QED BY <1>1, BudgetInitially, BudgetStep, PTL DEF ThrottleSpec
=============================================================================
