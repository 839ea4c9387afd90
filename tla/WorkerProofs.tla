---------------------------- MODULE WorkerProofs ----------------------------
(***************************************************************************)
(* Theorems about LogQueue and Worker, for any size of the queue, any      *)
(* number of records, of engines and of connections inherited: the queue   *)
(* of the main process and the one of its child implement BoundedLog, a    *)
(* stop has flushed, and the child stands alone.                           *)
(***************************************************************************)
EXTENDS Worker, SequenceTheorems, TLAPS

\* Sequences at their two ends.
LEMMA FirstOf ==
  ASSUME NEW S, NEW h \in S, NEW q \in Seq(S)
  PROVE  /\ <<h>> \o q \in Seq(S)
         /\ Len(<<h>> \o q) = Len(q) + 1
         /\ (<<h>> \o q)[1] = h
         /\ \A i \in 1..Len(q) : (<<h>> \o q)[i + 1] = q[i]
         /\ <<h>> \o q # <<>>
         /\ Head(<<h>> \o q) = h
         /\ Tail(<<h>> \o q) = q
<1> DEFINE t == <<h>> \o q
<1>1. <<h>> \in Seq(S) /\ Len(<<h>>) = 1 /\ <<h>>[1] = h
  OBVIOUS
<1>2. /\ t \in Seq(S) /\ Len(t) = 1 + Len(q)
      /\ \A i \in 1..1 + Len(q) : t[i] = IF i <= 1 THEN <<h>>[i] ELSE q[i - 1]
  BY <1>1, ConcatProperties
<1>3. Len(q) \in Nat
  OBVIOUS
<1>4. t[1] = h /\ \A i \in 1..Len(q) : t[i + 1] = q[i]
  BY <1>1, <1>2, <1>3
<1>5. t # <<>>
  BY <1>2, <1>3
<1>6. Head(t) = h
  BY <1>2, <1>4, <1>5
<1>7. Tail(t) = q
  <2>1. Tail(t) \in Seq(S) /\ Len(Tail(t)) = Len(t) - 1
        /\ \A i \in 1..Len(Tail(t)) : Tail(t)[i] = t[i + 1]
    BY <1>2, <1>5, HeadTailProperties
  <2>2. Len(Tail(t)) = Len(q) /\ \A i \in 1..Len(q) : Tail(t)[i] = q[i]
    BY <2>1, <1>2, <1>3, <1>4
  <2> QED BY <2>1, <2>2, SeqEqual
<1> QED BY <1>2, <1>3, <1>4, <1>5, <1>6, <1>7

LEMMA HeadThenTail ==
  ASSUME NEW S, NEW q \in Seq(S), q # <<>>
  PROVE  <<Head(q)>> \o Tail(q) = q
<1>1. /\ Head(q) \in S /\ Tail(q) \in Seq(S) /\ Len(Tail(q)) = Len(q) - 1
      /\ \A i \in 1..Len(Tail(q)) : Tail(q)[i] = q[i + 1]
  BY HeadTailProperties
<1> DEFINE t == <<Head(q)>> \o Tail(q)
<1>2. /\ t \in Seq(S) /\ Len(t) = Len(Tail(q)) + 1
      /\ t[1] = Head(q) /\ \A i \in 1..Len(Tail(q)) : t[i + 1] = Tail(q)[i]
  BY <1>1, FirstOf
<1>3. Len(q) \in Nat /\ Head(q) = q[1]
  OBVIOUS
<1>4. \A i \in 1..Len(q) : t[i] = q[i]
  <2> TAKE i \in 1..Len(q)
  <2>1. CASE i = 1
    BY <2>1, <1>2, <1>3
  <2>2. CASE i # 1
    <3>1. i - 1 \in 1..Len(Tail(q)) /\ i = (i - 1) + 1
      BY <2>2, <1>1, <1>3
    <3> QED BY <3>1, <1>1, <1>2
  <2> QED BY <2>1, <2>2
<1> QED BY <1>1, <1>2, <1>3, <1>4, SeqEqual

LEMMA FirstThenAppend ==
  ASSUME NEW S, NEW h \in S, NEW q \in Seq(S), NEW x \in S
  PROVE  <<h>> \o Append(q, x) = Append(<<h>> \o q, x)
<1>1. <<h>> \in Seq(S) /\ <<x>> \in Seq(S)
  OBVIOUS
<1>2. Append(q, x) = q \o <<x>> /\ <<h>> \o q \in Seq(S)
  BY FirstOf, AppendIsConcat
<1>3. Append(<<h>> \o q, x) = (<<h>> \o q) \o <<x>>
  BY <1>2, AppendIsConcat
<1> QED BY <1>1, <1>2, <1>3, ConcatAssociative

LEMMA HeadToEnd ==
  ASSUME NEW S, NEW f \in Seq(S), NEW p \in Seq(S), p # <<>>
  PROVE  /\ Tail(p) \in Seq(S) /\ Append(f, Head(p)) \in Seq(S)
         /\ Append(f, Head(p)) \o Tail(p) = f \o p
<1>1. Head(p) \in S /\ Tail(p) \in Seq(S) /\ <<Head(p)>> \in Seq(S)
  BY HeadTailProperties
<1>2. Append(f, Head(p)) = f \o <<Head(p)>> /\ Append(f, Head(p)) \in Seq(S)
  BY <1>1, AppendIsConcat
<1>3. (f \o <<Head(p)>>) \o Tail(p) = f \o (<<Head(p)>> \o Tail(p))
  BY <1>1, ConcatAssociative
<1>4. <<Head(p)>> \o Tail(p) = p
  BY HeadThenTail
<1> QED BY <1>1, <1>2, <1>3, <1>4
-----------------------------------------------------------------------------
\* What BoundedLog's steps do to the order, whatever process logs.
LEMMA OrderAccept ==
  ASSUME NEW l \in Nat, NEW p, NEW f, Abstract!Ordered(l, p, f)
  PROVE  Abstract!Ordered(l + 1, Append(p, l + 1), f)
<1> DEFINE x == l + 1
           q == f \o p
<1>1. p \in Seq(1..x) /\ f \in Seq(1..x) /\ x \in 1..x
  BY SeqMonotonic DEF Abstract!Ordered
<1>2. f \o Append(p, x) = Append(q, x) /\ q \in Seq(1..x)
  <2>1. Append(p, x) = p \o <<x>> /\ <<x>> \in Seq(1..x) /\ q \in Seq(1..x)
    BY <1>1, AppendIsConcat
  <2>2. Append(q, x) = q \o <<x>>
    BY <1>1, <2>1, AppendIsConcat
  <2> QED BY <1>1, <2>1, <2>2, ConcatAssociative
<1>3. /\ Append(p, x) \in Seq(1..x)
      /\ Len(Append(q, x)) = Len(q) + 1 /\ Len(q) \in Nat
      /\ \A i \in 1..Len(q) : Append(q, x)[i] = q[i]
      /\ Append(q, x)[Len(q) + 1] = x
  BY <1>1, <1>2
<1>4. \A i \in 1..Len(q) : q[i] \in 1..l
  <2>1. p \in Seq(1..l) /\ f \in Seq(1..l)
    BY DEF Abstract!Ordered
  <2> QED BY <2>1
<1>5. \A i, j \in 1..Len(q) + 1 : i < j => Append(q, x)[i] < Append(q, x)[j]
  <2>1. \A i, j \in 1..Len(q) : i < j => q[i] < q[j]
    BY DEF Abstract!Ordered
  <2> TAKE i, j \in 1..Len(q) + 1
  <2> HAVE i < j
  <2>2. i \in 1..Len(q) /\ Append(q, x)[i] = q[i]
    BY <1>3
  <2>3. CASE j = Len(q) + 1
    BY <2>2, <2>3, <1>3, <1>4
  <2>4. CASE j # Len(q) + 1
    <3>1. j \in 1..Len(q) /\ Append(q, x)[j] = q[j]
      BY <2>4, <1>3
    <3>2. q[i] < q[j]
      BY <2>1, <2>2, <3>1
    <3> QED BY <2>2, <3>1, <3>2
  <2> QED BY <2>3, <2>4
<1> QED BY <1>1, <1>2, <1>3, <1>5 DEF Abstract!Ordered

LEMMA OrderDrop ==
  ASSUME NEW l \in Nat, NEW p, NEW f, Abstract!Ordered(l, p, f)
  PROVE  Abstract!Ordered(l + 1, p, f)
<1>1. p \in Seq(1..l + 1) /\ f \in Seq(1..l + 1)
  BY SeqMonotonic DEF Abstract!Ordered
<1> QED BY <1>1 DEF Abstract!Ordered

LEMMA OrderWrite ==
  ASSUME NEW l \in Nat, NEW p, NEW f, Abstract!Ordered(l, p, f), p # <<>>
  PROVE  Abstract!Ordered(l, Tail(p), Append(f, Head(p)))
<1>1. p \in Seq(1..l) /\ f \in Seq(1..l)
  BY DEF Abstract!Ordered
<1>2. Tail(p) \in Seq(1..l) /\ Append(f, Head(p)) \in Seq(1..l)
  BY <1>1, HeadToEnd
<1>3. Append(f, Head(p)) \o Tail(p) = f \o p
  BY <1>1, HeadToEnd
<1>4. \A i, j \in 1..Len(f \o p) : i < j => (f \o p)[i] < (f \o p)[j]
  BY DEF Abstract!Ordered
<1> DEFINE g == Append(f, Head(p))
           r == Tail(p)
<1>5. r \in Seq(1..l) /\ g \in Seq(1..l) /\ g \o r = f \o p
  BY <1>2, <1>3
<1>6. \A i, j \in 1..Len(g \o r) : i < j => (g \o r)[i] < (g \o r)[j]
  BY <1>4, <1>5
<1> HIDE DEF g, r
<1>7. Abstract!Ordered(l, r, g)
  BY <1>5, <1>6 DEF Abstract!Ordered
<1> QED BY <1>7 DEF g, r

\* The two versions of an order without a variable in it are one.
LEMMA OneOrder ==
  ASSUME NEW l, NEW p, NEW f
  PROVE  Child!Abstract!Ordered(l, p, f) <=> Abstract!Ordered(l, p, f)
BY DEF Abstract!Ordered, Child!Abstract!Ordered

\* A process that implements BoundedLog writes in order, each record once,
\* and loses none that it does not count.
LEMMA LoggingKept ==
  ASSUME logged \in Nat, dropped \in Nat, Abstract!InOrder, Abstract!Accounted,
         [Abstract!Accept \/ Abstract!Drop \/ Abstract!Write]_Abstract!log
  PROVE  logged' \in Nat /\ dropped' \in Nat /\ Abstract!InOrder' /\ Abstract!Accounted'
<1>1. Pending \in Seq(1..logged) /\ file \in Seq(1..logged)
  BY DEF Abstract!InOrder, Abstract!Ordered
<1>2. CASE Abstract!Accept
  <2>1. Len(Append(Pending, logged + 1)) = Len(Pending) + 1
    BY <1>1
  <2> QED BY <1>1, <1>2, <2>1, OrderAccept DEF Abstract!Accept, Abstract!InOrder, Abstract!Accounted
<1>3. CASE Abstract!Drop
  BY <1>1, <1>3, OrderDrop DEF Abstract!Drop, Abstract!InOrder, Abstract!Accounted
<1>4. CASE Abstract!Write
  <2>1. Len(Append(file, Head(Pending))) = Len(file) + 1 /\ Len(Tail(Pending)) = Len(Pending) - 1
    BY <1>1, <1>4, HeadTailProperties DEF Abstract!Write
  <2>2. Abstract!InOrder'
    BY <1>4, OrderWrite DEF Abstract!Write, Abstract!InOrder
  <2>3. Abstract!Accounted'
    <3>1. Len(file) \in Nat /\ Len(Pending) \in Nat
      BY <1>1
    <3> QED BY <1>4, <2>1, <3>1 DEF Abstract!Write, Abstract!Accounted
  <2> QED BY <1>4, <2>2, <2>3 DEF Abstract!Write
<1>5. CASE UNCHANGED Abstract!log
  BY <1>5 DEF Abstract!log, Abstract!InOrder, Abstract!Accounted, Abstract!Ordered
<1> QED BY <1>2, <1>3, <1>4, <1>5
-----------------------------------------------------------------------------
\* What is pending, by where the listener is and what is in the queue.
NoSentinel(q) == \A i \in 1..Len(q) : q[i] # Sentinel
SentinelLast(q) == \A i \in 1..Len(q) : q[i] = Sentinel => i = Len(q)

LEMMA RecordsOfOpen ==
  ASSUME NEW q \in Seq(Nat), NoSentinel(q)
  PROVE  RecordsIn(q) = q
BY DEF RecordsIn, NoSentinel

LEMMA RecordsOfSealed ==
  ASSUME NEW q \in Seq(Nat), NoSentinel(q)
  PROVE  RecordsIn(Append(q, Sentinel)) = q
<1> DEFINE t == Append(q, Sentinel)
<1>1. t \in Seq(Nat) /\ t # <<>> /\ Len(t) = Len(q) + 1 /\ t[Len(t)] = Sentinel
      /\ \A i \in 1..Len(q) : t[i] = q[i]
  BY AppendProperties DEF Sentinel
<1>2. RecordsIn(t) = SubSeq(t, 1, Len(q))
  BY <1>1 DEF RecordsIn
<1>3. /\ SubSeq(t, 1, Len(q)) \in Seq(Nat)
      /\ Len(SubSeq(t, 1, Len(q))) = Len(q)
      /\ \A i \in 1..Len(q) : SubSeq(t, 1, Len(q))[i] = q[i]
  <2>1. Len(q) \in Nat /\ \A i \in 1..Len(q) : t[i] \in Nat
    BY <1>1
  <2> QED BY <1>1, <2>1, SubSeqProperties
<1> QED BY <1>2, <1>3, SeqEqual

\* With the sentinel at most at its end a queue is an open one, or one with
\* the sentinel appended.
LEMMA SealedOrOpen ==
  ASSUME NEW q \in Seq(Nat), SentinelLast(q), ~NoSentinel(q)
  PROVE  \E r \in Seq(Nat) : NoSentinel(r) /\ q = Append(r, Sentinel)
<1>1. Len(q) \in Nat /\ q # <<>> /\ q[Len(q)] = Sentinel
  BY DEF SentinelLast, NoSentinel
<1> DEFINE r == SubSeq(q, 1, Len(q) - 1)
<1>2. r \in Seq(Nat) /\ Len(r) = Len(q) - 1 /\ \A i \in 1..Len(r) : r[i] = q[i]
  <2>1. Len(q) - 1 \in Nat /\ \A i \in 1..Len(q) - 1 : q[i] \in Nat
    <3>1. Len(q) # 0
      BY <1>1, EmptySeq
    <3> QED BY <1>1, <3>1, ElementOfSeq
  <2>2. /\ r \in Seq(Nat)
        /\ Len(r) = IF 1 <= Len(q) - 1 THEN (Len(q) - 1) - 1 + 1 ELSE 0
        /\ \A i \in 1..(Len(q) - 1) - 1 + 1 : r[i] = q[1 + i - 1]
    BY <2>1, SubSeqProperties
  <2>3. Len(r) = Len(q) - 1
    <3> DEFINE n == Len(q) - 1
    <3>1. n \in Nat /\ Len(r) = IF 1 <= n THEN n - 1 + 1 ELSE 0
      BY <2>1, <2>2
    <3> HIDE DEF r, n
    <3>2. Len(r) = n
      BY <3>1
    <3> QED BY <3>2 DEF n
  <2>4. \A i \in 1..Len(r) : i \in 1..(Len(q) - 1) - 1 + 1 /\ 1 + i - 1 = i
    BY <1>1, <2>1, <2>3
  <2> QED BY <2>2, <2>3, <2>4
<1>3. NoSentinel(r)
  BY <1>1, <1>2 DEF NoSentinel, SentinelLast
<1>4. Append(r, Sentinel) = q
  <2>1. /\ Append(r, Sentinel) \in Seq(Nat) /\ Len(Append(r, Sentinel)) = Len(q)
        /\ \A i \in 1..Len(q) : Append(r, Sentinel)[i] = q[i]
    BY <1>1, <1>2, AppendProperties DEF Sentinel
  <2> QED BY <2>1, SeqEqual
<1> QED BY <1>2, <1>3, <1>4

LEMMA RecordsType ==
  ASSUME NEW q \in Seq(Nat), SentinelLast(q)
  PROVE  RecordsIn(q) \in Seq(Nat)
BY SealedOrOpen, RecordsOfOpen, RecordsOfSealed

LEMMA RecordsTaken ==
  ASSUME NEW q \in Seq(Nat), SentinelLast(q), q # <<>>, Head(q) # Sentinel
  PROVE  /\ Tail(q) \in Seq(Nat) /\ SentinelLast(Tail(q))
         /\ RecordsIn(q) = <<Head(q)>> \o RecordsIn(Tail(q))
<1>1. /\ Head(q) \in Nat /\ Tail(q) \in Seq(Nat) /\ Len(Tail(q)) = Len(q) - 1
      /\ \A i \in 1..Len(Tail(q)) : Tail(q)[i] = q[i + 1]
      /\ Len(q) \in Nat
  BY HeadTailProperties
<1>2. SentinelLast(Tail(q))
  <2> SUFFICES ASSUME NEW i \in 1..Len(Tail(q)), Tail(q)[i] = Sentinel
               PROVE  i = Len(Tail(q))
    BY DEF SentinelLast
  <2>1. i + 1 \in 1..Len(q) /\ q[i + 1] = Sentinel
    BY <1>1
  <2>2. i + 1 = Len(q)
    BY <2>1 DEF SentinelLast
  <2>3. Len(q) \in Nat /\ Len(Tail(q)) = Len(q) - 1 /\ i \in Int
    BY <1>1
  <2> QED BY <2>2, <2>3
<1>3. CASE NoSentinel(q)
  <2>1. NoSentinel(Tail(q))
    BY <1>1, <1>3 DEF NoSentinel
  <2> QED BY <1>1, <1>2, <1>3, <2>1, RecordsOfOpen, HeadThenTail
<1>4. CASE ~NoSentinel(q)
  <2>1. PICK r \in Seq(Nat) : NoSentinel(r) /\ q = Append(r, Sentinel)
    BY <1>4, SealedOrOpen
  <2>2. r # <<>> /\ Head(q) = Head(r) /\ Tail(q) = Append(Tail(r), Sentinel)
    <3>1. Head(q) = (IF r = <<>> THEN Sentinel ELSE Head(r))
          /\ Tail(q) = (IF r = <<>> THEN <<>> ELSE Append(Tail(r), Sentinel))
      BY <2>1, HeadTailAppend
    <3> QED BY <3>1
  <2>3. Tail(r) \in Seq(Nat) /\ NoSentinel(Tail(r))
    BY <2>1, <2>2, HeadTailProperties DEF NoSentinel
  <2>4. RecordsIn(q) = r /\ RecordsIn(Tail(q)) = Tail(r)
    BY <2>1, <2>2, <2>3, RecordsOfSealed
  <2> QED BY <1>1, <1>2, <2>2, <2>4, HeadThenTail
<1> QED BY <1>3, <1>4
\* What the steps of a log queue do to what is pending: a record put into it
\* goes to the end, ...
LEMMA PendingPut ==
  ASSUME NEW q \in Seq(Nat), NoSentinel(q), NEW x \in Nat, x # Sentinel, NEW h \in Nat,
         NEW t, NEW u, t = "writing" <=> u = "writing"
  PROVE  PendingIn(u, h, Append(q, x)) = Append(PendingIn(t, h, q), x)
<1>1. Append(q, x) \in Seq(Nat) /\ NoSentinel(Append(q, x))
  BY AppendProperties DEF NoSentinel
<1>2. RecordsIn(q) = q /\ RecordsIn(Append(q, x)) = Append(q, x)
  BY <1>1, RecordsOfOpen
<1>3. CASE t = "writing"
  BY <1>2, <1>3, FirstThenAppend DEF PendingIn
<1>4. CASE t # "writing"
  <2>1. <<>> \o q = q /\ <<>> \o Append(q, x) = Append(q, x)
    BY <1>1, ConcatEmptySeq
  <2> QED BY <1>2, <1>4, <2>1 DEF PendingIn
<1> QED BY <1>3, <1>4

\* ... the sentinel changes nothing, ...
LEMMA PendingSealed ==
  ASSUME NEW q \in Seq(Nat), NoSentinel(q), NEW h,
         NEW t, NEW u, t = "writing" <=> u = "writing"
  PROVE  PendingIn(u, h, Append(q, Sentinel)) = PendingIn(t, h, q)
BY RecordsOfOpen, RecordsOfSealed DEF PendingIn

LEMMA PendingLength ==
  ASSUME NEW q \in Seq(Nat), NoSentinel(q), NEW h \in Nat, NEW t
  PROVE  Len(PendingIn(t, h, q)) >= Len(q)
<1>1. CASE t = "writing"
  BY <1>1, RecordsOfOpen, FirstOf DEF PendingIn
<1>2. CASE t # "writing"
  BY <1>2, RecordsOfOpen, ConcatEmptySeq DEF PendingIn
<1> QED BY <1>1, <1>2

\* ... taking one leaves it pending, ...
LEMMA PendingTaken ==
  ASSUME NEW q \in Seq(Nat), SentinelLast(q), q # <<>>, Head(q) # Sentinel,
         NEW t, t # "writing", NEW h
  PROVE  PendingIn("writing", Head(q), Tail(q)) = PendingIn(t, h, q)
<1>1. PendingIn(t, h, q) = RecordsIn(q)
  BY RecordsType, ConcatEmptySeq DEF PendingIn
<1> QED BY <1>1, RecordsTaken DEF PendingIn

\* ... the sentinel is the last that is taken, ...
LEMMA SentinelIsAlone ==
  ASSUME NEW q \in Seq(Nat), SentinelLast(q), q # <<>>, Head(q) = Sentinel
  PROVE  Len(q) = 1 /\ q[1] = Sentinel /\ Tail(q) = <<>>
<1>1. Len(q) \in Nat \ {0} /\ Head(q) = q[1]
  BY EmptySeq
<1>2. Len(q) = 1
  <2>1. 1 \in 1..Len(q) /\ q[1] = Sentinel
    BY <1>1
  <2> QED BY <2>1 DEF SentinelLast
<1>3. Tail(q) = <<>>
  <2>1. Tail(q) \in Seq(Nat) /\ Len(Tail(q)) = Len(q) - 1
    BY HeadTailProperties
  <2>2. Len(Tail(q)) = 0
    BY <1>2, <2>1
  <2> QED BY <2>1, <2>2, EmptySeq
<1> QED BY <1>1, <1>2, <1>3

LEMMA SentinelTaken ==
  ASSUME NEW q \in Seq(Nat), SentinelLast(q), q # <<>>, Head(q) = Sentinel,
         NEW t, t # "writing", NEW h
  PROVE  PendingIn("ended", Sentinel, <<>>) = PendingIn(t, h, q)
<1>1. RecordsIn(q) = <<>>
  BY SentinelIsAlone, SubSeqEmpty DEF RecordsIn
<1> QED BY <1>1 DEF PendingIn, RecordsIn

\* ... and writing it out takes it off what is pending.
LEMMA PendingWritten ==
  ASSUME NEW q \in Seq(Nat), SentinelLast(q), NEW h \in Nat, NEW u, u # "writing"
  PROVE  /\ PendingIn("writing", h, q) # <<>>
         /\ Head(PendingIn("writing", h, q)) = h
         /\ PendingIn(u, Sentinel, q) = Tail(PendingIn("writing", h, q))
<1>1. RecordsIn(q) \in Seq(Nat)
  BY RecordsType
<1>2. PendingIn("writing", h, q) = <<h>> \o RecordsIn(q) /\ PendingIn(u, Sentinel, q) = RecordsIn(q)
  BY <1>1, ConcatEmptySeq DEF PendingIn
<1> QED BY <1>1, <1>2, FirstOf
-----------------------------------------------------------------------------
\* The queue of the main process.  The sentinel is in it, at its end, from the
\* call of stop until the thread takes it, and nothing is put behind it.
Closing == listening \in {"stopping", "reconfiguring"}
Sealed == Closing /\ thread # "ended"

QueueInv ==
  /\ QueueTypeOK
  /\ dropped <= logged
  /\ \A i \in 1..Len(queue) : queue[i] = Sentinel => Sealed /\ i = Len(queue)
  /\ Sealed => ~NoSentinel(queue)
  /\ thread = "ended" => listening \in {"stopping", "reconfiguring", "stopped"}
  /\ listening = "stopped" => thread = "ended"
  /\ Closing /\ thread = "ended" => queue = <<>>
  /\ thread = "writing" <=> hand # Sentinel
  /\ waiters = IF thread = "waiting" THEN <<"listener">> ELSE <<>>

LogStep == Abstract!Accept \/ Abstract!Drop \/ Abstract!Write \/ UNCHANGED Abstract!log

LEMMA QueueFacts ==
  ASSUME QueueInv
  PROVE  /\ queue \in Seq(Nat) /\ SentinelLast(queue) /\ hand \in Nat
         /\ ~Sealed => NoSentinel(queue)
<1>1. queue \in Seq(0..MaxLogs) /\ hand \in 0..MaxLogs
  BY DEF QueueInv, QueueTypeOK
<1>2. queue \in Seq(Nat) /\ hand \in Nat
  BY <1>1, SeqMonotonic, QueueAssumption
<1> QED BY <1>2 DEF QueueInv, SentinelLast, NoSentinel

\* put_nowait wakes the listener only where it waits.
LEMMA PutWakes ==
  ASSUME QueueInv, NEW x, Put(x)
  PROVE  /\ waiters' = <<>>
         /\ thread' = IF thread = "waiting" THEN "ready" ELSE thread
BY DEF QueueInv, Put

LEMMA LogKeeps ==
  ASSUME QueueInv, Log
  PROVE  QueueInv' /\ LogStep
<1> DEFINE x == logged + 1
<1>1. /\ mutex = "free" /\ ~Closing /\ ~Sealed /\ logged < MaxLogs /\ logged \in Nat
      /\ logged' = x /\ x \in Nat \ {0} /\ x \in 1..MaxLogs
      /\ UNCHANGED <<mutex, hand, file, listening>>
      /\ dropped \in Nat /\ dropped <= logged
  BY QueueAssumption DEF Log, Closing, Sealed, QueueInv, QueueTypeOK
<1>2. queue \in Seq(Nat) /\ NoSentinel(queue) /\ hand \in Nat
  BY <1>1, QueueFacts
<1>3. QueueTypeOK
  BY DEF QueueInv
<1>4. CASE Len(queue) < MaxSize /\ Put(x) /\ UNCHANGED dropped
  <2>1. /\ waiters' = <<>> /\ thread' = IF thread = "waiting" THEN "ready" ELSE thread
        /\ queue' = Append(queue, x)
    BY <1>4, PutWakes DEF Put
  <2>2. /\ queue' \in Seq(0..MaxLogs) /\ Len(queue') = Len(queue) + 1
        /\ NoSentinel(queue')
    <3>1. queue \in Seq(0..MaxLogs) /\ x \in 0..MaxLogs
      BY <1>1, <1>3 DEF QueueTypeOK
    <3> QED BY <1>2, <2>1, <3>1, <1>1, AppendProperties DEF NoSentinel, Sentinel
  <2>3. QueueTypeOK'
    <3>1. Len(queue') <= MaxSize
      BY <1>2, <1>4, <2>2, QueueAssumption
    <3> QED BY <1>1, <1>3, <1>4, <2>1, <2>2, <3>1 DEF QueueTypeOK
  <2>4. QueueInv'
    BY <1>1, <1>4, <2>1, <2>2, <2>3 DEF QueueInv, Closing, Sealed, NoSentinel
  <2>5. Pending' = Append(Pending, x)
    <3>1. thread = "writing" <=> thread' = "writing"
      BY <2>1
    <3>2. Pending' = PendingIn(thread', hand, Append(queue, x))
      BY <1>1, <2>1 DEF Pending
    <3>3. PendingIn(thread', hand, Append(queue, x)) = Append(PendingIn(thread, hand, queue), x)
      BY <1>1, <1>2, <3>1, PendingPut DEF Sentinel
    <3> QED BY <3>2, <3>3 DEF Pending
  <2>6. Abstract!Accept
    BY <1>1, <1>4, <2>5 DEF Abstract!Accept
  <2> QED BY <2>4, <2>6 DEF LogStep
<1>5. CASE Len(queue) = MaxSize /\ dropped' = dropped + 1 /\ UNCHANGED <<queue, waiters, thread>>
  <2>1. QueueTypeOK'
    BY <1>1, <1>3, <1>5, QueueAssumption DEF QueueTypeOK
  <2>2. QueueInv'
    BY <1>1, <1>2, <1>5, <2>1 DEF QueueInv, Closing, Sealed, NoSentinel
  <2>3. Pending' = Pending /\ Len(Pending) >= MaxSize
    BY <1>1, <1>2, <1>5, PendingLength DEF Pending
  <2>4. Abstract!Drop
    BY <1>1, <1>5, <2>3 DEF Abstract!Drop
  <2> QED BY <2>2, <2>4 DEF LogStep
<1> QED BY <1>4, <1>5 DEF Log
\* Taking the mutex and waiting leave what is pending alone, so does a start.
LEMMA ThreadKeeps ==
  ASSUME QueueInv, Start \/ Lock \/ Wait
  PROVE  QueueInv' /\ LogStep
<1>1. /\ queue' = queue /\ logged' = logged /\ dropped' = dropped
      /\ file' = file /\ hand' = hand
      /\ thread \in {"none", "ready", "locked"} /\ thread' \in {"ready", "locked", "waiting"}
  BY DEF Start, Lock, Wait, calls, lock
<1>2. QueueTypeOK
  BY DEF QueueInv
<1>3. /\ mutex' \in {"free", "listener", "dead"} /\ listening' \in Listening
      /\ waiters' \in Seq({"listener", "dead"})
      /\ waiters' = IF thread' = "waiting" THEN <<"listener">> ELSE <<>>
  <2>1. CASE Start
    BY <2>1, <1>2 DEF Start, lock, Listening, QueueTypeOK, QueueInv
  <2>2. CASE Lock
    BY <2>2, <1>2 DEF Lock, calls, lock, QueueTypeOK, QueueInv
  <2>3. CASE Wait
    <3>1. waiters = <<>>
      BY <2>3 DEF Wait, QueueInv
    <3> QED BY <2>3, <1>2, <3>1 DEF Wait, QueueTypeOK
  <2> QED BY <2>1, <2>2, <2>3
<1>4. QueueTypeOK'
  BY <1>1, <1>2, <1>3 DEF QueueTypeOK
<1>5. Closing' = Closing /\ Sealed' = Sealed /\ listening' # "stopped"
  BY <1>1, <1>2 DEF Start, Lock, Wait, Closing, Sealed, QueueInv, QueueTypeOK
<1>6. QueueInv'
  BY <1>1, <1>3, <1>4, <1>5 DEF QueueInv, NoSentinel
<1>7. UNCHANGED Abstract!log
  BY <1>1 DEF Abstract!log, Pending, PendingIn
<1> QED BY <1>6, <1>7 DEF LogStep

LEMMA TakeKeeps ==
  ASSUME QueueInv, Take
  PROVE  QueueInv' /\ LogStep
<1>1. /\ thread = "locked" /\ queue # <<>> /\ hand' = Head(queue) /\ queue' = Tail(queue)
      /\ thread' = IF Head(queue) = Sentinel THEN "ended" ELSE "writing"
      /\ mutex' = "free"
      /\ logged' = logged /\ dropped' = dropped /\ waiters' = waiters /\ file' = file
      /\ listening' = listening
  BY DEF Take, calls
<1>2. QueueTypeOK /\ queue \in Seq(Nat) /\ SentinelLast(queue)
  BY QueueFacts DEF QueueInv
<1>3. /\ Head(queue) \in 0..MaxLogs /\ Tail(queue) \in Seq(0..MaxLogs)
      /\ Len(Tail(queue)) = Len(queue) - 1
      /\ \A i \in 1..Len(Tail(queue)) : Tail(queue)[i] = queue[i + 1]
      /\ Len(queue) \in Nat \ {0} /\ Head(queue) = queue[1]
  <2>1. queue \in Seq(0..MaxLogs)
    BY <1>2 DEF QueueTypeOK
  <2>2. /\ Head(queue) \in 0..MaxLogs /\ Tail(queue) \in Seq(0..MaxLogs)
        /\ Len(Tail(queue)) = Len(queue) - 1
        /\ \A i \in 1..Len(Tail(queue)) : Tail(queue)[i] = queue[i + 1]
    BY <1>1, <2>1, HeadTailProperties
  <2> QED BY <1>1, <2>1, <2>2, EmptySeq
<1>4. QueueTypeOK'
  <2>1. Len(queue') <= MaxSize
    BY <1>1, <1>2, <1>3, QueueAssumption DEF QueueTypeOK
  <2> QED BY <1>1, <1>2, <1>3, <2>1 DEF QueueTypeOK
<1>5. CASE Head(queue) = Sentinel
  <2>1. queue' = <<>> /\ PendingIn("ended", Sentinel, <<>>) = Pending
    <3>1. thread # "writing"
      BY <1>1
    <3>2. Tail(queue) = <<>>
      BY <1>1, <1>2, <1>5, SentinelIsAlone
    <3>3. PendingIn("ended", Sentinel, <<>>) = PendingIn(thread, hand, queue)
      BY <1>1, <1>2, <1>5, <3>1, SentinelTaken
    <3> QED BY <1>1, <3>2, <3>3 DEF Pending
  <2>2. Closing
    <3>1. 1 \in 1..Len(queue) /\ queue[1] = Sentinel
      BY <1>3, <1>5
    <3> QED BY <3>1 DEF QueueInv, Sealed
  <2>3. QueueInv'
    BY <1>1, <1>4, <1>5, <2>1, <2>2 DEF QueueInv, Closing, Sealed
  <2>4. Pending' = Pending
    BY <1>1, <1>5, <2>1 DEF Pending
  <2> QED BY <1>1, <2>3, <2>4 DEF LogStep, Abstract!log
<1>6. CASE Head(queue) # Sentinel
  <2>1. Pending' = Pending
    BY <1>1, <1>2, <1>6, PendingTaken DEF Pending
  <2>2. Sealed' = Sealed /\ Closing' = Closing
    BY <1>1, <1>6 DEF Sealed, Closing
  <2>3. \A i \in 1..Len(queue') : queue'[i] = Sentinel => Sealed' /\ i = Len(queue')
    <3> SUFFICES ASSUME NEW i \in 1..Len(queue'), queue'[i] = Sentinel
                 PROVE  Sealed' /\ i = Len(queue')
      OBVIOUS
    <3>1. i + 1 \in 1..Len(queue) /\ queue[i + 1] = Sentinel
      BY <1>1, <1>3
    <3>2. Sealed /\ i + 1 = Len(queue)
      BY <3>1 DEF QueueInv
    <3>3. Len(queue) \in Nat /\ i \in Int /\ Len(queue') = Len(queue) - 1
      BY <1>1, <1>3
    <3> QED BY <2>2, <3>2, <3>3
  <2>4. Sealed => ~NoSentinel(queue')
    <3> SUFFICES ASSUME Sealed
                 PROVE  ~NoSentinel(queue')
      OBVIOUS
    <3>1. PICK i \in 1..Len(queue) : queue[i] = Sentinel
      BY DEF QueueInv, NoSentinel
    <3>2. i - 1 \in 1..Len(queue') /\ i = (i - 1) + 1
      BY <1>1, <1>3, <1>6, <3>1
    <3>3. queue'[i - 1] = Sentinel
      BY <1>1, <1>3, <3>1, <3>2
    <3> QED BY <3>2, <3>3 DEF NoSentinel
  <2>5. QueueInv'
    BY <1>1, <1>4, <1>6, <2>2, <2>3, <2>4 DEF QueueInv
  <2> QED BY <1>1, <2>1, <2>5 DEF LogStep, Abstract!log
<1> QED BY <1>5, <1>6

LEMMA WriteOutKeeps ==
  ASSUME QueueInv, WriteOut
  PROVE  QueueInv' /\ LogStep
<1>1. /\ thread = "writing" /\ file' = Append(file, hand) /\ hand' = Sentinel
      /\ thread' = "ready" /\ queue' = queue /\ waiters' = waiters /\ mutex' = mutex
      /\ logged' = logged /\ dropped' = dropped /\ listening' = listening
  BY DEF WriteOut, calls, lock
<1>2. /\ QueueTypeOK /\ queue \in Seq(Nat) /\ SentinelLast(queue)
      /\ hand \in Nat /\ hand # Sentinel
  BY <1>1, QueueFacts DEF QueueInv
<1>3. QueueTypeOK'
  <2>1. hand \in 1..MaxLogs /\ file \in Seq(1..MaxLogs)
    BY <1>2, QueueAssumption DEF QueueTypeOK, Sentinel
  <2>2. Append(file, hand) \in Seq(1..MaxLogs) /\ Sentinel \in 0..MaxLogs
    BY <2>1, QueueAssumption, AppendProperties DEF Sentinel
  <2> QED BY <1>1, <1>2, <2>2 DEF QueueTypeOK
<1>4. QueueInv'
  BY <1>1, <1>3 DEF QueueInv, Closing, Sealed, NoSentinel
<1>5. /\ Pending # <<>> /\ Head(Pending) = hand /\ Pending' = Tail(Pending)
  <2>1. Pending = PendingIn("writing", hand, queue) /\ Pending' = PendingIn("ready", Sentinel, queue)
    BY <1>1 DEF Pending
  <2> QED BY <1>2, <2>1, PendingWritten
<1> QED BY <1>1, <1>4, <1>5 DEF LogStep, Abstract!Write
LEMMA StopCalledKeeps ==
  ASSUME QueueInv, NEW next \in {"stopping", "reconfiguring"}, StopCalled(next)
  PROVE  QueueInv' /\ LogStep
<1>1. /\ listening = "on" /\ ~Closing /\ ~Sealed /\ thread # "ended"
      /\ logged' = logged /\ dropped' = dropped /\ mutex' = mutex /\ hand' = hand
      /\ file' = file
  BY DEF StopCalled, calls, Closing, Sealed, QueueInv
<1>2. QueueTypeOK /\ queue \in Seq(Nat) /\ NoSentinel(queue) /\ hand \in Nat
  BY <1>1, QueueFacts DEF QueueInv
<1>3. CASE Len(queue) < MaxSize /\ Put(Sentinel) /\ listening' = next
  <2>1. /\ waiters' = <<>> /\ thread' = IF thread = "waiting" THEN "ready" ELSE thread
        /\ queue' = Append(queue, Sentinel)
    BY <1>3, PutWakes DEF Put
  <2>2. queue \in Seq(0..MaxLogs) /\ Sentinel \in 0..MaxLogs
    BY <1>2, QueueAssumption DEF QueueTypeOK, Sentinel
  <2>3. /\ queue' \in Seq(0..MaxLogs) /\ Len(queue') = Len(queue) + 1
        /\ \A i \in 1..Len(queue) : queue'[i] = queue[i]
        /\ queue'[Len(queue) + 1] = Sentinel
    BY <2>1, <2>2, AppendProperties
  <2>4. Len(queue) \in Nat /\ Len(queue') <= MaxSize
    BY <1>2, <1>3, <2>3, QueueAssumption
  <2>5. QueueTypeOK'
    BY <1>1, <1>2, <1>3, <2>1, <2>3, <2>4 DEF QueueTypeOK, Listening
  <2>6. Closing' /\ Sealed' /\ thread' # "ended"
    BY <1>1, <1>3, <2>1 DEF Closing, Sealed
  <2>7. \A i \in 1..Len(queue') : queue'[i] = Sentinel => i = Len(queue')
    BY <1>2, <2>3, <2>4 DEF NoSentinel
  <2>8. ~NoSentinel(queue')
    BY <2>3, <2>4 DEF NoSentinel
  <2>9. QueueInv'
    <3>1. NoSentinel(queue)' <=> NoSentinel(queue')
      BY DEF NoSentinel
    <3> QED BY <1>1, <1>3, <2>1, <2>5, <2>6, <2>7, <2>8, <3>1 DEF QueueInv
  <2>10. Pending' = Pending
    <3>1. Pending' = PendingIn(thread', hand, Append(queue, Sentinel))
      BY <1>1, <2>1 DEF Pending
    <3>2. thread = "writing" <=> thread' = "writing"
      BY <2>1
    <3>3. PendingIn(thread', hand, Append(queue, Sentinel)) = PendingIn(thread, hand, queue)
      BY <1>2, <3>2, PendingSealed
    <3> QED BY <3>1, <3>3 DEF Pending
  <2> QED BY <1>1, <2>9, <2>10 DEF LogStep, Abstract!log
<1>4. CASE /\ Len(queue) = MaxSize /\ listening' = "failed"
           /\ UNCHANGED <<queue, waiters, thread>>
  <2>1. QueueTypeOK'
    BY <1>1, <1>2, <1>4 DEF QueueTypeOK, Listening
  <2>2. QueueInv'
    BY <1>1, <1>2, <1>4, <2>1 DEF QueueInv, Closing, Sealed, NoSentinel
  <2>3. Pending' = Pending
    BY <1>1, <1>4 DEF Pending
  <2> QED BY <1>1, <2>2, <2>3 DEF LogStep, Abstract!log
<1> QED BY <1>3, <1>4 DEF StopCalled

\* A stop returns, and a new configuration begins, with nothing pending.
LEMMA StopReturnsKeeps ==
  ASSUME QueueInv, StopReturns \/ Reconfigured
  PROVE  QueueInv' /\ LogStep /\ Pending = <<>>
<1>1. Closing /\ thread = "ended" /\ ~Sealed /\ queue = <<>> /\ hand = Sentinel
  BY DEF StopReturns, Reconfigured, Closing, Sealed, QueueInv
<1>2. /\ queue' = <<>> /\ hand' = Sentinel
      /\ logged' = logged /\ dropped' = dropped /\ file' = file
      /\ \/ listening' = "stopped" /\ thread' = "ended"
         \/ listening' = "on" /\ thread' = "ready"
  BY <1>1 DEF StopReturns, Reconfigured, calls, lock
<1>3. QueueTypeOK
  BY DEF QueueInv
<1>4. /\ waiters' = <<>> /\ mutex' \in {"free", "listener", "dead"}
  BY <1>1, <1>3 DEF StopReturns, Reconfigured, lock, QueueInv, QueueTypeOK
<1>5. QueueTypeOK'
  BY <1>1, <1>2, <1>3, <1>4 DEF QueueTypeOK, Listening
<1>6. QueueInv'
  BY <1>1, <1>2, <1>4, <1>5 DEF QueueInv, Closing, Sealed
<1>7. Pending = <<>> /\ Pending' = <<>>
  BY <1>1, <1>2, ConcatEmptySeq, EmptySeq DEF Pending, PendingIn, RecordsIn
<1> QED BY <1>2, <1>6, <1>7 DEF LogStep, Abstract!log

LEMMA QueueStarts == QueueInit => QueueInv /\ Abstract!LogInit
<1> SUFFICES ASSUME QueueInit
             PROVE  QueueInv /\ Abstract!LogInit
  OBVIOUS
<1>1. QueueTypeOK
  BY QueueAssumption DEF QueueInit, QueueTypeOK, Listening, Sentinel
<1>2. QueueInv
  BY <1>1, QueueAssumption DEF QueueInit, QueueInv, Closing, Sealed, Sentinel
<1>3. Pending = <<>>
  BY ConcatEmptySeq, EmptySeq DEF QueueInit, Pending, PendingIn, RecordsIn
<1> QED BY <1>2, <1>3 DEF QueueInit, Abstract!LogInit

LEMMA QueueStep == QueueInv /\ [QueueNext]_lqvars => QueueInv' /\ LogStep
<1> SUFFICES ASSUME QueueInv, [QueueNext]_lqvars
             PROVE  QueueInv' /\ LogStep
  OBVIOUS
<1>1. CASE Log
  BY <1>1, LogKeeps
<1>2. CASE Start \/ Lock \/ Wait
  BY <1>2, ThreadKeeps
<1>3. CASE Take
  BY <1>3, TakeKeeps
<1>4. CASE WriteOut
  BY <1>4, WriteOutKeeps
<1>5. CASE StopCalled("stopping") \/ StopCalled("reconfiguring")
  BY <1>5, StopCalledKeeps
<1>6. CASE StopReturns \/ Reconfigured
  BY <1>6, StopReturnsKeeps
<1>7. CASE UNCHANGED lqvars
  BY <1>7 DEF lqvars, QueueInv, QueueTypeOK, Closing, Sealed, NoSentinel,
              LogStep, Abstract!log, Pending
<1> QED BY <1>1, <1>2, <1>3, <1>4, <1>5, <1>6, <1>7 DEF QueueNext, Listener

\* The log queue of a process implements BoundedLog.
THEOREM QueueIsBoundedLog == QueueSpec => Abstract!Logging
<1>1. QueueInv /\ [QueueNext]_lqvars
        => [Abstract!Accept \/ Abstract!Drop \/ Abstract!Write]_Abstract!log
  BY QueueStep DEF LogStep
<1>2. QueueInv /\ [QueueNext]_lqvars => QueueInv'
  BY QueueStep
<1> QED BY <1>1, <1>2, QueueStarts, PTL DEF QueueSpec, Abstract!Logging
-----------------------------------------------------------------------------
\* The main process does nothing else to its queue, whatever its child does.
LEMMA WorkerStepsOfQueue == [WorkerNext]_wvars => [QueueNext]_lqvars
BY DEF WorkerNext, MainProcess, QueueNext, wvars, Fork, RenewPool, ResetLoop, Restart,
       Announce, RunTask, ChildLogs, ChildListens, ShutdownSignal, Exit

THEOREM WorkerRunsQueue == WorkerSpec => QueueSpec
<1>1. WorkerInit => QueueInit
  BY DEF WorkerInit
<1> QED BY <1>1, WorkerStepsOfQueue, PTL DEF WorkerSpec, QueueSpec

\* What the listener of the main process writes is what was logged, in order
\* and once, but for the records counted: whatever forks meanwhile.
THEOREM MainLogIsKept == WorkerSpec => MainLogKept
BY WorkerRunsQueue, QueueIsBoundedLog, PTL DEF MainLogKept

LEMMA WorkerKeepsQueueInv == WorkerSpec => []QueueInv
<1>1. QueueInv /\ [QueueNext]_lqvars => QueueInv'
  BY QueueStep
<1>2. QueueInit => QueueInv
  BY QueueStarts
<1> QED BY <1>1, <1>2, WorkerRunsQueue, PTL DEF QueueSpec

\* No record of the main process is lost without being counted, none is
\* written twice or before one that was logged earlier.
THEOREM MainLogAccounted == WorkerSpec => [](Abstract!InOrder /\ Abstract!Accounted)
<1> DEFINE Kept == logged \in Nat /\ dropped \in Nat /\ Abstract!InOrder /\ Abstract!Accounted
<1>1. Abstract!LogInit => Kept
  BY ConcatEmptySeq, EmptySeq DEF Abstract!LogInit, Abstract!InOrder, Abstract!Ordered, Abstract!Accounted
<1>2. Kept /\ [Abstract!Accept \/ Abstract!Drop \/ Abstract!Write]_Abstract!log => Kept'
  BY LoggingKept
<1>3. WorkerSpec => Abstract!Logging
  BY MainLogIsKept DEF MainLogKept
<1> QED BY <1>1, <1>2, <1>3, PTL DEF Abstract!Logging

\* A stop that returns has flushed: only StopReturns and Reconfigured take
\* listening out of these two states, and the thread they wait for has ended.
THEOREM StopHasFlushed == WorkerSpec => StopFlushes
<1> DEFINE Flushed == listening \in {"stopping", "reconfiguring"} /\ listening' # listening
                        => Pending = <<>>
<1>1. QueueInv /\ [WorkerNext]_wvars => Flushed
  <2> SUFFICES ASSUME QueueInv, [QueueNext]_lqvars
               PROVE  Flushed
    BY WorkerStepsOfQueue
  <2>1. CASE StopReturns \/ Reconfigured
    BY <2>1, StopReturnsKeeps
  <2>2. CASE StopCalled("stopping") \/ StopCalled("reconfiguring") \/ Start
    BY <2>2 DEF StopCalled, Start
  <2>3. CASE Log \/ Listener \/ UNCHANGED lqvars
    BY <2>3 DEF Log, Listener, Lock, Wait, Take, WriteOut, lqvars
  <2> QED BY <2>1, <2>2, <2>3 DEF QueueNext
<1>2. QueueInv /\ [WorkerNext]_wvars => [Flushed]_wvars
  BY <1>1
<1>3. WorkerSpec => [][Flushed]_wvars
  BY <1>2, WorkerKeepsQueueInv, PTL DEF WorkerSpec
<1> QED BY <1>3 DEF StopFlushes
-----------------------------------------------------------------------------
\* The queue of the child.  It never stops its listener, so there is no
\* sentinel; it may inherit waiters that are dead.
Waits(w, t) ==
  \A i \in 1..Len(w) : w[i] = "listener" =>
    t = "waiting" /\ \A j \in 1..Len(w) : w[j] = "listener" => i = j

ChildQueueInv ==
  /\ Child!QueueTypeOK
  /\ cdropped <= clogged
  /\ NoSentinel(cqueue)
  /\ cthread # "ended" /\ clistening \in {"none", "on"}
  /\ cthread = "writing" <=> chand # Sentinel
  /\ Waits(cwaiters, cthread)

ChildLogStep ==
  \/ Child!Abstract!Accept \/ Child!Abstract!Drop \/ Child!Abstract!Write
  \/ Child!Abstract!Inherit \/ UNCHANGED Child!Abstract!log

\* The operators of LogQueue are the same for both.
LEMMA OneQueue ==
  /\ Child!Sentinel = Sentinel
  /\ Child!Pending = PendingIn(cthread, chand, cqueue)
BY DEF Sentinel, Child!Sentinel, Child!Pending, Child!PendingIn, Child!RecordsIn,
       PendingIn, RecordsIn

LEMMA OneQueueNext == Child!Pending' = PendingIn(cthread', chand', cqueue')
BY DEF Sentinel, Child!Sentinel, Child!Pending, Child!PendingIn, Child!RecordsIn,
       PendingIn, RecordsIn

LEMMA ChildFacts ==
  ASSUME ChildQueueInv
  PROVE  /\ cqueue \in Seq(0..MaxLogs) /\ cqueue \in Seq(Nat) /\ chand \in Nat
         /\ SentinelLast(cqueue) /\ clogged \in Nat /\ cdropped \in Nat
         /\ cwaiters \in Seq({"listener", "dead"})
<1>1. cqueue \in Seq(0..MaxLogs) /\ chand \in 0..MaxLogs /\ clogged \in Nat /\ cdropped \in Nat
      /\ cwaiters \in Seq({"listener", "dead"})
  BY DEF ChildQueueInv, Child!QueueTypeOK
<1>2. cqueue \in Seq(Nat) /\ chand \in Nat
  BY <1>1, SeqMonotonic, QueueAssumption
<1> QED BY <1>1, <1>2 DEF ChildQueueInv, SentinelLast, NoSentinel

\* put_nowait wakes the listener only where it waits, and then it no longer
\* is among the waiters.
LEMMA WaitsTail ==
  ASSUME NEW w \in Seq({"listener", "dead"}), w # <<>>, NEW t, Waits(w, t),
         NEW u, u = IF Head(w) = "listener" THEN "ready" ELSE t
  PROVE  /\ Tail(w) \in Seq({"listener", "dead"}) /\ Waits(Tail(w), u)
         /\ u # t => t = "waiting"
<1>1. /\ Tail(w) \in Seq({"listener", "dead"}) /\ Len(Tail(w)) = Len(w) - 1
      /\ \A i \in 1..Len(Tail(w)) : Tail(w)[i] = w[i + 1]
      /\ Head(w) = w[1] /\ Len(w) \in Nat \ {0}
  BY HeadTailProperties, EmptySeq
<1>2. \A i \in 1..Len(Tail(w)) : i + 1 \in 1..Len(w) /\ i + 1 # 1
  BY <1>1
<1>3. 1 \in 1..Len(w)
  BY <1>1
<1>4. CASE Head(w) = "listener"
  <2>1. t = "waiting" /\ \A j \in 1..Len(w) : w[j] = "listener" => 1 = j
    BY <1>1, <1>3, <1>4 DEF Waits
  <2>2. \A i \in 1..Len(Tail(w)) : Tail(w)[i] # "listener"
    BY <1>1, <1>2, <2>1
  <2> QED BY <1>1, <2>1, <2>2 DEF Waits
<1>5. CASE Head(w) # "listener"
  <2> SUFFICES ASSUME NEW i \in 1..Len(Tail(w)), Tail(w)[i] = "listener",
                      NEW j \in 1..Len(Tail(w)), Tail(w)[j] = "listener"
               PROVE  t = "waiting" /\ i = j
    BY <1>1, <1>5 DEF Waits
  <2>1. w[i + 1] = "listener" /\ w[j + 1] = "listener"
    BY <1>1
  <2>2. t = "waiting" /\ i + 1 = j + 1
    BY <1>2, <2>1 DEF Waits
  <2> QED BY <2>2
<1> QED BY <1>4, <1>5

LEMMA ChildPut ==
  ASSUME ChildQueueInv, NEW x, Child!Put(x)
  PROVE  /\ cqueue' = Append(cqueue, x)
         /\ cwaiters' \in Seq({"listener", "dead"}) /\ Waits(cwaiters', cthread')
         /\ cthread' = cthread \/ (cthread = "waiting" /\ cthread' = "ready")
<1>1. cwaiters \in Seq({"listener", "dead"}) /\ Waits(cwaiters, cthread)
  BY ChildFacts DEF ChildQueueInv
<1>2. CASE cwaiters = <<>>
  BY <1>1, <1>2 DEF Child!Put
<1>3. CASE cwaiters # <<>>
  <2>1. cwaiters' = Tail(cwaiters)
        /\ cthread' = IF Head(cwaiters) = "listener" THEN "ready" ELSE cthread
    BY <1>3 DEF Child!Put
  <2>2. Tail(cwaiters) \in Seq({"listener", "dead"}) /\ Waits(Tail(cwaiters), cthread')
        /\ (cthread' # cthread => cthread = "waiting")
    BY <1>1, <1>3, <2>1, WaitsTail
  <2> QED BY <2>1, <2>2 DEF Child!Put
<1> QED BY <1>2, <1>3

LEMMA ChildLogKeeps ==
  ASSUME ChildQueueInv, Child!Log
  PROVE  /\ ChildQueueInv' /\ ChildLogStep
         /\ cthread = "none" => cthread' = "none"
<1> DEFINE x == clogged + 1
<1>1. /\ clogged < MaxLogs /\ clogged' = x /\ x \in 1..MaxLogs /\ x \in Nat /\ x # Sentinel
      /\ cmutex' = cmutex /\ chand' = chand /\ cfile' = cfile /\ clistening' = clistening
  BY ChildFacts, QueueAssumption DEF Child!Log, Sentinel
<1>2. /\ cqueue \in Seq(Nat) /\ cqueue \in Seq(0..MaxLogs) /\ NoSentinel(cqueue) /\ chand \in Nat
      /\ clogged \in Nat /\ cdropped \in Nat /\ cdropped <= clogged
      /\ Child!QueueTypeOK
  BY ChildFacts DEF ChildQueueInv
<1>3. CASE Len(cqueue) < MaxSize /\ Child!Put(x) /\ cdropped' = cdropped
  <2>1. /\ cqueue' = Append(cqueue, x)
        /\ cwaiters' \in Seq({"listener", "dead"}) /\ Waits(cwaiters', cthread')
        /\ cthread' = cthread \/ (cthread = "waiting" /\ cthread' = "ready")
    BY <1>3, ChildPut
  <2>2. /\ cqueue' \in Seq(0..MaxLogs) /\ Len(cqueue') = Len(cqueue) + 1
        /\ \A i \in 1..Len(cqueue) : cqueue'[i] = cqueue[i]
        /\ cqueue'[Len(cqueue) + 1] = x
    BY <1>1, <1>2, <2>1, AppendProperties
  <2>3. NoSentinel(cqueue') /\ Len(cqueue') <= MaxSize
    BY <1>1, <1>2, <1>3, <2>2, QueueAssumption DEF NoSentinel
  <2>4. Child!QueueTypeOK'
    BY <1>1, <1>2, <1>3, <2>1, <2>2, <2>3 DEF Child!QueueTypeOK
  <2>5. ChildQueueInv'
    <3>1. NoSentinel(cqueue)' <=> NoSentinel(cqueue')
      BY DEF NoSentinel
    <3>2. Waits(cwaiters, cthread)' <=> Waits(cwaiters', cthread')
      BY DEF Waits
    <3> QED BY <1>1, <1>2, <1>3, <2>1, <2>3, <2>4, <3>1, <3>2 DEF ChildQueueInv
  <2>6. Child!Pending' = Append(Child!Pending, x)
    <3>1. Child!Pending' = PendingIn(cthread', chand, Append(cqueue, x))
      <4>1. Child!Pending' = PendingIn(cthread', chand', cqueue')
        BY OneQueueNext
      <4> QED BY <1>1, <2>1, <4>1
    <3>2. cthread = "writing" <=> cthread' = "writing"
      BY <2>1
    <3>3. PendingIn(cthread', chand, Append(cqueue, x)) = Append(PendingIn(cthread, chand, cqueue), x)
      BY <1>1, <1>2, <3>2, PendingPut
    <3> QED BY <3>1, <3>3, OneQueue
  <2>7. Child!Abstract!Accept
    BY <1>1, <1>3, <2>6 DEF Child!Abstract!Accept
  <2> QED BY <2>1, <2>5, <2>7 DEF ChildLogStep
<1>4. CASE /\ Len(cqueue) = MaxSize /\ cdropped' = cdropped + 1
           /\ cqueue' = cqueue /\ cwaiters' = cwaiters /\ cthread' = cthread
  <2>1. Child!QueueTypeOK'
    BY <1>1, <1>2, <1>4, QueueAssumption DEF Child!QueueTypeOK
  <2>2. ChildQueueInv'
    BY <1>1, <1>2, <1>4, <2>1 DEF ChildQueueInv, NoSentinel, Waits
  <2>3. Child!Pending' = Child!Pending
    BY <1>1, <1>4 DEF Child!Pending
  <2>4. Len(Child!Pending) >= MaxSize
    BY <1>2, <1>4, OneQueue, PendingLength
  <2>5. Child!Abstract!Drop
    BY <1>1, <1>4, <2>3, <2>4 DEF Child!Abstract!Drop
  <2> QED BY <1>4, <2>2, <2>5 DEF ChildLogStep
<1> QED BY <1>3, <1>4 DEF Child!Log

LEMMA ChildLockKeeps ==
  ASSUME ChildQueueInv, Child!Lock \/ Child!Wait
  PROVE  ChildQueueInv' /\ ChildLogStep /\ cthread # "none"
<1>1. /\ cqueue' = cqueue /\ clogged' = clogged /\ cdropped' = cdropped
      /\ cfile' = cfile /\ chand' = chand /\ clistening' = clistening
      /\ cmutex' \in {"free", "listener", "dead"}
      /\ cthread \in {"ready", "locked"}
      /\ \/ cthread' = "locked" /\ cwaiters' = cwaiters
         \/ cthread' = "waiting" /\ cwaiters' = Append(cwaiters, "listener")
  BY DEF Child!Lock, Child!Wait, Child!calls, Child!lock
<1>2. Child!QueueTypeOK /\ cwaiters \in Seq({"listener", "dead"}) /\ Waits(cwaiters, cthread)
  BY ChildFacts DEF ChildQueueInv
<1>3. \A i \in 1..Len(cwaiters) : cwaiters[i] # "listener"
  BY <1>1, <1>2 DEF Waits
<1>4. cwaiters' \in Seq({"listener", "dead"}) /\ Waits(cwaiters', cthread')
  <2>1. CASE cwaiters' = cwaiters
    BY <1>2, <1>3, <2>1 DEF Waits
  <2>2. CASE cthread' = "waiting" /\ cwaiters' = Append(cwaiters, "listener")
    BY <1>2, <1>3, <2>2, AppendProperties DEF Waits
  <2> QED BY <1>1, <2>1, <2>2
<1>5. ChildQueueInv'
  <2>1. Child!QueueTypeOK'
    BY <1>1, <1>2, <1>4 DEF Child!QueueTypeOK
  <2> QED BY <1>1, <1>4, <2>1 DEF ChildQueueInv, NoSentinel, Waits
<1>6. UNCHANGED Child!Abstract!log
  BY <1>1 DEF Child!Abstract!log, Child!Pending, Child!PendingIn
<1> QED BY <1>1, <1>5, <1>6 DEF ChildLogStep

LEMMA ChildTakeKeeps ==
  ASSUME ChildQueueInv, Child!Take
  PROVE  ChildQueueInv' /\ ChildLogStep /\ cthread # "none"
<1>1. /\ cqueue \in Seq(0..MaxLogs) /\ cqueue \in Seq(Nat) /\ SentinelLast(cqueue)
      /\ NoSentinel(cqueue) /\ cqueue # <<>> /\ Child!QueueTypeOK
      /\ Waits(cwaiters, cthread)
  BY ChildFacts DEF Child!Take, ChildQueueInv
<1>2. /\ Head(cqueue) \in 0..MaxLogs /\ Tail(cqueue) \in Seq(0..MaxLogs)
      /\ Len(Tail(cqueue)) = Len(cqueue) - 1
      /\ \A i \in 1..Len(Tail(cqueue)) : Tail(cqueue)[i] = cqueue[i + 1]
  BY <1>1, HeadTailProperties
<1>3. Len(cqueue) \in Nat \ {0} /\ Head(cqueue) = cqueue[1]
  BY <1>1, EmptySeq
<1>4. Head(cqueue) # Sentinel /\ NoSentinel(Tail(cqueue))
  BY <1>1, <1>2, <1>3 DEF NoSentinel
<1>5. /\ cthread = "locked" /\ cthread' = "writing" /\ chand' = Head(cqueue)
      /\ cqueue' = Tail(cqueue) /\ cmutex' = "free" /\ cwaiters' = cwaiters
      /\ clogged' = clogged /\ cdropped' = cdropped /\ cfile' = cfile /\ clistening' = clistening
  BY <1>4, OneQueue DEF Child!Take, Child!calls
<1>6. ChildQueueInv'
  <2>1. Len(cqueue') <= MaxSize
    BY <1>1, <1>2, <1>3, <1>5, QueueAssumption DEF Child!QueueTypeOK
  <2>2. Child!QueueTypeOK'
    BY <1>1, <1>2, <1>5, <2>1 DEF Child!QueueTypeOK
  <2>3. Waits(cwaiters, cthread)'
    BY <1>1, <1>5 DEF Waits
  <2>4. NoSentinel(cqueue)'
    BY <1>4, <1>5 DEF NoSentinel
  <2> QED BY <1>4, <1>5, <2>2, <2>3, <2>4 DEF ChildQueueInv
<1>7. Child!Pending' = Child!Pending
  <2>1. Child!Pending' = PendingIn(cthread', chand', cqueue')
    BY OneQueueNext
  <2>2. PendingIn("writing", Head(cqueue), Tail(cqueue)) = PendingIn(cthread, chand, cqueue)
    <3>1. cthread # "writing"
      BY <1>5
    <3> QED BY <1>1, <1>4, <3>1, PendingTaken
  <2> QED BY <1>5, <2>1, <2>2, OneQueue
<1> QED BY <1>5, <1>6, <1>7 DEF ChildLogStep, Child!Abstract!log

LEMMA ChildWriteOutKeeps ==
  ASSUME ChildQueueInv, Child!WriteOut
  PROVE  ChildQueueInv' /\ ChildLogStep /\ cthread # "none"
<1>1. /\ cthread = "writing" /\ cfile' = Append(cfile, chand) /\ chand' = Sentinel
      /\ cthread' = "ready" /\ cqueue' = cqueue /\ cwaiters' = cwaiters /\ cmutex' = cmutex
      /\ clogged' = clogged /\ cdropped' = cdropped /\ clistening' = clistening
  BY OneQueue DEF Child!WriteOut, Child!calls, Child!lock
<1>2. /\ Child!QueueTypeOK /\ cqueue \in Seq(Nat) /\ SentinelLast(cqueue)
      /\ chand \in Nat /\ chand # Sentinel /\ Waits(cwaiters, cthread)
  BY <1>1, ChildFacts DEF ChildQueueInv
<1>3. Child!QueueTypeOK'
  <2>1. chand \in 1..MaxLogs /\ cfile \in Seq(1..MaxLogs)
    BY <1>2, QueueAssumption DEF Child!QueueTypeOK, Sentinel
  <2>2. Append(cfile, chand) \in Seq(1..MaxLogs) /\ Sentinel \in 0..MaxLogs
    BY <2>1, QueueAssumption, AppendProperties DEF Sentinel
  <2> QED BY <1>1, <1>2, <2>2 DEF Child!QueueTypeOK
<1>4. ChildQueueInv'
  <2>1. Waits(cwaiters, cthread)'
    BY <1>1, <1>2 DEF Waits
  <2> QED BY <1>1, <1>3, <2>1 DEF ChildQueueInv, NoSentinel
<1>5. /\ Child!Pending # <<>> /\ Head(Child!Pending) = chand
      /\ Child!Pending' = Tail(Child!Pending)
  <2>1. Child!Pending' = PendingIn(cthread', chand', cqueue')
    BY OneQueueNext
  <2>2. Child!Pending = PendingIn("writing", chand, cqueue)
        /\ Child!Pending' = PendingIn("ready", Sentinel, cqueue)
    BY <1>1, <2>1, OneQueue
  <2> QED BY <1>2, <2>2, PendingWritten
<1> QED BY <1>1, <1>4, <1>5 DEF ChildLogStep, Child!Abstract!Write

\* Before the child has set its listener up there is none, and before the
\* fork there is nothing.
Listenerless == {"unborn", "pools", "loop", "listener"}

ChildInv ==
  /\ ChildQueueInv
  /\ stage \in Stages
  /\ stage \in Listenerless => cthread = "none"
  /\ stage = "unborn" => clogged = 0 /\ cqueue = <<>> /\ cfile = <<>>

MainLog ==
  QueueInv /\ Abstract!InOrder /\ Abstract!Accounted

\* The end of an ordered sequence is ordered.
LEMMA LastPart ==
  ASSUME NEW f \in Seq(Nat), NEW q \in Seq(Nat), NEW l \in Nat,
         f \o q \in Seq(1..l),
         \A i, j \in 1..Len(f \o q) : i < j => (f \o q)[i] < (f \o q)[j]
  PROVE  /\ q \in Seq(1..l)
         /\ \A i, j \in 1..Len(q) : i < j => q[i] < q[j]
<1> DEFINE t == f \o q
           n == Len(f)
<1>1. /\ Len(t) = n + Len(q) /\ n \in Nat /\ Len(q) \in Nat
      /\ \A i \in 1..n + Len(q) : t[i] = IF i <= n THEN f[i] ELSE q[i - n]
  BY ConcatProperties
<1>2. \A i \in 1..Len(q) : n + i \in 1..Len(t) /\ t[n + i] = q[i]
  <2> TAKE i \in 1..Len(q)
  <2>1. n + i \in 1..n + Len(q) /\ ~(n + i <= n) /\ (n + i) - n = i
    BY <1>1
  <2> QED BY <1>1, <2>1
<1>3. \A i \in 1..Len(q) : q[i] \in 1..l
  <2> TAKE i \in 1..Len(q)
  <2>1. t[n + i] \in 1..l
    BY <1>2, ElementOfSeq
  <2> QED BY <1>2, <2>1
<1>4. q \in Seq(1..l)
  <2>1. q \in [1..Len(q) -> Nat]
    BY LenProperties
  <2>2. q \in [1..Len(q) -> 1..l]
    BY <1>3, <2>1
  <2> QED BY <1>1, <2>2, SeqDef
<1>5. \A i, j \in 1..Len(q) : i < j => q[i] < q[j]
  <2> TAKE i, j \in 1..Len(q)
  <2> HAVE i < j
  <2>1. n + i < n + j
    BY <1>1
  <2>2. t[n + i] < t[n + j]
    BY <1>2, <2>1
  <2> QED BY <1>2, <2>2
<1> QED BY <1>4, <1>5

\* What the child inherits: the main process is not stopping its listener,
\* so its queue has no sentinel and holds the end of what is pending.
LEMMA Inherits ==
  ASSUME MainLog, listening = "on"
  PROVE  /\ NoSentinel(queue) /\ queue \in Seq(Nat)
         /\ Abstract!Ordered(logged, queue, <<>>)
<1>1. NoSentinel(queue) /\ SentinelLast(queue) /\ queue \in Seq(Nat) /\ hand \in Nat
  BY QueueFacts DEF MainLog, QueueInv, Sealed, Closing
<1>2. RecordsIn(queue) = queue
  BY <1>1, RecordsOfOpen
<1>3. /\ Pending \in Seq(1..logged) /\ file \in Seq(1..logged)
      /\ \A i, j \in 1..Len(file \o Pending) :
           i < j => (file \o Pending)[i] < (file \o Pending)[j]
  BY DEF MainLog, Abstract!InOrder, Abstract!Ordered
<1> DEFINE h == IF thread = "writing" THEN <<hand>> ELSE <<>>
<1>4. Pending = h \o queue /\ h \in Seq(Nat)
  BY <1>1, <1>2 DEF Pending, PendingIn
<1>5. logged \in Nat
  BY DEF MainLog, QueueInv, QueueTypeOK
<1>6. file \in Seq(Nat)
  BY <1>3, <1>5, SeqMonotonic
<1>7. file \o Pending = (file \o h) \o queue /\ file \o h \in Seq(Nat)
  <2> HIDE DEF h
  <2>1. (file \o h) \o queue = file \o (h \o queue)
    BY <1>1, <1>4, <1>6, ConcatAssociative
  <2>2. file \o h \in Seq(Nat)
    BY <1>4, <1>6, ConcatProperties
  <2> QED BY <1>4, <2>1, <2>2
<1>8. file \o Pending \in Seq(1..logged)
  BY <1>3
<1>9. /\ queue \in Seq(1..logged)
      /\ \A i, j \in 1..Len(queue) : i < j => queue[i] < queue[j]
  <2> HIDE DEF h
  <2> QED BY <1>1, <1>3, <1>5, <1>7, <1>8, LastPart
<1>10. <<>> \o queue = queue /\ <<>> \in Seq(1..logged)
  BY <1>1, ConcatEmptySeq, EmptySeq
<1> QED BY <1>1, <1>9, <1>10 DEF Abstract!Ordered

LEMMA ForkKeeps ==
  ASSUME ChildInv, MainLog, Fork
  PROVE  ChildInv' /\ ChildLogStep
<1>1. /\ stage = "unborn" /\ listening = "on" /\ stage' = "pools"
      /\ clogged' = logged /\ cqueue' = queue /\ cdropped' = dropped
      /\ cwaiters' = [i \in 1..Len(waiters) |-> "dead"]
      /\ cmutex' \in {"free", "dead"} /\ clistening' = "on"
      /\ cthread' = "none" /\ cthread = "none" /\ chand' = chand /\ cfile' = cfile
      /\ clogged = 0 /\ cfile = <<>>
  BY DEF Fork, ChildInv, Listenerless
<1>2. /\ QueueTypeOK /\ dropped <= logged /\ logged \in Nat /\ dropped \in Nat
      /\ Child!QueueTypeOK /\ chand = Sentinel
  BY <1>1 DEF MainLog, QueueInv, QueueTypeOK, ChildInv, ChildQueueInv
<1>3. NoSentinel(queue) /\ queue \in Seq(Nat) /\ Abstract!Ordered(logged, queue, <<>>)
  BY <1>1, Inherits
<1>4. cwaiters' \in Seq({"listener", "dead"}) /\ Waits(cwaiters', cthread')
  <2>1. waiters \in Seq({"listener", "dead"}) /\ Len(waiters) \in Nat
    BY <1>2 DEF QueueTypeOK
  <2>2. /\ cwaiters' \in [1..Len(waiters) -> {"listener", "dead"}]
        /\ \A i \in 1..Len(waiters) : cwaiters'[i] = "dead"
    BY <1>1
  <2>3. cwaiters' \in Seq({"listener", "dead"})
    BY <2>1, <2>2, SeqDef
  <2>4. Len(cwaiters') = Len(waiters)
    BY <2>1, <2>2, <2>3, LenProperties
  <2> QED BY <2>2, <2>3, <2>4 DEF Waits
<1>5. ChildInv'
  <2>1. Child!QueueTypeOK'
    BY <1>1, <1>2, <1>4 DEF QueueTypeOK, Child!QueueTypeOK, Listening, Child!Listening
  <2>2. ChildQueueInv'
    <3>1. NoSentinel(cqueue)'
      BY <1>1, <1>3 DEF NoSentinel
    <3>2. Waits(cwaiters, cthread)'
      BY <1>4 DEF Waits
    <3> QED BY <1>1, <1>2, <2>1, <3>1, <3>2 DEF ChildQueueInv
  <2> QED BY <1>1, <2>2 DEF ChildInv, Stages
<1>6. Child!Abstract!Inherit
  <2>1. Child!Pending' = queue
    <3>1. Child!Pending' = PendingIn("none", Sentinel, queue)
      BY <1>1, <1>2, OneQueueNext
    <3>2. PendingIn("none", Sentinel, queue) = queue
      BY <1>3, RecordsOfOpen, ConcatEmptySeq DEF PendingIn
    <3> QED BY <3>1, <3>2
  <2>2. Child!Abstract!Ordered(logged, queue, <<>>)
    BY <1>3, OneOrder
  <2> QED BY <1>1, <1>2, <2>1, <2>2 DEF Child!Abstract!Inherit
<1> QED BY <1>5, <1>6 DEF ChildLogStep

LEMMA ChildListensKeeps ==
  ASSUME ChildInv, ChildListens
  PROVE  ChildInv' /\ ChildLogStep
<1>1. stage' = stage /\ Child!Listener /\ ChildQueueInv
  BY DEF ChildListens, ChildInv, life
<1>2. ChildQueueInv' /\ ChildLogStep /\ cthread # "none"
  BY <1>1, ChildLockKeeps, ChildTakeKeeps, ChildWriteOutKeeps DEF Child!Listener
<1> QED BY <1>1, <1>2 DEF ChildInv, Listenerless

\* Whoever logs in the child is past the fork.
LEMMA ChildLogsKeeps ==
  ASSUME ChildInv, Child!Log, stage # "unborn", stage' \in Stages, stage' # "unborn",
         stage' \in Listenerless => stage \in Listenerless
  PROVE  ChildInv' /\ ChildLogStep
<1>1. ChildQueueInv' /\ ChildLogStep /\ (cthread = "none" => cthread' = "none")
  BY ChildLogKeeps DEF ChildInv
<1> QED BY <1>1 DEF ChildInv

\* The steps of a child in which its queue stays as it is.
LEMMA ChildQueueKeeps ==
  ASSUME ChildInv, UNCHANGED clog, stage' \in Stages,
         stage' \in Listenerless => stage \in Listenerless,
         stage' = "unborn" => stage = "unborn"
  PROVE  ChildInv' /\ ChildLogStep
<1>1. /\ clogged' = clogged /\ cqueue' = cqueue /\ cwaiters' = cwaiters /\ cmutex' = cmutex
      /\ cthread' = cthread /\ chand' = chand /\ cfile' = cfile /\ cdropped' = cdropped
      /\ clistening' = clistening
  BY DEF clog
<1>2. ChildQueueInv'
  BY <1>1 DEF ChildInv, ChildQueueInv, Child!QueueTypeOK, NoSentinel, Waits
<1>3. UNCHANGED Child!Abstract!log
  BY <1>1 DEF Child!Abstract!log, Child!Pending
<1> QED BY <1>1, <1>2, <1>3 DEF ChildInv, ChildLogStep

LEMMA RestartKeeps ==
  ASSUME ChildInv, Restart
  PROVE  ChildInv' /\ ChildLogStep
<1>1. /\ clogged' = clogged /\ cqueue' = cqueue /\ cwaiters' = cwaiters /\ cmutex' = cmutex
      /\ cthread = "none" /\ cthread' = "ready"
      /\ chand' = chand /\ cfile' = cfile /\ cdropped' = cdropped
      /\ clistening' = clistening /\ stage' = "announce"
  BY DEF Restart, ChildInv, Listenerless
<1>2. ChildQueueInv'
  BY <1>1 DEF ChildInv, ChildQueueInv, Child!QueueTypeOK, NoSentinel, Waits
<1>3. UNCHANGED Child!Abstract!log
  BY <1>1 DEF Child!Abstract!log, Child!Pending, Child!PendingIn
<1> QED BY <1>1, <1>2, <1>3 DEF ChildInv, ChildLogStep, Listenerless, Stages

LEMMA ChildStep == MainLog /\ ChildInv /\ [WorkerNext]_wvars => ChildInv' /\ ChildLogStep
<1> SUFFICES ASSUME MainLog, ChildInv, [WorkerNext]_wvars
             PROVE  ChildInv' /\ ChildLogStep
  OBVIOUS
<1>1. CASE Fork
  BY <1>1, ForkKeeps
<1>2. CASE RenewPool
  <2>1. /\ stage = "pools" /\ stage' \in {"pools", "loop"}
        /\ (UNCHANGED clog \/ Child!Log)
    BY <1>2 DEF RenewPool
  <2> QED BY <2>1, ChildLogsKeeps, ChildQueueKeeps DEF Listenerless, Stages
<1>3. CASE ResetLoop
  BY <1>3, ChildQueueKeeps DEF ResetLoop, Listenerless, Stages
<1>4. CASE Restart
  BY <1>4, RestartKeeps
<1>5. CASE Announce
  BY <1>5, ChildLogsKeeps DEF Announce, Listenerless, Stages
<1>6. CASE \E e \in Engine : RunTask(e)
  BY <1>6, ChildQueueKeeps DEF RunTask, Listenerless, Stages
<1>7. CASE ChildLogs
  <2>1. stage = "ready" /\ stage' = "ready" /\ Child!Log
    BY <1>7 DEF ChildLogs, life
  <2> QED BY <2>1, ChildLogsKeeps DEF Listenerless, Stages
<1>8. CASE ChildListens
  BY <1>8, ChildListensKeeps
<1>9. CASE ShutdownSignal
  BY <1>9, ChildLogsKeeps DEF ShutdownSignal, Listenerless, Stages
<1>10. CASE Exit
  BY <1>10, ChildQueueKeeps DEF Exit, Listenerless, Stages
<1>11. CASE UNCHANGED <<clog, stage>>
  BY <1>11, ChildQueueKeeps DEF ChildInv
<1>12. [WorkerNext]_wvars => \/ Fork \/ RenewPool \/ ResetLoop \/ Restart \/ Announce
                              \/ (\E e \in Engine : RunTask(e))
                              \/ ChildLogs \/ ChildListens \/ ShutdownSignal \/ Exit
                              \/ UNCHANGED <<clog, stage>>
  BY DEF WorkerNext, MainProcess, wvars, life
<1> QED BY <1>1, <1>2, <1>3, <1>4, <1>5, <1>6, <1>7, <1>8, <1>9, <1>10, <1>11, <1>12

LEMMA ChildStarts == WorkerInit => ChildInv /\ Child!Abstract!LogInit
<1> SUFFICES ASSUME WorkerInit
             PROVE  ChildInv /\ Child!Abstract!LogInit
  OBVIOUS
<1>1. /\ clogged = 0 /\ cqueue = <<>> /\ cwaiters = <<>> /\ cmutex = "free"
      /\ cthread = "none" /\ chand = Sentinel /\ cfile = <<>>
      /\ cdropped = 0 /\ clistening = "none" /\ stage = "unborn"
  BY OneQueue DEF WorkerInit, Child!QueueInit
<1>2. Child!QueueTypeOK
  BY <1>1, QueueAssumption, EmptySeq DEF Child!QueueTypeOK, Child!Listening, Sentinel
<1>3. ChildInv
  BY <1>1, <1>2 DEF ChildInv, ChildQueueInv, Stages, NoSentinel, Waits
<1>4. Child!Pending = <<>>
  <2>1. RecordsIn(<<>>) = <<>>
    BY DEF RecordsIn
  <2> QED BY <1>1, <2>1, OneQueue, ConcatEmptySeq, EmptySeq DEF PendingIn
<1> QED BY <1>1, <1>3, <1>4 DEF Child!Abstract!LogInit

LEMMA WorkerKeepsMainLog == WorkerSpec => []MainLog
BY WorkerKeepsQueueInv, MainLogAccounted, PTL DEF MainLog

LEMMA WorkerKeepsChildInv == WorkerSpec => []ChildInv
<1>1. WorkerInit => ChildInv
  BY ChildStarts
<1>2. MainLog /\ ChildInv /\ [WorkerNext]_wvars => ChildInv'
  BY ChildStep
<1> QED BY <1>1, <1>2, WorkerKeepsMainLog, PTL DEF WorkerSpec

\* The child writes the records it inherits, and its own behind them, in the
\* order they were logged, once each, but for those counted as dropped.
THEOREM ChildLogIsKept == WorkerSpec => ChildLogKept
<1>1. WorkerInit => Child!Abstract!LogInit
  BY ChildStarts
<1>2. MainLog /\ ChildInv /\ [WorkerNext]_wvars
        => [Child!Abstract!Accept \/ Child!Abstract!Drop \/ Child!Abstract!Write
              \/ Child!Abstract!Inherit]_Child!Abstract!log
  BY ChildStep DEF ChildLogStep
<1> QED BY <1>1, <1>2, WorkerKeepsMainLog, WorkerKeepsChildInv, PTL
        DEF WorkerSpec, ChildLogKept, Child!Abstract!ForkedLogging

\* What the file of the child holds is in the order of the logging, none twice.
THEOREM ChildLogOrdered == WorkerSpec => []Child!Abstract!InOrder
<1> DEFINE Kept == clogged \in Nat /\ Child!Abstract!InOrder
<1>1. Child!Abstract!LogInit => Kept
  <2>1. <<>> \in Seq(1..0) /\ <<>> \o <<>> = <<>> /\ Len(<<>>) = 0
    BY ConcatEmptySeq, EmptySeq
  <2>2. Abstract!Ordered(0, <<>>, <<>>)
    BY <2>1 DEF Abstract!Ordered
  <2>3. Child!Abstract!Ordered(0, <<>>, <<>>)
    BY <2>2, OneOrder
  <2> QED BY <2>3 DEF Child!Abstract!LogInit, Child!Abstract!InOrder
<1>2. Kept /\ [Child!Abstract!Accept \/ Child!Abstract!Drop \/ Child!Abstract!Write
                 \/ Child!Abstract!Inherit]_Child!Abstract!log => Kept'
  <2> SUFFICES ASSUME Kept, [Child!Abstract!Accept \/ Child!Abstract!Drop
                              \/ Child!Abstract!Write
                              \/ Child!Abstract!Inherit]_Child!Abstract!log
               PROVE  Kept'
    OBVIOUS
  <2>1. Abstract!Ordered(clogged, Child!Pending, cfile)
    BY OneOrder DEF Child!Abstract!InOrder
  <2>2. Child!Abstract!Ordered(clogged, Child!Pending, cfile)'
          <=> Abstract!Ordered(clogged', Child!Pending', cfile')
    BY DEF Abstract!Ordered, Child!Abstract!Ordered
  <2>3. CASE Child!Abstract!Accept
    BY <2>1, <2>2, <2>3, OrderAccept DEF Child!Abstract!Accept, Child!Abstract!InOrder
  <2>4. CASE Child!Abstract!Drop
    BY <2>1, <2>2, <2>4, OrderDrop DEF Child!Abstract!Drop, Child!Abstract!InOrder
  <2>5. CASE Child!Abstract!Write
    BY <2>1, <2>2, <2>5, OrderWrite DEF Child!Abstract!Write, Child!Abstract!InOrder
  <2>6. CASE Child!Abstract!Inherit
    BY <2>2, <2>6, OneOrder DEF Child!Abstract!Inherit, Child!Abstract!InOrder
  <2>7. CASE UNCHANGED Child!Abstract!log
    BY <2>1, <2>2, <2>7 DEF Child!Abstract!log, Child!Abstract!InOrder
  <2> QED BY <2>3, <2>4, <2>5, <2>6, <2>7
<1> QED BY <1>1, <1>2, ChildLogIsKept, PTL DEF ChildLogKept, Child!Abstract!ForkedLogging
-----------------------------------------------------------------------------
\* The child's connections and its loop.  An engine that was treated has no
\* connection of the parent unless its dispose failed, the tasks come when
\* all have been, and the inherited loop is gone before.
Treated == {"loop", "listener", "announce", "ready", "closing"}

LifeInv ==
  /\ stage \in Stages /\ renewed \in 0..Engines /\ kept \subseteq Engine
  /\ pool \in [Engine -> {"none", "parent", "child"}]
  /\ crossed \subseteq kept /\ loop \in {"none", "parent", "child"}
  /\ tasks \in 0..1 /\ signals \in 0..2
  /\ \A e \in 1..renewed : pool[e] = "parent" => e \in kept
  /\ stage = "unborn" => renewed = 0
  /\ stage \in Treated => renewed = Engines
  /\ stage \in Treated \ {"loop"} => loop # "parent"

LEMMA LifeStarts == WorkerInit => LifeInv
BY WorkerAssumption DEF WorkerInit, LifeInv, Engine, Stages, Treated

LEMMA RenewPoolLives ==
  ASSUME LifeInv, RenewPool
  PROVE  LifeInv'
<1> DEFINE n == renewed + 1
<1>1. /\ stage = "pools" /\ renewed < Engines /\ renewed' = n
      /\ n \in Engine /\ 1..n \subseteq Engine /\ 1..n = (1..renewed) \cup {n} /\ n \notin 1..renewed
      /\ stage' = (IF n = Engines THEN "loop" ELSE "pools")
      /\ crossed' = crossed /\ loop' = loop /\ tasks' = tasks /\ signals' = signals
      /\ \/ pool' = [pool EXCEPT ![n] = "none"] /\ kept' = kept
         \/ kept' = kept \cup {n} /\ pool' = pool
  BY WorkerAssumption DEF RenewPool, LifeInv, Engine
<1>2. pool' \in [Engine -> {"none", "parent", "child"}] /\ kept' \subseteq Engine
  BY <1>1 DEF LifeInv
<1>3. \A e \in 1..n : pool'[e] = "parent" => e \in kept'
  <2> TAKE e \in 1..n
  <2>1. e \in Engine
    BY <1>1
  <2> QED BY <1>1, <2>1 DEF LifeInv
<1>4. /\ stage' \in Stages /\ stage' # "unborn" /\ stage' \notin Treated \ {"loop"}
      /\ stage' \in Treated => renewed' = Engines
  BY <1>1 DEF Stages, Treated
<1>5. crossed' \subseteq kept' /\ renewed' \in 0..Engines
  BY <1>1, WorkerAssumption DEF LifeInv, Engine
<1>6. loop' \in {"none", "parent", "child"} /\ tasks' \in 0..1 /\ signals' \in 0..2
  BY <1>1 DEF LifeInv
<1>7. \A e \in 1..renewed' : pool'[e] = "parent" => e \in kept'
  BY <1>1, <1>3
<1> QED BY <1>2, <1>4, <1>5, <1>6, <1>7 DEF LifeInv

LEMMA RunTaskLives ==
  ASSUME LifeInv, NEW e \in Engine, RunTask(e)
  PROVE  LifeInv'
<1>1. /\ stage = "ready" /\ stage' = stage /\ renewed' = renewed /\ renewed = Engines
      /\ kept' = kept /\ tasks' = tasks + 1 /\ tasks < 1 /\ signals' = signals
      /\ loop' = (IF loop = "none" THEN "child" ELSE loop) /\ loop # "parent"
      /\ pool' = [pool EXCEPT ![e] = IF @ = "none" THEN "child" ELSE @]
      /\ crossed' = (IF pool[e] = "parent" THEN crossed \cup {e} ELSE crossed)
  BY DEF RunTask, LifeInv, Treated
<1>2. e \in 1..renewed
  BY <1>1 DEF Engine
<1>3. crossed' \subseteq kept
  BY <1>1, <1>2 DEF LifeInv
<1>4. /\ pool' \in [Engine -> {"none", "parent", "child"}]
      /\ \A f \in 1..renewed : pool'[f] = "parent" => f \in kept
  BY <1>1, <1>2 DEF LifeInv, Engine
<1>5. tasks' \in 0..1 /\ loop' \in {"none", "child"}
  BY <1>1 DEF LifeInv
<1> QED BY <1>1, <1>3, <1>4, <1>5 DEF LifeInv

LEMMA LifeStep == LifeInv /\ [WorkerNext]_wvars => LifeInv'
<1> SUFFICES ASSUME LifeInv, [WorkerNext]_wvars
             PROVE  LifeInv'
  OBVIOUS
<1>1. CASE Fork
  <2>1. /\ stage' = "pools" /\ renewed' = renewed /\ renewed = 0 /\ kept' = kept
        /\ crossed' = crossed /\ loop' \in {"none", "parent"}
        /\ tasks' = tasks /\ signals' = signals
        /\ pool' \in [Engine -> {"none", "parent", "child"}]
    BY <1>1 DEF Fork, LifeInv
  <2> QED BY <2>1 DEF LifeInv, Stages, Treated
<1>2. CASE RenewPool
  BY <1>2, RenewPoolLives
<1>3. CASE ResetLoop
  BY <1>3 DEF ResetLoop, LifeInv, Stages, Treated, db
<1>4. CASE Restart
  BY <1>4 DEF Restart, LifeInv, Stages, Treated, db
<1>5. CASE Announce
  BY <1>5 DEF Announce, LifeInv, Stages, Treated, db
<1>6. CASE \E e \in Engine : RunTask(e)
  BY <1>6, RunTaskLives
<1>7. CASE ShutdownSignal
  BY <1>7 DEF ShutdownSignal, LifeInv, Stages, Treated, db
<1>8. CASE Exit
  BY <1>8 DEF Exit, LifeInv, Stages, Treated, db
<1>9. CASE UNCHANGED <<db, loop, life>>
  BY <1>9 DEF LifeInv, db, life
<1>10. [WorkerNext]_wvars => \/ Fork \/ RenewPool \/ ResetLoop \/ Restart \/ Announce
                              \/ (\E e \in Engine : RunTask(e))
                              \/ ShutdownSignal \/ Exit
                              \/ UNCHANGED <<db, loop, life>>
  BY DEF WorkerNext, MainProcess, wvars, ChildLogs, ChildListens
<1> QED BY <1>1, <1>2, <1>3, <1>4, <1>5, <1>6, <1>7, <1>8, <1>9, <1>10

LEMMA WorkerKeepsLifeInv == WorkerSpec => []LifeInv
BY LifeStarts, LifeStep, PTL DEF WorkerSpec

\* A child only speaks on connections and runs on a loop of its own, and
\* never closes one of its parent, but for engines whose dispose failed.
THEOREM ChildIsOnItsOwn == WorkerSpec => []ChildStandsAlone
<1>1. LifeInv => ChildStandsAlone
  BY DEF LifeInv, ChildStandsAlone, Treated
<1> QED BY <1>1, WorkerKeepsLifeInv, PTL

\* Type correctness of the worker and of both queues.
THEOREM WorkerIsTyped == WorkerSpec => []WorkerTypeOK
<1>1. QueueInv /\ ChildInv /\ LifeInv => WorkerTypeOK
  BY DEF QueueInv, ChildInv, ChildQueueInv, LifeInv, WorkerTypeOK
<1> QED BY <1>1, WorkerKeepsQueueInv, WorkerKeepsChildInv, WorkerKeepsLifeInv, PTL
=============================================================================
