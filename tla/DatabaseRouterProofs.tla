------------------------ MODULE DatabaseRouterProofs ------------------------
(***************************************************************************)
(* Theorems about DatabaseRouter, for any set of sessions, any number of   *)
(* replicas (none included) and any number of changes.                     *)
(***************************************************************************)
EXTENDS DatabaseRouter, FiniteSetTheorems, TLAPS

\* Replicas and snapshots are never ahead of what they are taken from.
Behind ==
  /\ \A i \in Server : applied[i] <= applied[Writer]
  /\ \A s \in Session, i \in Server : snap[s][i] # None => snap[s][i] <= applied[i]

\* A session reads where its pins say.
Pinned ==
  /\ \A s \in Session, i \in Readers : snap[s][i] # None => i = reader[s]
  /\ \A s \in Session : snap[s][Writer] # None /\ enabled /\ ~toWriter[s] => reader[s] = Writer
  /\ \A s \in Session, i \in Server : mode[s] = "closed" => snap[s][i] = None

\* Changes and reads for update stand under the lock of an open session that
\* may write.
Locked ==
  \A s \in Session :
    /\ pending[s] \/ base[s] # None => lock = s
    /\ lock = s => mode[s] \in {"routed", "writer"}
    /\ base[s] # None => base[s] = applied[Writer]

\* Why a read is no step back: the next one goes to the server of the last,
\* or to the primary.
Target(s) == IF enabled /\ ~toWriter[s] THEN reader[s] ELSE Writer

Forward ==
  \A s \in Session :
    /\ enabled /\ pending[s] => toWriter[s]
    /\ Target(s) = None => got[s] = 0
    /\ Target(s) # None => got[s] <= Seen(s, Target(s))

RouterInv == RouterTypeOK /\ Behind /\ Pinned /\ Locked

LEMMA ServerFacts == Writer \in Server /\ Readers \subseteq Server /\ None \notin Server
  BY RouterAssumption DEF Writer, Server, Readers

LEMMA RouterInitially == RouterInit => RouterInv /\ Forward
<1> SUFFICES ASSUME RouterInit PROVE RouterInv /\ Forward
  OBVIOUS
<1>1. RouterTypeOK
  BY RouterAssumption DEF RouterInit, RouterTypeOK, Modes, Version, Blank, Writer, Server
<1>2. Behind /\ Pinned
  <2>1. \A s \in Session, i \in Server : snap[s][i] = None
    BY DEF RouterInit, Blank
  <2>2. \A i \in Server : applied[i] = 0
    BY DEF RouterInit
  <2>3. Behind
    BY <2>1, <2>2, ServerFacts DEF Behind
  <2> QED BY <2>1, <2>3, ServerFacts DEF Pinned
<1>3. Locked
  BY RouterAssumption DEF RouterInit, Locked
<1>4. Forward
  BY RouterAssumption, ServerFacts DEF RouterInit, Forward, Target, Seen, Blank, Writer
<1> QED BY <1>1, <1>2, <1>3, <1>4 DEF RouterInv

LEMMA BindType ==
  ASSUME RouterTypeOK, NEW s \in Session, NEW i \in Server, BindRead(s, i)
  PROVE  /\ reader' \in [Session -> Server \cup {None}]
         /\ cursor' \in Server
         /\ toWriter' = toWriter
<1>1. cursor \in Server /\ reader \in [Session -> Server \cup {None}]
  BY DEF RouterTypeOK
<1>2. Advanced(s) \in Server
  BY <1>1, RouterAssumption DEF Advanced, Server, Writer
<1> QED BY <1>1, <1>2 DEF BindRead, info

\* The end of a transaction keeps everything but the transaction of s.
LEMMA EndStep ==
  ASSUME RouterTypeOK, NEW s \in Session, EndTransaction(s)
  PROVE  /\ snap' \in [Session -> [Server -> Version \cup {None}]]
         /\ lock' \in Session \cup {None}
         /\ pending' \in [Session -> BOOLEAN]
         /\ base' \in [Session -> Version \cup {None}]
         /\ \A q \in Session \ {s} : snap'[q] = snap[q] /\ pending'[q] = pending[q] /\ base'[q] = base[q]
         /\ \A i \in Server : snap'[s][i] = None
         /\ ~pending'[s] /\ base'[s] = None /\ lock' # s
         /\ \A q \in Session \ {s} : lock' = q <=> lock = q
<1>1. Blank \in [Server -> Version \cup {None}]
  BY DEF Blank
<1>2. snap' \in [Session -> [Server -> Version \cup {None}]] /\ snap'[s] = Blank
  BY <1>1 DEF EndTransaction, RouterTypeOK
<1>3. \A i \in Server : snap'[s][i] = None
  BY <1>2 DEF Blank
<1> QED BY <1>2, <1>3, RouterAssumption DEF EndTransaction, RouterTypeOK

LEMMA TypeStep == RouterTypeOK /\ [RouterNext]_vars => RouterTypeOK'
<1> SUFFICES ASSUME RouterTypeOK, [RouterNext]_vars PROVE RouterTypeOK'
  OBVIOUS
<1> USE ServerFacts
<1>0. 0 \in Version
  BY RouterAssumption DEF Version
<1>1. ASSUME NEW s \in Session, NEW m \in Modes \ {"closed"}, Open(s, m) PROVE RouterTypeOK'
  BY <1>0, <1>1 DEF Open, RouterTypeOK, transaction
<1>2. ASSUME NEW s \in Session, using_writer(s) PROVE RouterTypeOK'
  BY <1>2 DEF using_writer, RouterTypeOK, transaction
<1>3. ASSUME NEW s \in Session, NEW i \in Server, Select(s, i) PROVE RouterTypeOK'
  <2>1. Seen(s, i) \in Version
    BY DEF Seen, RouterTypeOK
  <2>2. snap' \in [Session -> [Server -> Version \cup {None}]] /\ got' \in [Session -> Version]
    BY <1>3, <2>1 DEF Select, RouterTypeOK
  <2> QED BY <1>3, <2>2, BindType DEF Select, RouterTypeOK
<1>4. ASSUME NEW s \in Session, NEW i \in Server, RetryOnPrimary(s, i) PROVE RouterTypeOK'
  <2>1. Advanced(s) \in Server
    BY RouterAssumption DEF Advanced, Server, Writer, RouterTypeOK
  <2>2. applied[Writer] \in Version
    BY DEF RouterTypeOK
  <2>3. [Blank EXCEPT ![Writer] = applied[Writer]] \in [Server -> Version \cup {None}]
    BY <2>2 DEF Blank
  <2> QED BY <1>4, <2>1, <2>2, <2>3 DEF RetryOnPrimary, RouterTypeOK
<1>5. ASSUME NEW s \in Session, SelectForUpdate(s) PROVE RouterTypeOK'
  BY <1>5 DEF SelectForUpdate, BindWrite, RouterTypeOK
<1>6. ASSUME NEW s \in Session, Write(s) PROVE RouterTypeOK'
  BY <1>6 DEF Write, BindWrite, RouterTypeOK
<1>7. ASSUME NEW s \in Session, Commit(s) PROVE RouterTypeOK'
  <2>1. pending[s] => applied[Writer] + 1 \in Version
    BY <1>7, RouterAssumption DEF Commit, RouterTypeOK, Version
  <2>2. applied' \in [Server -> Version] /\ got' \in [Session -> Version]
    BY <1>7, <2>1 DEF Commit, RouterTypeOK
  <2> QED BY <1>7, <2>2, EndStep DEF Commit, RouterTypeOK, info
<1>8. ASSUME NEW s \in Session, Rollback(s) PROVE RouterTypeOK'
  BY <1>8, EndStep DEF Rollback, RouterTypeOK, info
<1>9. ASSUME NEW s \in Session, Close(s) PROVE RouterTypeOK'
  BY <1>9, EndStep DEF Close, RouterTypeOK, info, Modes
<1>10. ASSUME NEW i \in Readers, Replicate(i) PROVE RouterTypeOK'
  <2>1. applied[i] + 1 \in Version
    BY <1>10, RouterAssumption DEF Replicate, RouterTypeOK, Version
  <2> QED BY <1>10, <2>1 DEF Replicate, RouterTypeOK, info, transaction
<1>11. CASE UNCHANGED vars
  BY <1>11 DEF vars, info, transaction, RouterTypeOK
<1> QED BY <1>1, <1>2, <1>3, <1>4, <1>5, <1>6, <1>7, <1>8, <1>9, <1>10, <1>11 DEF RouterNext

\* Every step keeps the pins, the lock discipline and the order of versions.
LEMMA RouterStep == RouterInv /\ [RouterNext]_vars => RouterInv'
<1> SUFFICES ASSUME RouterInv, [RouterNext]_vars PROVE RouterInv'
  OBVIOUS
<1> USE ServerFacts, RouterAssumption
<1>0. /\ RouterTypeOK /\ Behind /\ Pinned /\ Locked /\ RouterTypeOK'
      /\ \A i \in Server : applied[i] \in Nat
      /\ \A s \in Session, i \in Server : snap[s][i] \in Nat \cup {None}
  BY TypeStep DEF RouterInv, RouterTypeOK, Version
<1>1. ASSUME NEW s \in Session, NEW m \in Modes \ {"closed"}, Open(s, m) PROVE RouterInv'
  <2>1. Behind'
    BY <1>0, <1>1 DEF Open, Behind, transaction
  <2>2. Pinned'
    BY <1>0, <1>1 DEF Open, Pinned, transaction, RouterTypeOK
  <2>3. Locked'
    BY <1>0, <1>1 DEF Open, Locked, transaction, RouterTypeOK
  <2> QED BY <1>0, <2>1, <2>2, <2>3 DEF RouterInv
<1>2. ASSUME NEW s \in Session, using_writer(s) PROVE RouterInv'
  <2>1. Behind' /\ Locked'
    BY <1>0, <1>2 DEF using_writer, Behind, Locked, transaction
  <2>2. Pinned'
    BY <1>0, <1>2 DEF using_writer, Pinned, transaction, RouterTypeOK
  <2> QED BY <1>0, <2>1, <2>2 DEF RouterInv
<1>3. ASSUME NEW s \in Session, NEW i \in Server, Select(s, i) PROVE RouterInv'
  <2>1. /\ \A q \in Session, j \in Server : q # s \/ j # i => snap'[q][j] = snap[q][j]
        /\ snap'[s][i] = Seen(s, i) /\ Seen(s, i) <= applied[i]
    BY <1>0, <1>3 DEF Select, Seen, Behind, RouterTypeOK
  <2>2. Behind'
    BY <1>0, <1>3, <2>1 DEF Select, Behind
  <2>3. Locked'
    BY <1>0, <1>3 DEF Select, Locked
  <2>4. Pinned'
    <3>1. CASE ~enabled \/ toWriter[s]
      <4>1. i = Writer /\ UNCHANGED <<info, enabled, mode>>
        BY <1>3, <3>1 DEF Select, BindRead
      <4> QED BY <1>0, <1>3, <2>1, <3>1, <4>1 DEF Select, Pinned, info, Readers, Writer
    <3>2. CASE enabled /\ ~toWriter[s]
      <4>1. /\ i = next_reader(s) /\ reader' = [reader EXCEPT ![s] = i]
            /\ UNCHANGED <<toWriter, enabled, mode>> /\ mode[s] # "closed"
        BY <1>3, <3>2 DEF Select, BindRead
      <4>2. reader'[s] = i /\ (reader[s] = None \/ reader[s] = i)
        BY <1>0, <4>1 DEF next_reader, RouterTypeOK
      <4>3. \A q \in Session \ {s} : reader'[q] = reader[q]
        BY <1>0, <4>1 DEF RouterTypeOK
      <4> QED BY <1>0, <2>1, <4>1, <4>2, <4>3 DEF Pinned
    <3> QED BY <3>1, <3>2
  <2> QED BY <1>0, <2>2, <2>3, <2>4 DEF RouterInv
<1>4. ASSUME NEW s \in Session, NEW i \in Server, RetryOnPrimary(s, i) PROVE RouterInv'
  <2>1. /\ \A q \in Session \ {s}, j \in Server : snap'[q][j] = snap[q][j]
        /\ \A j \in Server \ {Writer} : snap'[s][j] = None
        /\ snap'[s][Writer] = applied[Writer]
    BY <1>0, <1>4 DEF RetryOnPrimary, Blank, RouterTypeOK
  <2>2. Behind'
    BY <1>0, <1>4, <2>1 DEF RetryOnPrimary, Behind
  <2>3. Locked'
    BY <1>0, <1>4 DEF RetryOnPrimary, Locked
  <2>4. /\ \A q \in Session \ {s} : reader'[q] = reader[q] /\ toWriter'[q] = toWriter[q]
        /\ toWriter'[s]
    BY <1>0, <1>4 DEF RetryOnPrimary, RouterTypeOK
  <2>5. Pinned'
    BY <1>0, <1>4, <2>1, <2>4 DEF RetryOnPrimary, Pinned, Readers, Writer
  <2> QED BY <1>0, <2>2, <2>3, <2>5 DEF RouterInv
<1>5. ASSUME NEW s \in Session, SelectForUpdate(s) \/ Write(s) PROVE RouterInv'
  <2>1. /\ UNCHANGED <<enabled, mode, applied, snap, reader>>
        /\ \A q \in Session : toWriter[q] => toWriter'[q]
    BY <1>0, <1>5 DEF SelectForUpdate, Write, BindWrite, RouterTypeOK
  <2>2. Behind'
    BY <1>0, <2>1 DEF Behind
  <2>3. Pinned'
    BY <1>0, <2>1 DEF Pinned
  <2>4. mode[s] \in {"routed", "writer"}
    BY <1>0, <1>5 DEF SelectForUpdate, Write, RouterTypeOK, Modes
  <2>5. Locked'
    BY <1>0, <1>5, <2>4 DEF SelectForUpdate, Write, Locked, RouterTypeOK
  <2> QED BY <1>0, <2>2, <2>3, <2>5 DEF RouterInv
<1>6. ASSUME NEW s \in Session, EndTransaction(s),
             UNCHANGED info, enabled' = enabled,
             \A q \in Session \ {s} : mode'[q] = mode[q],
             applied' = applied
                \/ (lock = s /\ applied' = [applied EXCEPT ![Writer] = @ + 1])
      PROVE  RouterInv'
  <2>1. /\ \A q \in Session \ {s} : /\ pending'[q] = pending[q] /\ base'[q] = base[q]
                                    /\ \A i \in Server : snap'[q][i] = snap[q][i]
                                    /\ lock' = q <=> lock = q
        /\ \A i \in Server : snap'[s][i] = None
        /\ ~pending'[s] /\ base'[s] = None /\ lock' # s
    BY <1>0, <1>6, EndStep
  <2>2. \A i \in Server : applied[i] <= applied'[i] /\ (i # Writer => applied'[i] = applied[i])
    BY <1>0, <1>6 DEF RouterTypeOK
  <2>3. Behind'
    <3>1. \A i \in Server : applied'[i] \in Nat
      BY <1>0 DEF RouterTypeOK, Version
    <3>2. \A i \in Server : applied'[i] <= applied'[Writer]
      BY <1>0, <2>2, <3>1 DEF Behind
    <3>3. \A q \in Session, i \in Server : snap'[q][i] # None => snap'[q][i] <= applied'[i]
      BY <1>0, <2>1, <2>2, <3>1 DEF Behind
    <3> QED BY <3>2, <3>3 DEF Behind
  <2>4. Pinned'
    BY <1>0, <1>6, <2>1 DEF Pinned, info
  <2>5. Locked'
    BY <1>0, <1>6, <2>1 DEF Locked
  <2> QED BY <1>0, <2>3, <2>4, <2>5 DEF RouterInv
<1>7. ASSUME NEW s \in Session, Commit(s) PROVE RouterInv'
  <2>1. pending[s] => lock = s
    BY <1>0 DEF Locked
  <2>2. /\ EndTransaction(s) /\ UNCHANGED info /\ enabled' = enabled /\ mode' = mode
        /\ applied' = applied \/ (lock = s /\ applied' = [applied EXCEPT ![Writer] = @ + 1])
    BY <1>7, <2>1 DEF Commit
  <2> QED BY <1>6, <2>2
<1>8. ASSUME NEW s \in Session, Rollback(s) PROVE RouterInv'
  <2>1. EndTransaction(s) /\ UNCHANGED <<info, enabled, mode, applied>>
    BY <1>8 DEF Rollback
  <2> QED BY <1>6, <2>1
<1>9. ASSUME NEW s \in Session, Close(s) PROVE RouterInv'
  <2>1. \A q \in Session \ {s} : mode'[q] = mode[q]
    BY <1>0, <1>9 DEF Close, RouterTypeOK
  <2>2. EndTransaction(s) /\ UNCHANGED <<info, enabled, applied>>
    BY <1>9 DEF Close
  <2> QED BY <1>6, <2>1, <2>2
<1>10. ASSUME NEW i \in Readers, Replicate(i) PROVE RouterInv'
  <2>1. i \in Server /\ i # Writer
    BY DEF Readers, Writer, Server
  <2>2. \A j \in Server : applied'[j] = IF j = i THEN applied[i] + 1 ELSE applied[j]
    BY <1>0, <1>10, <2>1 DEF Replicate, RouterTypeOK
  <2>3. Behind'
    BY <1>0, <1>10, <2>1, <2>2 DEF Replicate, Behind, transaction
  <2>4. Pinned' /\ Locked'
    BY <1>0, <1>10, <2>1, <2>2 DEF Replicate, Pinned, Locked, transaction, info
  <2> QED BY <1>0, <2>3, <2>4 DEF RouterInv
<1>11. CASE UNCHANGED vars
  BY <1>0, <1>11 DEF vars, info, transaction, RouterInv, Behind, Pinned, Locked
<1> QED BY <1>1, <1>2, <1>3, <1>4, <1>5, <1>7, <1>8, <1>9, <1>10, <1>11 DEF RouterNext

\* Whatever a session has read, the primary shows it nothing older.
LEMMA ToPrimary ==
  ASSUME RouterInv, Forward, NEW s \in Session
  PROVE  got[s] <= Seen(s, Writer) /\ Seen(s, Writer) <= applied[Writer]
<1> USE ServerFacts, RouterAssumption
<1>0. /\ got[s] \in Nat
      /\ \A i \in Server : applied[i] \in Nat /\ snap[s][i] \in Nat \cup {None}
      /\ reader[s] \in Server \cup {None}
  BY DEF RouterInv, RouterTypeOK, Version
<1>1. \A i \in Server : Seen(s, i) \in Nat /\ Seen(s, i) <= applied[i] /\ applied[i] <= applied[Writer]
  BY <1>0 DEF RouterInv, Behind, Seen
<1>2. CASE Target(s) = Writer
  BY <1>1, <1>2 DEF Forward
<1>3. CASE Target(s) = None
  BY <1>0, <1>1, <1>3 DEF Forward
<1>4. CASE Target(s) \notin {Writer, None}
  <2>1. enabled /\ ~toWriter[s] /\ Target(s) = reader[s] /\ reader[s] \in Server
    BY <1>0, <1>4 DEF Target
  <2>2. snap[s][Writer] = None
    BY <1>4, <2>1 DEF RouterInv, Pinned
  <2>3. got[s] <= Seen(s, reader[s])
    BY <1>4, <2>1 DEF Forward
  <2> QED BY <1>0, <1>1, <2>1, <2>2, <2>3 DEF Seen
<1> QED BY <1>2, <1>3, <1>4

\* What Forward says of one session, and when a step that does not touch it
\* keeps that: servers only advance.
Ahead(s) ==
  /\ enabled /\ pending[s] => toWriter[s]
  /\ Target(s) = None => got[s] = 0
  /\ Target(s) # None => got[s] <= Seen(s, Target(s))

LEMMA OthersAhead ==
  ASSUME RouterInv, Forward, NEW q \in Session, RouterTypeOK',
         enabled' = enabled, pending'[q] = pending[q], toWriter'[q] = toWriter[q],
         reader'[q] = reader[q], got'[q] = got[q],
         \A i \in Server : applied[i] <= applied'[i],
         \A i \in Server : snap'[q][i] \in {snap[q][i], None}
  PROVE  Ahead(q)'
<1> USE ServerFacts, RouterAssumption
<1>0. /\ got[q] \in Nat /\ reader[q] \in Server \cup {None}
      /\ \A i \in Server : applied[i] \in Nat /\ applied'[i] \in Nat /\ snap[q][i] \in Nat \cup {None}
  BY DEF RouterInv, RouterTypeOK, Version
<1>1. Target(q)' = Target(q)
  BY DEF Target
<1>2. \A i \in Server : Seen(q, i) \in Nat /\ Seen(q, i)' \in Nat /\ Seen(q, i) <= Seen(q, i)'
  BY <1>0 DEF Seen, RouterInv, Behind
<1>3. Target(q) \in Server \cup {None}
  BY <1>0 DEF Target
<1>4. Ahead(q)
  BY DEF Forward, Ahead
<1> QED BY <1>0, <1>1, <1>2, <1>3, <1>4 DEF Ahead

LEMMA ForwardStep ==
  ASSUME Sticky = TRUE, RouterInv, Forward, [RouterNext]_vars
  PROVE  /\ Forward'
         /\ \A s \in Session : mode[s] # "closed" /\ mode'[s] = mode[s] => got[s] <= got'[s]
<1> USE ServerFacts, RouterAssumption
<1>0. /\ RouterTypeOK /\ RouterInv' /\ RouterTypeOK'
      /\ \A i \in Server : applied[i] \in Nat
      /\ \A s \in Session : got[s] \in Nat /\ reader[s] \in Server \cup {None}
      /\ \A s \in Session, i \in Server : snap[s][i] \in Nat \cup {None}
  BY RouterStep, TypeStep DEF RouterInv, RouterTypeOK, Version
<1>1. ASSUME NEW s \in Session, Ahead(s)',
             mode[s] # "closed" /\ mode'[s] = mode[s] => got[s] <= got'[s],
             enabled' = enabled,
             \A q \in Session \ {s} :
               /\ pending'[q] = pending[q] /\ toWriter'[q] = toWriter[q]
               /\ reader'[q] = reader[q] /\ got'[q] = got[q]
               /\ \A i \in Server : snap'[q][i] = snap[q][i],
             \A i \in Server : applied[i] <= applied'[i]
      PROVE  /\ Forward'
             /\ \A q \in Session : mode[q] # "closed" /\ mode'[q] = mode[q] => got[q] <= got'[q]
  <2>1. \A q \in Session \ {s} : Ahead(q)'
    BY <1>0, <1>1, OthersAhead
  <2>2. \A q \in Session : Ahead(q)'
    BY <1>1, <2>1
  <2> QED BY <1>0, <1>1, <2>2 DEF Forward, Ahead
<1>2. ASSUME NEW s \in Session, NEW m \in Modes \ {"closed"}, Open(s, m)
      PROVE  Forward' /\ \A q \in Session : mode[q] # "closed" /\ mode'[q] = mode[q] => got[q] <= got'[q]
  <2>1. /\ got'[s] = 0 /\ ~pending'[s] /\ enabled' = enabled /\ applied' = applied /\ snap' = snap
        /\ mode[s] = "closed" /\ pending' = pending
    BY <1>0, <1>2 DEF Open, transaction, RouterTypeOK, RouterInv, Locked
  <2>2. \A q \in Session \ {s} : toWriter'[q] = toWriter[q] /\ reader'[q] = reader[q] /\ got'[q] = got[q]
    BY <1>0, <1>2 DEF Open, RouterTypeOK
  <2>3. Target(s)' \in Server \cup {None}
    BY <1>0 DEF Target, RouterTypeOK
  <2>4. Ahead(s)'
    BY <1>0, <2>1, <2>3 DEF Ahead, Seen
  <2> QED BY <1>0, <1>1, <2>1, <2>2, <2>4
<1>3. ASSUME NEW s \in Session, using_writer(s) \/ SelectForUpdate(s) \/ Write(s)
      PROVE  Forward' /\ \A q \in Session : mode[q] # "closed" /\ mode'[q] = mode[q] => got[q] <= got'[q]
  <2>1. /\ UNCHANGED <<enabled, mode, reader, applied, snap, got>>
        /\ enabled => toWriter'[s]
        /\ \A q \in Session \ {s} : toWriter'[q] = toWriter[q] /\ pending'[q] = pending[q]
    BY <1>0, <1>3 DEF using_writer, SelectForUpdate, Write, BindWrite, transaction, RouterTypeOK
  <2>2. Target(s)' = Writer
    BY <2>1 DEF Target
  <2>3. got[s] <= Seen(s, Writer)
    BY ToPrimary
  <2>4. Ahead(s)'
    BY <2>1, <2>2, <2>3 DEF Ahead, Seen
  <2> QED BY <1>0, <1>1, <2>1, <2>4
<1>4. ASSUME NEW s \in Session, NEW i \in Server, Select(s, i)
      PROVE  Forward' /\ \A q \in Session : mode[q] # "closed" /\ mode'[q] = mode[q] => got[q] <= got'[q]
  <2>1. /\ UNCHANGED <<enabled, mode, applied, pending, toWriter>>
        /\ \A q \in Session \ {s} : reader'[q] = reader[q] /\ got'[q] = got[q] /\ snap'[q] = snap[q]
        /\ snap'[s][i] = Seen(s, i)
        /\ got'[s] = IF i = Writer /\ pending[s] THEN got[s] ELSE Seen(s, i)
    BY <1>0, <1>4 DEF Select, BindRead, info, RouterTypeOK
  <2>2. Seen(s, i) \in Nat /\ Seen(s, i)' = Seen(s, i)
    BY <1>0, <2>1 DEF Seen
  <2>3. Target(s)' = i /\ (Target(s) = i \/ Target(s) = None)
    BY <1>0, <1>4 DEF Select, BindRead, next_reader, info, Target, RouterTypeOK
  <2>4. got[s] <= Seen(s, i)
    BY <1>0, <2>2, <2>3 DEF Forward
  <2>5. got'[s] \in Nat /\ got[s] <= got'[s] /\ got'[s] <= Seen(s, i)
    BY <1>0, <2>1, <2>2, <2>4
  <2>6. Ahead(s)'
    BY <1>0, <2>1, <2>2, <2>3, <2>5 DEF Ahead, Forward
  <2> QED BY <1>0, <1>1, <2>1, <2>5, <2>6
<1>5. ASSUME NEW s \in Session, NEW i \in Server, RetryOnPrimary(s, i)
      PROVE  Forward' /\ \A q \in Session : mode[q] # "closed" /\ mode'[q] = mode[q] => got[q] <= got'[q]
  <2>1. /\ UNCHANGED <<enabled, mode, applied, pending>> /\ toWriter'[s]
        /\ \A q \in Session \ {s} : /\ reader'[q] = reader[q] /\ got'[q] = got[q]
                                    /\ snap'[q] = snap[q] /\ toWriter'[q] = toWriter[q]
        /\ snap'[s][Writer] = applied[Writer] /\ got'[s] = applied[Writer]
    BY <1>0, <1>5 DEF RetryOnPrimary, RouterTypeOK
  <2>2. Target(s)' = Writer /\ Seen(s, Writer)' = applied[Writer]
    BY <1>0, <2>1 DEF Target, Seen
  <2>3. got[s] <= applied[Writer]
    <3>1. Seen(s, Writer) \in Nat
      BY <1>0 DEF Seen
    <3> QED BY <1>0, <3>1, ToPrimary
  <2>4. Ahead(s)'
    BY <1>0, <2>1, <2>2 DEF Ahead
  <2> QED BY <1>0, <1>1, <2>1, <2>3, <2>4
<1>6. ASSUME NEW s \in Session, EndTransaction(s), UNCHANGED <<info, enabled>>,
             \/ applied' = applied /\ got' = got
             \/ /\ pending[s]
                /\ applied' = [applied EXCEPT ![Writer] = @ + 1]
                /\ got' = [got EXCEPT ![s] = applied[Writer] + 1]
      PROVE  Forward' /\ \A q \in Session : mode[q] # "closed" /\ mode'[q] = mode[q] => got[q] <= got'[q]
  <2>1. /\ \A q \in Session \ {s} : snap'[q] = snap[q] /\ pending'[q] = pending[q]
        /\ \A j \in Server : snap'[s][j] = None
        /\ ~pending'[s]
    BY <1>0, <1>6, EndStep
  <2>2. UNCHANGED <<toWriter, reader, enabled>>
    BY <1>6 DEF info
  <2>3. \A j \in Server : applied[j] <= applied'[j]
    BY <1>0, <1>6 DEF RouterTypeOK
  <2>4. \A j \in Server : Seen(s, j) \in Nat /\ Seen(s, j) <= applied[j] /\ Seen(s, j)' = applied'[j]
    BY <1>0, <2>1 DEF Seen, RouterInv, Behind
  <2>5. Target(s)' = Target(s) /\ Target(s) \in Server \cup {None}
    BY <1>0, <2>2 DEF Target
  <2>6. CASE applied' = applied /\ got' = got
    <3>1. Ahead(s)'
      BY <1>0, <2>1, <2>4, <2>5, <2>6 DEF Ahead, Forward
    <3> QED BY <1>0, <1>1, <2>1, <2>2, <2>3, <2>6, <3>1
  <2>7. CASE /\ pending[s]
             /\ applied' = [applied EXCEPT ![Writer] = @ + 1]
             /\ got' = [got EXCEPT ![s] = applied[Writer] + 1]
    <3>1. Target(s) = Writer
      BY <2>7 DEF Forward, Target
    <3>2. got'[s] = applied[Writer] + 1 /\ applied'[Writer] = applied[Writer] + 1
      BY <1>0, <2>7 DEF RouterTypeOK
    <3>3. \A q \in Session \ {s} : got'[q] = got[q]
      BY <1>0, <2>7 DEF RouterTypeOK
    <3>4. got[s] <= got'[s]
      BY <1>0, <2>4, <3>2, ToPrimary
    <3>5. Ahead(s)'
      BY <1>0, <2>1, <2>4, <2>5, <3>1, <3>2 DEF Ahead
    <3> QED BY <1>0, <1>1, <2>1, <2>2, <2>3, <3>3, <3>4, <3>5
  <2> QED BY <1>6, <2>6, <2>7
<1>7. ASSUME NEW s \in Session, Commit(s) \/ Rollback(s) \/ Close(s)
      PROVE  Forward' /\ \A q \in Session : mode[q] # "closed" /\ mode'[q] = mode[q] => got[q] <= got'[q]
  <2>1. /\ EndTransaction(s) /\ UNCHANGED <<info, enabled>>
        /\ \/ applied' = applied /\ got' = got
           \/ /\ pending[s]
              /\ applied' = [applied EXCEPT ![Writer] = @ + 1]
              /\ got' = [got EXCEPT ![s] = applied[Writer] + 1]
    BY <1>7 DEF Commit, Rollback, Close
  <2> QED BY <1>6, <2>1
<1>8. ASSUME UNCHANGED <<enabled, mode, info, transaction, got>>,
             \A i \in Server : applied[i] <= applied'[i]
      PROVE  Forward' /\ \A q \in Session : mode[q] # "closed" /\ mode'[q] = mode[q] => got[q] <= got'[q]
  <2>1. \A q \in Session : Ahead(q)'
    BY <1>0, <1>8, OthersAhead DEF info, transaction
  <2> QED BY <1>0, <1>8, <2>1 DEF Forward, Ahead
<1>9. ASSUME NEW i \in Readers, Replicate(i)
      PROVE  Forward' /\ \A q \in Session : mode[q] # "closed" /\ mode'[q] = mode[q] => got[q] <= got'[q]
  <2>1. \A j \in Server : applied[j] <= applied'[j]
    BY <1>0, <1>9 DEF Replicate, RouterTypeOK
  <2> QED BY <1>8, <1>9, <2>1 DEF Replicate
<1>10. CASE UNCHANGED vars
  BY <1>0, <1>8, <1>10 DEF vars
<1> QED BY <1>2, <1>3, <1>4, <1>5, <1>7, <1>9, <1>10 DEF RouterNext

-----------------------------------------------------------------------------
LEMMA RouterInvariant == RouterSpec => []RouterInv
<1>1. RouterInit => RouterInv
  BY RouterInitially
<1> QED BY <1>1, RouterStep, PTL DEF RouterSpec

\* Every pin, snapshot and version of the router keeps its type.
THEOREM RouterTypeCorrect == RouterSpec => []RouterTypeOK
<1>1. RouterInv => RouterTypeOK
  BY DEF RouterInv
<1> QED BY <1>1, RouterInvariant, PTL

\* The pin of the first read holds until the transaction ends: no transaction
\* has read from two replicas.
THEOREM OneReplicaOnly == RouterSpec => []OneReplica
<1>1. RouterInv => OneReplica
  <2> SUFFICES ASSUME RouterInv, NEW s \in Session
               PROVE  Cardinality({i \in Readers : snap[s][i] # None}) <= 1
    BY DEF OneReplica
  <2> DEFINE Read == {i \in Readers : snap[s][i] # None}
  <2>1. Read \subseteq {reader[s]}
    BY DEF RouterInv, Pinned
  <2>2. IsFiniteSet({reader[s]}) /\ Cardinality({reader[s]}) = 1
    BY FS_Singleton
  <2>3. Cardinality(Read) <= Cardinality({reader[s]})
    BY <2>1, <2>2, FS_Subset
  <2> QED BY <2>2, <2>3
<1> QED BY <1>1, RouterInvariant, PTL

\* A locking SELECT goes to the primary, so what it has read is current as
\* long as its transaction is open.
THEOREM LockedReadsAreCurrent == RouterSpec => []NoLostUpdate
<1>1. RouterInv => NoLostUpdate
  BY DEF RouterInv, Locked, NoLostUpdate
<1> QED BY <1>1, RouterInvariant, PTL

\* The events of Session keep a read-only session from locks and changes, with
\* and without the router.
THEOREM ReadOnlyIsReadOnly == RouterSpec => []ReadOnlyLeavesNoTrace
<1>1. RouterInv => ReadOnlyLeavesNoTrace
  BY RouterAssumption DEF RouterInv, Locked, ReadOnlyLeavesNoTrace
<1> QED BY <1>1, RouterInvariant, PTL

\* With sticky routing (the default) a session never reads back in time,
\* across its own commits, its pins and a failover.
THEOREM StickySessionsAreMonotonic == Sticky = TRUE /\ RouterSpec => SessionMonotonic
<1> SUFFICES ASSUME Sticky = TRUE PROVE RouterSpec => SessionMonotonic
  OBVIOUS
<1>1. RouterInit => RouterInv /\ Forward
  BY RouterInitially
<1>2. RouterInv /\ Forward /\ [RouterNext]_vars => RouterInv' /\ Forward'
  BY RouterStep, ForwardStep
<1>3. RouterInv /\ Forward /\ [RouterNext]_vars
        => [\A s \in Session : mode[s] # "closed" /\ mode'[s] = mode[s] => got[s] <= got'[s]]_vars
  BY ForwardStep
<1> QED BY <1>1, <1>2, <1>3, PTL DEF RouterSpec, SessionMonotonic
=============================================================================
