----------------------- MODULE ResourceManagerProofs -----------------------
(***************************************************************************)
(* Theorems about ResourceManager, for any number of resources and any     *)
(* budgets, deadline and reserve, and about the shutdown of the four       *)
(* resources of the application, which implements it, for any number of    *)
(* tasks and engines.                                                      *)
(***************************************************************************)
EXTENDS Shutdown, TLAPS

\* The time close may have used up when n cleanups have run past the deadline.
Overtime(n) == Deadline + n * (Reserve + MaxBlock)

\* What close relies on: it cleans up the resource `left`, what is held was
\* registered, what it has passed was tried, and it is on time.
Order ==
  /\ starting # 0 => phase = "startup"
  /\ left <= list
  /\ at # 0 => at = left /\ phase = "closing"
  /\ phase = "closed" => left = 0
  /\ phase \in {"startup", "serving"} => now = 0 /\ left = 0
  /\ held \subseteq 1..list
  /\ phase \in {"closing", "closed"} =>
       \A i \in held : i <= left \/ outcome[i] \in {"failed", "timeout"}

Punctual ==
  /\ now <= Overtime(list - left) \/ at # 0
  /\ at # 0 => now <= due /\ due <= Overtime(list - left + 1)

ManagerInv == ManagerTypeOK /\ Order /\ Punctual

LEMMA OvertimeStep ==
  ASSUME NEW n \in Nat
  PROVE  /\ Overtime(n) \in Nat
         /\ Overtime(n + 1) = Overtime(n) + Reserve + MaxBlock
         /\ Deadline <= Overtime(n)
<1> USE ManagerAssumption
<1>1. (n + 1) * (Reserve + MaxBlock) = n * (Reserve + MaxBlock) + Reserve + MaxBlock
  OBVIOUS
<1>2. n * (Reserve + MaxBlock) \in Nat
  OBVIOUS
<1> QED BY <1>1, <1>2 DEF Overtime

LEMMA AllottedBound ==
  ASSUME NEW i \in Resources, now \in Nat
  PROVE  /\ Allotted(i) \in Nat
         /\ \/ now + Allotted(i) <= Deadline
            \/ Allotted(i) <= Reserve + MaxBlock
  BY ManagerAssumption DEF Allotted, Lesser

LEMMA ManagerStart == ManagerInit => ManagerInv
<1> SUFFICES ASSUME ManagerInit PROVE ManagerInv
  OBVIOUS
<1> USE ManagerAssumption
<1>1. ManagerTypeOK
  BY DEF ManagerInit, ManagerTypeOK, Outcomes
<1>2. Order
  BY DEF ManagerInit, Order
<1>3. Punctual
  BY OvertimeStep DEF ManagerInit, Punctual
<1> QED BY <1>1, <1>2, <1>3 DEF ManagerInv

LEMMA EndCleanupStep ==
  ASSUME ManagerInv, NEW how \in Outcomes \ {"none"}, EndCleanup(how)
  PROVE  ManagerInv'
<1> USE ManagerAssumption
<1>1. at = left /\ at \in Resources /\ left' = left - 1 /\ phase = "closing"
  BY DEF EndCleanup, ManagerInv, ManagerTypeOK, Order, Resources
<1>2. ManagerTypeOK'
  BY <1>1 DEF EndCleanup, ManagerInv, ManagerTypeOK
<1>3. Order'
  <2>1. \A i \in held' : i <= left' \/ outcome'[i] \in {"failed", "timeout"}
    <3> SUFFICES ASSUME NEW i \in held' PROVE i <= left' \/ outcome'[i] \in {"failed", "timeout"}
      OBVIOUS
    <3>1. i \in held /\ i \in Resources
      BY DEF EndCleanup, ManagerInv, ManagerTypeOK
    <3>2. CASE i = at
      <4>1. how \in {"failed", "timeout"}
        BY <3>2 DEF EndCleanup, Outcomes
      <4> QED BY <3>1, <3>2, <4>1 DEF EndCleanup, ManagerInv, ManagerTypeOK
    <3>3. CASE i # at
      <4>1. outcome'[i] = outcome[i]
        BY <3>1, <3>3 DEF EndCleanup, ManagerInv, ManagerTypeOK
      <4>2. i <= left \/ outcome[i] \in {"failed", "timeout"}
        BY <1>1, <3>1 DEF ManagerInv, Order
      <4> QED BY <1>1, <3>1, <3>3, <4>1, <4>2 DEF ManagerInv, ManagerTypeOK, Resources
    <3> QED BY <3>2, <3>3
  <2> QED BY <1>1, <2>1 DEF EndCleanup, ManagerInv, ManagerTypeOK, Order
<1>4. Punctual'
  <2>1. now <= Overtime(list - left + 1)
    <3>1. now <= due /\ due <= Overtime(list - left + 1)
      BY <1>1 DEF ManagerInv, Punctual, Resources
    <3>2. list - left + 1 \in Nat /\ now \in Nat /\ due \in Nat
      BY DEF ManagerInv, ManagerTypeOK, Order
    <3>3. Overtime(list - left + 1) \in Nat
      BY <3>2, OvertimeStep
    <3> QED BY <3>1, <3>2, <3>3
  <2>2. list' - left' = list - left + 1 /\ at' = 0 /\ now' = now
    BY <1>1 DEF EndCleanup, ManagerInv, ManagerTypeOK
  <2> QED BY <2>1, <2>2 DEF Punctual, Overtime
<1> QED BY <1>2, <1>3, <1>4 DEF ManagerInv

LEMMA ManagerStep == ManagerInv /\ [ManagerNext]_manager => ManagerInv'
<1> SUFFICES ASSUME ManagerInv, [ManagerNext]_manager PROVE ManagerInv'
  OBVIOUS
<1> USE ManagerAssumption
<1>0. ManagerTypeOK /\ Order /\ Punctual /\ list - left \in Nat
  BY DEF ManagerInv, ManagerTypeOK, Order
<1>1. CASE Register
  <2>1. left = 0 /\ at = 0 /\ now = 0
    BY <1>0, <1>1 DEF Register, Order
  <2>2. ManagerTypeOK' /\ Order'
    BY <1>0, <1>1 DEF Register, ManagerTypeOK, Order, Resources
  <2>3. Punctual'
    BY <1>0, <1>1, <2>1, <2>2, OvertimeStep DEF Register, Punctual, ManagerTypeOK
  <2> QED BY <2>2, <2>3 DEF ManagerInv
<1>2. CASE StartOk
  BY <1>0, <1>2 DEF StartOk, ManagerInv, ManagerTypeOK, Order, Punctual, Overtime
<1>3. CASE Serve
  BY <1>0, <1>3 DEF Serve, ManagerInv, ManagerTypeOK, Order, Punctual, Overtime
<1>4. CASE Close
  <2>1. at = 0
    BY <1>0, <1>4 DEF Close, Order
  <2>2. ManagerTypeOK'
    BY <1>0, <1>4 DEF Close, ManagerTypeOK
  <2>3. Order'
    BY <1>0, <1>4, <2>1 DEF Close, ManagerTypeOK, Order
  <2>4. list' - left' = 0 /\ now' = 0 /\ at' = 0
    BY <1>0, <1>4, <2>1 DEF Close, ManagerTypeOK
  <2>5. Punctual'
    BY <2>4, OvertimeStep DEF Punctual
  <2> QED BY <2>2, <2>3, <2>5 DEF ManagerInv
<1>5. CASE BeginCleanup
  <2>1. left \in Resources /\ at' = left /\ due' = now + Allotted(left)
    BY <1>0, <1>5 DEF BeginCleanup, ManagerTypeOK, Resources
  <2>2. Allotted(left) \in Nat /\ due' \in Nat
    BY <1>0, <2>1, AllottedBound DEF ManagerTypeOK
  <2>3. ManagerTypeOK' /\ Order'
    BY <1>0, <1>5, <2>1, <2>2 DEF BeginCleanup, ManagerTypeOK, Order
  <2>4. now <= Overtime(list - left) /\ UNCHANGED <<list, left, now>>
    BY <1>0, <1>5 DEF BeginCleanup, Punctual
  <2>5. now <= due' /\ due' <= Overtime(list - left + 1)
    <3> DEFINE n == list - left
    <3>1. n \in Nat /\ now \in Nat
      BY <1>0 DEF ManagerTypeOK
    <3>2. /\ Overtime(n) \in Nat
          /\ Overtime(n + 1) = Overtime(n) + Reserve + MaxBlock
          /\ Deadline <= Overtime(n)
      BY <3>1, OvertimeStep
    <3>3. \/ now + Allotted(left) <= Deadline
          \/ Allotted(left) <= Reserve + MaxBlock
      BY <2>1, <3>1, AllottedBound
    <3> HIDE DEF n
    <3>4. now <= Overtime(n) /\ due' = now + Allotted(left)
      BY <2>1, <2>4 DEF n
    <3>5. now <= due' /\ due' <= Overtime(n + 1)
      BY <2>2, <3>1, <3>2, <3>3, <3>4
    <3> QED BY <3>5 DEF n
  <2>6. Punctual'
    BY <2>4, <2>5, <2>1 DEF Punctual, Overtime, Resources
  <2> QED BY <2>3, <2>6 DEF ManagerInv
<1>6. CASE CleanupReturns
  BY <1>6, EndCleanupStep DEF CleanupReturns, Outcomes
<1>7. CASE CleanupRaises
  BY <1>7, EndCleanupStep DEF CleanupRaises, Outcomes
<1>8. CASE CleanupTimesOut
  BY <1>8, EndCleanupStep DEF CleanupTimesOut, Outcomes
<1>9. CASE CloseReturns
  BY <1>0, <1>9 DEF CloseReturns, ManagerInv, ManagerTypeOK, Order, Punctual, Overtime
<1>10. CASE Tick
  <2>1. at # 0 /\ now < due /\ now' = now + 1 /\ phase = "closing"
    BY <1>0, <1>10 DEF Tick, Order
  <2>2. ManagerTypeOK' /\ Order'
    BY <1>0, <1>10, <2>1 DEF Tick, ManagerTypeOK, Order
  <2>3. UNCHANGED <<list, left, at, due>>
    BY <1>10 DEF Tick
  <2>4. now' <= due'
    BY <1>0, <2>1, <2>3 DEF ManagerTypeOK
  <2>5. Punctual'
    BY <1>0, <2>1, <2>3, <2>4 DEF Punctual, Overtime
  <2> QED BY <2>2, <2>5 DEF ManagerInv
<1>11. CASE UNCHANGED manager
  BY <1>0, <1>11 DEF manager, ManagerInv, ManagerTypeOK, Order, Punctual, Overtime
<1> QED BY <1>1, <1>2, <1>3, <1>4, <1>5, <1>6, <1>7, <1>8, <1>9, <1>10, <1>11
        DEF ManagerNext

LEMMA OnTime == ManagerInv => InTime
<1> SUFFICES ASSUME ManagerInv PROVE InTime
  OBVIOUS
<1>1. list - left \in Nat /\ now \in Nat /\ due \in Nat
  BY DEF ManagerInv, ManagerTypeOK, Order
<1>2. CASE at = 0
  BY <1>1, <1>2, ManagerAssumption DEF ManagerInv, Punctual, Overtime, InTime
<1>3. CASE at # 0
  <2>1. now <= Overtime(list - left) + Reserve + MaxBlock
    BY <1>1, <1>3, OvertimeStep, ManagerAssumption DEF ManagerInv, Punctual
  <2> QED BY <1>1, <1>3, <2>1, ManagerAssumption DEF Overtime, InTime
<1> QED BY <1>2, <1>3

LEMMA NothingLost == ManagerInv => NothingForgotten
  BY ManagerAssumption DEF ManagerInv, ManagerTypeOK, Order, NothingForgotten, Resources

-----------------------------------------------------------------------------
\* The inductive invariant of startup and close.
THEOREM ManagerInvariant == ManagerSpec => []ManagerInv
  BY ManagerStart, ManagerStep, PTL DEF ManagerSpec

\* Whatever is registered and however cleanups fail or hang, when close is
\* over only resources whose cleanup was tried are still held
\* (ResourceManager.acquire, ResourceManager.close).
THEOREM ManagerForgetsNothing == ManagerSpec => []NothingForgotten
  BY NothingLost, ManagerInvariant, PTL

\* close overruns its deadline by at most the reserve for each cleanup (and by
\* the time of one that blocks), not by the sum of the budgets.
THEOREM ManagerInTime == ManagerSpec => []InTime
  BY OnTime, ManagerInvariant, PTL
-----------------------------------------------------------------------------
\* Every step of the shutdown is one of the manager or none.
LEMMA ShutdownStepsOfManager == [ShutdownNext]_svars => [ManagerNext]_manager
<1> SUFFICES ASSUME [ShutdownNext]_svars PROVE [ManagerNext]_manager
  OBVIOUS
<1>1. CASE UNCHANGED svars
  BY <1>1 DEF svars
<1>2. CASE Startup \/ RedisStarts \/ LifespanCloses \/ LifespanEnds \/ Passes
  BY <1>2 DEF Startup, RedisStarts, LifespanCloses, LifespanEnds, Passes, ManagerNext
<1>3. CASE \E t \in Task : Spawn(t) \/ TaskEnds(t) \/ Discard(t)
  BY <1>3 DEF Spawn, TaskEnds, Discard
<1>4. CASE DrainBegins \/ DrainCancels \/ DrainReturns \/ DrainOver
  BY <1>4 DEF DrainBegins, DrainCancels, DrainReturns, DrainOver, ManagerNext
<1>5. CASE RedisCloses \/ Dispose \/ EnginesClose \/ LoggingCloses
  BY <1>5 DEF RedisCloses, Dispose, EnginesClose, LoggingCloses, ManagerNext
<1> QED BY <1>1, <1>2, <1>3, <1>4, <1>5 DEF ShutdownNext

\* The shutdown implements the safety part of what the manager promises for
\* resources it knows nothing of (manage_application_resources).
THEOREM ShutdownImplementsManager ==
  ShutdownSpec => Manager!ManagerInit /\ [][Manager!ManagerNext]_Manager!manager
<1>1. ShutdownInit => ManagerInit
  BY DEF ShutdownInit
<1>2. ManagerInit <=> Manager!ManagerInit
  BY DEF ManagerInit, Manager!ManagerInit, Resources, Manager!Resources
<1>3. ManagerNext <=> Manager!ManagerNext
  BY DEF ManagerNext, Register, StartOk, Serve, Close, BeginCleanup, CleanupReturns,
         CleanupRaises, CleanupTimesOut, EndCleanup, CloseReturns, Tick, Allotted, Lesser,
         Manager!ManagerNext, Manager!Register, Manager!StartOk, Manager!Serve,
         Manager!Close, Manager!BeginCleanup, Manager!CleanupReturns,
         Manager!CleanupRaises, Manager!CleanupTimesOut, Manager!EndCleanup,
         Manager!CloseReturns, Manager!Tick, Manager!Allotted, Manager!Lesser
<1>4. manager = Manager!manager
  BY DEF manager, Manager!manager
<1>5. [ShutdownNext]_svars => [Manager!ManagerNext]_Manager!manager
  BY <1>3, <1>4, ShutdownStepsOfManager DEF manager, Manager!manager
<1> QED BY <1>1, <1>2, <1>5, PTL DEF ShutdownSpec

LEMMA ShutdownKeepsManagerInv == ShutdownSpec => []ManagerInv
<1>1. ShutdownInit => ManagerInv
  BY ManagerStart DEF ShutdownInit
<1>2. ManagerInv /\ [ShutdownNext]_svars => ManagerInv'
  BY ManagerStep, ShutdownStepsOfManager
<1> QED BY <1>1, <1>2, PTL DEF ShutdownSpec

\* When the lifespan is over, only resources whose cleanup was tried are held:
\* what holds of any resources holds of the four of the application.
THEOREM ShutdownForgetsNothing == ShutdownSpec => []NothingForgotten
  BY NothingLost, ShutdownKeepsManagerInv, PTL

\* The application is down in the time the manager promises.
THEOREM ShutdownInTime == ShutdownSpec => []InTime
  BY OnTime, ShutdownKeepsManagerInv, PTL
-----------------------------------------------------------------------------
\* drain happens once, is what the cleanup of the background tasks is doing,
\* and finds every task that lives among those it waits for.
DrainInv ==
  /\ drain = "off" => at # Background /\ outcome[Background] = "none"
  /\ drain # "off" =>
       /\ shut /\ phase \in {"closing", "closed"}
       /\ left < Background \/ at = Background
  /\ \A t \in Task : Alive(t) => t \in tracked
  /\ drain \in {"waiting", "cancelling"} => \A t \in Task : Alive(t) => t \in pending
  /\ drain = "cancelling" => \A t \in Task : task[t] # "running"
  /\ drain = "returned" => tracked = {}
  /\ outcome[Background] = "ok" => drain = "returned"

\* dispose_engine has tried the engines up to the one it is at.
DisposeInv ==
  /\ disposed \cup broken = 1..tried
  /\ outcome[DbEngines] = "ok" => tried = Engines

ShutdownInv == ManagerInv /\ ShutdownTypeOK /\ DrainInv /\ DisposeInv

LEMMA ShutdownStart == ShutdownInit => ShutdownInv
<1> SUFFICES ASSUME ShutdownInit PROVE ShutdownInv
  OBVIOUS
<1> USE ManagerAssumption, ShutdownAssumption
<1>1. ManagerInv /\ Background \in Resources /\ DbEngines \in Resources
  BY ManagerStart DEF ShutdownInit, Background, DbEngines, Resources
<1>2. ShutdownTypeOK
  <2>1. ManagerTypeOK
    BY <1>1 DEF ManagerInv
  <2>2. 0 \in 0..Engines
    OBVIOUS
  <2> QED BY <2>1, <2>2 DEF ShutdownInit, ShutdownTypeOK, Lives
<1>3. DrainInv
  BY <1>1 DEF ShutdownInit, ManagerInit, DrainInv, Alive, Background
<1>4. DisposeInv
  BY <1>1 DEF ShutdownInit, ManagerInit, DisposeInv
<1> QED BY <1>1, <1>2, <1>3, <1>4 DEF ShutdownInv

\* A step of the manager touches the outcome of the resource it cleans up.
LEMMA OutcomeOfOthers ==
  ASSUME ManagerInv, NEW how, EndCleanup(how), NEW i \in Resources
  PROVE  /\ at' = 0 /\ left' = at - 1 /\ phase' = phase
         /\ outcome'[i] = IF i = at THEN how ELSE outcome[i]
  BY DEF EndCleanup, ManagerInv, ManagerTypeOK, Order

LEMMA DrainStep == ShutdownInv /\ [ShutdownNext]_svars => DrainInv'
<1> SUFFICES ASSUME ShutdownInv, [ShutdownNext]_svars PROVE DrainInv'
  OBVIOUS
<1> USE ManagerAssumption, ShutdownAssumption DEF Background, Logging, DbEngines, RedisClient
<1>0. /\ ManagerInv /\ DrainInv /\ ManagerTypeOK /\ Order /\ ShutdownTypeOK
      /\ Background \in Resources /\ DbEngines \in Resources
  BY DEF ShutdownInv, ManagerInv, Resources
<1>1. CASE UNCHANGED svars
  BY <1>0, <1>1 DEF svars, manager, runner, draining, engines, DrainInv, Alive
<1>2. CASE Startup \/ RedisStarts \/ Passes \/ LifespanEnds
  BY <1>0, <1>2 DEF Startup, RedisStarts, Passes, LifespanEnds, Register, Serve, StartOk,
     Tick, CloseReturns, Rest, runner, draining, engines, DrainInv, Alive, Order
<1>3. CASE LifespanCloses
  BY <1>0, <1>3 DEF LifespanCloses, Close, Rest, runner, draining, engines, DrainInv,
     Alive, Order
<1>4. ASSUME NEW t \in Task, Spawn(t) PROVE DrainInv'
  BY <1>0, <1>4 DEF Spawn, manager, draining, engines, DrainInv, Alive, ShutdownTypeOK
<1>5. ASSUME NEW t \in Task, TaskEnds(t) PROVE DrainInv'
  BY <1>0, <1>5 DEF TaskEnds, manager, draining, engines, DrainInv, Alive, ShutdownTypeOK
<1>6. ASSUME NEW t \in Task, Discard(t) PROVE DrainInv'
  BY <1>0, <1>6 DEF Discard, manager, draining, engines, DrainInv, Alive, ShutdownTypeOK
<1>7. CASE DrainBegins
  <2>1. drain = "off" /\ phase = "closing" /\ at' = Background /\ outcome' = outcome
    BY <1>0, <1>7 DEF DrainBegins, BeginCleanup, DrainInv
  <2> QED BY <1>0, <1>7, <2>1 DEF DrainBegins, BeginCleanup, DrainInv, Alive
<1>8. CASE DrainCancels
  BY <1>0, <1>8 DEF DrainCancels, manager, engines, DrainInv, Alive, ShutdownTypeOK
<1>9. CASE DrainReturns
  BY <1>0, <1>9 DEF DrainReturns, manager, engines, DrainInv, Alive
<1>10. CASE DrainOver
  <2>1. \E how \in {"ok", "timeout"} :
          EndCleanup(how) /\ (how = "ok" => drain = "returned")
    BY <1>10 DEF DrainOver, CleanupReturns, CleanupTimesOut
  <2>2. /\ at = Background /\ left' < Background /\ phase' = phase
        /\ outcome'[Background] = "ok" => drain = "returned"
    BY <1>0, <1>10, <2>1, OutcomeOfOthers DEF DrainOver
  <2>3. UNCHANGED <<runner, draining>> /\ drain # "off"
    BY <1>0, <1>10 DEF DrainOver, Rest, DrainInv
  <2> QED BY <1>0, <2>2, <2>3 DEF runner, draining, DrainInv, Alive
<1>11. CASE RedisCloses \/ EnginesClose \/ LoggingCloses
  <2>1. UNCHANGED <<runner, draining>>
    BY <1>11 DEF RedisCloses, EnginesClose, LoggingCloses, Rest
  <2>2. CASE left \in {1, 2, 3} /\ BeginCleanup
    BY <1>0, <2>1, <2>2 DEF BeginCleanup, runner, draining, DrainInv, Alive
  <2>3. CASE at \in {1, 2, 3} /\ \E how \in {"ok", "failed", "timeout"} : EndCleanup(how)
    <3>1. left' < Background /\ phase' = phase /\ at' = 0
      BY <1>0, <2>3, OutcomeOfOthers
    <3>2. outcome'[Background] = outcome[Background]
      BY <1>0, <2>3, OutcomeOfOthers
    <3> QED BY <1>0, <2>1, <3>1, <3>2 DEF runner, draining, DrainInv, Alive
  <2> QED BY <1>11, <2>2, <2>3 DEF RedisCloses, EnginesClose, LoggingCloses,
       CleanupReturns, CleanupRaises, CleanupTimesOut
<1>12. CASE Dispose
  BY <1>0, <1>12 DEF Dispose, manager, runner, draining, DrainInv, Alive
<1> QED BY <1>1, <1>2, <1>3, <1>4, <1>5, <1>6, <1>7, <1>8, <1>9, <1>10, <1>11, <1>12
        DEF ShutdownNext

LEMMA DisposeStep == ShutdownInv /\ [ShutdownNext]_svars => DisposeInv'
<1> SUFFICES ASSUME ShutdownInv, [ShutdownNext]_svars PROVE DisposeInv'
  OBVIOUS
<1> USE ManagerAssumption, ShutdownAssumption DEF Background, Logging, DbEngines, RedisClient
<1>0. /\ ManagerInv /\ DisposeInv /\ ManagerTypeOK /\ Order /\ ShutdownTypeOK
      /\ DbEngines \in Resources
  BY DEF ShutdownInv, ManagerInv, Resources
<1>1. CASE Dispose
  <2>1. tried' = tried + 1 /\ tried < Engines /\ outcome' = outcome
    BY <1>1 DEF Dispose, manager
  <2>2. disposed' \cup broken' = (1..tried) \cup {tried + 1}
    BY <1>0, <1>1 DEF Dispose, DisposeInv
  <2>3. tried \in Nat /\ 1..(tried + 1) = (1..tried) \cup {tried + 1}
    BY <1>0 DEF ShutdownTypeOK
  <2>4. outcome[DbEngines] # "ok"
    BY <1>0, <2>1, <2>3 DEF DisposeInv
  <2> QED BY <2>1, <2>2, <2>3, <2>4 DEF DisposeInv
<1>2. CASE UNCHANGED <<outcome, engines>>
  BY <1>0, <1>2 DEF engines, DisposeInv
<1>3. ASSUME UNCHANGED engines, NEW how, EndCleanup(how),
             at = DbEngines /\ how = "ok" => tried = Engines
      PROVE  DisposeInv'
  <2>1. outcome'[DbEngines] = IF DbEngines = at THEN how ELSE outcome[DbEngines]
    BY <1>0, <1>3, OutcomeOfOthers
  <2> QED BY <1>0, <1>3, <2>1 DEF engines, DisposeInv
<1>4. CASE EnginesClose
  <2>1. CASE BeginCleanup
    BY <1>2, <1>4, <2>1 DEF EnginesClose, Rest, BeginCleanup
  <2>2. CASE tried = Engines /\ CleanupReturns
    BY <1>3, <1>4, <2>2 DEF EnginesClose, Rest, CleanupReturns
  <2>3. CASE CleanupTimesOut
    BY <1>3, <1>4, <2>3 DEF EnginesClose, Rest, CleanupTimesOut
  <2> QED BY <1>4, <2>1, <2>2, <2>3 DEF EnginesClose
<1>5. CASE DrainOver
  BY <1>3, <1>5 DEF DrainOver, Rest, CleanupReturns, CleanupTimesOut
<1>6. CASE RedisCloses
  BY <1>2, <1>3, <1>6 DEF RedisCloses, Rest, BeginCleanup, CleanupReturns, CleanupRaises,
     CleanupTimesOut
<1>7. CASE LoggingCloses
  BY <1>2, <1>3, <1>7 DEF LoggingCloses, Rest, BeginCleanup, CleanupReturns, CleanupRaises
<1>8. CASE Startup \/ RedisStarts \/ LifespanCloses \/ LifespanEnds \/ Passes
  BY <1>2, <1>8 DEF Startup, RedisStarts, LifespanCloses, LifespanEnds, Passes, Rest,
     Register, Serve, StartOk, Close, CloseReturns, Tick
<1>9. CASE \E t \in Task : Spawn(t) \/ TaskEnds(t) \/ Discard(t)
  BY <1>2, <1>9 DEF Spawn, TaskEnds, Discard, manager
<1>10. CASE DrainBegins \/ DrainCancels \/ DrainReturns
  BY <1>2, <1>10 DEF DrainBegins, DrainCancels, DrainReturns, BeginCleanup, manager
<1>11. CASE UNCHANGED svars
  BY <1>2, <1>11 DEF svars, manager
<1> QED BY <1>1, <1>4, <1>5, <1>6, <1>7, <1>8, <1>9, <1>10, <1>11 DEF ShutdownNext

LEMMA ShutdownTypeStep == ShutdownInv /\ [ShutdownNext]_svars => ShutdownTypeOK'
<1> SUFFICES ASSUME ShutdownInv, [ShutdownNext]_svars PROVE ShutdownTypeOK'
  OBVIOUS
<1> USE ManagerAssumption, ShutdownAssumption
<1>0. ShutdownTypeOK /\ ManagerTypeOK'
  BY ManagerStep, ShutdownStepsOfManager DEF ShutdownInv, ManagerInv
<1>1. CASE UNCHANGED svars
  BY <1>0, <1>1 DEF svars, runner, draining, engines, ShutdownTypeOK
<1>2. CASE \/ Startup \/ RedisStarts \/ LifespanCloses \/ LifespanEnds \/ Passes
           \/ RedisCloses \/ EnginesClose \/ LoggingCloses \/ DrainOver
  BY <1>0, <1>2 DEF Startup, RedisStarts, LifespanCloses, LifespanEnds, Passes, RedisCloses,
     EnginesClose, LoggingCloses, DrainOver, Rest, runner, draining, engines, ShutdownTypeOK
<1>3. CASE \E t \in Task : Spawn(t) \/ TaskEnds(t) \/ Discard(t)
  BY <1>0, <1>3 DEF Spawn, TaskEnds, Discard, draining, engines, ShutdownTypeOK, Lives
<1>4. CASE DrainBegins
  <2>1. now \in Nat /\ DrainTimeouts \subseteq Nat
    BY <1>0 DEF ShutdownTypeOK, ManagerTypeOK
  <2> QED BY <1>0, <1>4, <2>1 DEF DrainBegins, engines, ShutdownTypeOK
<1>5. CASE DrainCancels
  BY <1>0, <1>5 DEF DrainCancels, engines, ShutdownTypeOK, Lives
<1>6. CASE DrainReturns
  BY <1>0, <1>6 DEF DrainReturns, engines, ShutdownTypeOK
<1>7. CASE Dispose
  <2>1. tried + 1 \in 0..Engines /\ tried + 1 \in 1..Engines
    BY <1>0, <1>7 DEF Dispose, ShutdownTypeOK
  <2> QED BY <1>0, <1>7, <2>1 DEF Dispose, runner, draining, ShutdownTypeOK
<1> QED BY <1>1, <1>2, <1>3, <1>4, <1>5, <1>6, <1>7 DEF ShutdownNext

\* The inductive invariant of the shutdown.
THEOREM ShutdownInvariant == ShutdownSpec => []ShutdownInv
<1>1. ShutdownInv /\ [ShutdownNext]_svars => ShutdownInv'
  BY ManagerStep, ShutdownStepsOfManager, ShutdownTypeStep, DrainStep, DisposeStep
     DEF ShutdownInv
<1> QED BY <1>1, ShutdownStart, PTL DEF ShutdownSpec

\* A drain that returned leaves no task running or tracked, however requests
\* go on offering tasks meanwhile (BackgroundTaskRunner.drain).
THEOREM DrainLeavesNothing == ShutdownSpec => []DrainedMeansQuiet
<1>1. ShutdownInv => DrainedMeansQuiet
  BY DEF ShutdownInv, DrainInv, DrainedMeansQuiet
<1> QED BY <1>1, ShutdownInvariant, PTL

\* Once drain is past its wait every task has ended or been cancelled, also
\* when the timeout of close has cut drain (BackgroundTaskRunner.drain).
THEOREM DrainLeavesNoneRunning == ShutdownSpec => []NoneRunsPastTheWait
<1>1. ShutdownInv => NoneRunsPastTheWait
  BY DEF ShutdownInv, ShutdownTypeOK, DrainInv, NoneRunsPastTheWait, Alive
<1> QED BY <1>1, ShutdownInvariant, PTL

\* However many engines there are and whichever of them fail to be disposed
\* of, each is tried before dispose_engine returns.
THEOREM EveryEngineIsTried == ShutdownSpec => []EngineFailuresStayApart
<1>1. ShutdownInv => EngineFailuresStayApart
  BY DEF ShutdownInv, DisposeInv, EngineFailuresStayApart
<1> QED BY <1>1, ShutdownInvariant, PTL
=============================================================================
