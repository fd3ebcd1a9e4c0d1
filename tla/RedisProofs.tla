---------------------------- MODULE RedisProofs ----------------------------
(***************************************************************************)
(* Theorems about the two components whose state is keys of Redis that     *)
(* expire: WorkerHeartbeat, for any number of workers, any timing that     *)
(* satisfies TimingAssumption, and any number of crashes and stops; and    *)
(* RateLimit, for any requests, limits and window.                         *)
(***************************************************************************)
EXTENDS WorkerHeartbeat, RateLimit, NaturalsInduction, WellFoundedInduction, TLAPS

\* Only a living worker writes a heartbeat, and time is quiet only without one.
WorkerInv ==
    /\ \A w \in Workers : at[w] # "idle" => state[w] \in {"starting", "up"}
    /\ (\E w \in Workers : Alive(w)) => quiet = 0

TypeInv == TypeOK /\ WorkerInv

Heartbeats == [owner : Workers, age : Nat, ttl : NoExpiry .. Expire]

LEMMA HeartbeatIsThere ==
  ASSUME NEW k \in Heartbeats
  PROVE  k # Absent
BY DEF Heartbeats, Absent

LEMMA QueuedType ==
  ASSUME NEW n \in 0 .. MaxQueued
  PROVE  Queued(n) \in 1 .. MaxQueued
BY TimingAssumption DEF Queued

\* What a unit of time does to the key.
LEMMA Ageing ==
  ASSUME TypeOK, key # Absent
  PROVE  \/ Older(key) = Absent
         \/ /\ Older(key) \in Heartbeats
            /\ Older(key).owner = key.owner
            /\ key.age + skew < Stale => Older(key).age = key.age + 1
            /\ ~(key.age + skew < Stale) => Older(key).age = key.age
            /\ key.ttl = NoExpiry => Older(key).ttl = NoExpiry
            /\ key.ttl # NoExpiry => key.ttl \in 2 .. Expire /\ Older(key).ttl = key.ttl - 1
<1> SUFFICES ASSUME Older(key) # Absent
             PROVE  /\ Older(key) \in Heartbeats
                    /\ Older(key).owner = key.owner
                    /\ key.age + skew < Stale => Older(key).age = key.age + 1
                    /\ ~(key.age + skew < Stale) => Older(key).age = key.age
                    /\ key.ttl = NoExpiry => Older(key).ttl = NoExpiry
                    /\ key.ttl # NoExpiry => key.ttl \in 2 .. Expire /\ Older(key).ttl = key.ttl - 1
  OBVIOUS
<1>1. key \in Heartbeats /\ key.ttl # 1 /\ skew \in Int
  BY TimingAssumption DEF TypeOK, Older, Heartbeats
<1>2. PICK a \in Nat, t \in NoExpiry .. Expire : a = key.age /\ t = key.ttl
  BY <1>1 DEF Heartbeats
<1> DEFINE b == IF a + skew < Stale THEN a + 1 ELSE a
           u == IF t = NoExpiry THEN NoExpiry ELSE t - 1
<1>3. b \in Nat /\ u \in NoExpiry .. Expire
  BY <1>1, <1>2, TimingAssumption DEF NoExpiry
<1>4. Older(key) = [owner |-> key.owner, age |-> b, ttl |-> u]
  BY <1>1, <1>2 DEF Older, Heartbeats
<1>5. t # NoExpiry => t \in 2 .. Expire
  BY <1>1, <1>2, TimingAssumption DEF NoExpiry
<1> QED
  BY <1>1, <1>2, <1>3, <1>4, <1>5 DEF Heartbeats

LEMMA TypeInit == Init => TypeInv
<1> SUFFICES ASSUME Init
             PROVE  TypeInv
  OBVIOUS
<1>1. 0 \in 0 .. Period - 1 /\ Stale \in 0 .. Stale /\ 0 \in 0 .. MaxQueued /\ 0 \in 0 .. MaxLost
  BY TimingAssumption
<1>2. \A w \in Workers : state[w] = "down" /\ at[w] = "idle"
  BY DEF Init
<1>3. TypeOK
  BY <1>1 DEF Init, TypeOK
<1>4. WorkerInv
  BY <1>2 DEF WorkerInv, Alive
<1> QED
  BY <1>3, <1>4 DEF TypeInv

LEMMA TypeStep == TypeInv /\ [Next]_vars => TypeInv'
<1> SUFFICES ASSUME TypeInv, [Next]_vars
             PROVE  TypeInv'
  OBVIOUS
<1> USE TimingAssumption DEF TypeInv, NoExpiry
<1>q. due \in 0 .. MaxQueued /\ Queued(due) \in 1 .. MaxQueued /\ Queued(due) \in 0 .. MaxQueued
  BY QueuedType DEF TypeOK
<1>k. key = Absent \/ key \in Heartbeats
  BY DEF TypeOK, Heartbeats
<1>1. ASSUME NEW w \in Workers, Start(w)
      PROVE  TypeInv'
  BY <1>1 DEF Start, TypeOK, WorkerInv, Alive, queueVars, timeVars
<1>2. ASSUME NEW w \in Workers, PickRefresh(w)
      PROVE  TypeInv'
  BY <1>2 DEF PickRefresh, TypeOK, WorkerInv, Alive, Responsive, timeVars, history
<1>3. ASSUME NEW w \in Workers, SetFields(w)
      PROVE  TypeInv'
  <2>1. key' \in {Absent} \cup [owner : Workers, age : Nat, ttl : NoExpiry .. Expire]
    BY <1>3 DEF SetFields, TypeOK
  <2> QED
    BY <1>3, <2>1 DEF SetFields, TypeOK, WorkerInv, Alive, queueVars, timeVars
<1>4. ASSUME NEW w \in Workers, SetExpiry(w)
      PROVE  TypeInv'
  <2>1. key' \in {Absent} \cup [owner : Workers, age : Nat, ttl : NoExpiry .. Expire]
    BY <1>4 DEF SetExpiry, TypeOK
  <2>2. /\ state' \in [Workers -> {"down", "starting", "up", "stopping"}]
        /\ \A v \in Workers : state'[v] # state[v] => state'[v] = "up" /\ state[v] = "starting"
    BY <1>4 DEF SetExpiry, TypeOK
  <2>3. WorkerInv'
    BY <1>4, <2>2 DEF SetExpiry, WorkerInv, TypeOK, Alive, history
  <2> QED
    BY <1>4, <2>1, <2>2, <2>3 DEF SetExpiry, TypeOK, queueVars, timeVars, history
<1>5. ASSUME NEW w \in Workers, RefreshFails(w)
      PROVE  TypeInv'
  <2>1. CASE state[w] = "starting"
    BY <1>5, <2>1 DEF RefreshFails, TypeOK, WorkerInv, Alive, queueVars, timeVars
  <2>2. CASE state[w] # "starting"
    BY <1>5, <2>2 DEF RefreshFails, TypeOK, WorkerInv, Alive, queueVars, timeVars
  <2> QED
    BY <2>1, <2>2
<1>6. ASSUME NEW w \in Workers, Shutdown(w)
      PROVE  TypeInv'
  BY <1>6, <1>q DEF Shutdown, TypeOK, WorkerInv, Alive, timeVars, history
<1>7. ASSUME NEW w \in Workers, DeleteKey(w)
      PROVE  TypeInv'
  BY <1>7 DEF DeleteKey, TypeOK, WorkerInv, Alive, queueVars, timeVars, history
<1>8. ASSUME NEW w \in Workers, Crash(w)
      PROVE  TypeInv'
  BY <1>8 DEF Crash, TypeOK, WorkerInv, Alive, timeVars
<1>9. CASE RepeatHeld
  BY <1>9, <1>q DEF RepeatHeld, TypeOK, WorkerInv, Alive, workerVars, timeVars, history
<1>10. ASSUME NEW w \in Workers, Fill(w)
       PROVE  TypeInv'
  BY <1>10 DEF Fill, TypeOK, WorkerInv, Alive, queueVars, timeVars, history
<1>11. ASSUME NEW w \in Workers, Block(w)
       PROVE  TypeInv'
  BY <1>11 DEF Block, TypeOK, WorkerInv, Alive, queueVars, timeVars
<1>12. ASSUME NEW w \in Workers, Relieve(w)
       PROVE  TypeInv'
  <2>1. load' \in [Workers -> {"free", "full", "blocked"}]
    BY <1>12 DEF Relieve, TypeOK
  <2>2. due' \in 0 .. MaxQueued /\ owed' \subseteq Workers
    BY <1>12, <1>q DEF Relieve, TypeOK
  <2> QED
    BY <1>12, <2>1, <2>2 DEF Relieve, TypeOK, WorkerInv, Alive, timeVars, history
<1>13. CASE Tick
  <2>1. key' \in {Absent} \cup [owner : Workers, age : Nat, ttl : NoExpiry .. Expire]
    <3>1. CASE key = Absent
      BY <1>13, <3>1 DEF Tick, Older
    <3>2. CASE key # Absent
      BY <1>13, <3>2, Ageing DEF Tick, Heartbeats
    <3> QED
      BY <3>1, <3>2
  <2>2. due' \in 0 .. MaxQueued /\ owed' \subseteq Workers
    BY <1>13, <1>q DEF Tick, QueueRefresh, TypeOK
  <2>3. phase' \in 0 .. Period - 1
    BY <1>13 DEF Tick, TypeOK
  <2>4. quiet' \in 0 .. Stale /\ dark' \in Nat
    BY <1>13 DEF Tick, TypeOK
  <2>5. (\E w \in Workers : Alive(w)) => quiet' = 0
    BY <1>13 DEF Tick
  <2>6. UNCHANGED <<state, at, load, held, skew, crashed, lost>>
    BY <1>13 DEF Tick, workerVars
  <2> QED
    BY <2>1, <2>2, <2>3, <2>4, <2>5, <2>6 DEF TypeOK, WorkerInv, Alive
<1>14. CASE UNCHANGED vars
  BY <1>14 DEF vars, workerVars, queueVars, timeVars, history, TypeOK, WorkerInv, Alive
<1> QED
  BY <1>1, <1>2, <1>3, <1>4, <1>5, <1>6, <1>7, <1>8, <1>9, <1>10, <1>11, <1>12, <1>13, <1>14 DEF Next

\* The variables always have their types.
THEOREM TypeCorrect == Spec => []TypeOK
<1>1. TypeInv => TypeOK
  BY DEF TypeInv
<1> QED
  BY TypeInit, TypeStep, <1>1, PTL DEF Spec

-----------------------------------------------------------------------------
(* What a heartbeat proves. *)

\* A heartbeat is at least as old as the silence of the workers, and its
\* expiry counts from the last moment at which one of them lived.
SeenInv ==
    key # Absent =>
        /\ key.age + skew < Stale => quiet <= key.age
        /\ key.ttl # NoExpiry => quiet + key.ttl <= Expire

LEMMA SeenStep == TypeInv /\ SeenInv /\ [Next]_vars => SeenInv'
<1> SUFFICES ASSUME TypeInv, SeenInv, [Next]_vars
             PROVE  SeenInv'
  OBVIOUS
<1> USE TimingAssumption DEF NoExpiry
<1>t. /\ quiet \in Nat /\ skew \in Int /\ Expire \in Nat /\ Stale \in Nat
      /\ key # Absent => key \in Heartbeats /\ key.age \in Nat /\ key.ttl \in 0 .. Expire
      /\ \A w \in Workers : at[w] # "idle" => quiet = 0
  BY DEF TypeInv, TypeOK, WorkerInv, Alive, Heartbeats
<1>1. ASSUME UNCHANGED <<key, quiet, skew>>
      PROVE  SeenInv'
  BY <1>1 DEF SeenInv
<1>2. ASSUME NEW w \in Workers, Start(w)
      PROVE  SeenInv'
  BY <1>2, <1>t DEF Start, timeVars, SeenInv
<1>3. ASSUME NEW w \in Workers, SetFields(w)
      PROVE  SeenInv'
  <2>1. quiet' = 0 /\ key'.age = 0 /\ key'.ttl = IF key = Absent THEN 0 ELSE key.ttl
    BY <1>3, <1>t DEF SetFields
  <2> QED
    BY <2>1, <1>t DEF SeenInv
<1>4. ASSUME NEW w \in Workers, SetExpiry(w)
      PROVE  SeenInv'
  <2>1. CASE key = Absent
    BY <1>4, <2>1 DEF SetExpiry, SeenInv
  <2>2. CASE key # Absent
    <3>1. quiet = 0 /\ quiet' = 0
      BY <1>4, <1>t DEF SetExpiry, history
    <3>2. key'.age = key.age /\ key'.ttl = Expire
      BY <1>4, <2>2, <1>t DEF SetExpiry, Heartbeats
    <3> QED
      BY <3>1, <3>2, <1>t, <2>2 DEF SeenInv
  <2> QED
    BY <2>1, <2>2
<1>5. ASSUME NEW w \in Workers, DeleteKey(w)
      PROVE  SeenInv'
  BY <1>5 DEF DeleteKey, SeenInv
<1>6. CASE Tick
  <2>1. CASE key = Absent
    BY <1>6, <2>1 DEF Tick, Older, SeenInv
  <2>2. CASE key # Absent
    <3>1. quiet' \in Nat /\ quiet' <= quiet + 1 /\ skew' = skew /\ key' = Older(key)
      BY <1>6, <1>t DEF Tick
    <3>2. CASE Older(key) = Absent
      BY <3>1, <3>2 DEF SeenInv
    <3>3. CASE Older(key) # Absent
      <4>1. /\ key'.age = IF key.age + skew < Stale THEN key.age + 1 ELSE key.age
            /\ key.ttl = 0 => key'.ttl = 0
            /\ key.ttl # 0 => key'.ttl = key.ttl - 1
        BY <2>2, <3>1, <3>3, Ageing DEF TypeInv
      <4> QED
        BY <4>1, <3>1, <2>2, <1>t DEF SeenInv
    <3> QED
      BY <3>2, <3>3
  <2> QED
    BY <2>1, <2>2
<1>7. ASSUME NEW w \in Workers,
             PickRefresh(w) \/ RefreshFails(w) \/ Shutdown(w) \/ Crash(w) \/ Fill(w)
                \/ Block(w) \/ Relieve(w)
      PROVE  UNCHANGED <<key, quiet, skew>>
  BY <1>7 DEF PickRefresh, RefreshFails, Shutdown, Crash, Fill, Block, Relieve, timeVars,
              history
<1>8. CASE RepeatHeld \/ UNCHANGED vars
  BY <1>8, <1>1 DEF RepeatHeld, vars, timeVars, history
<1> QED
  BY <1>1, <1>2, <1>3, <1>4, <1>5, <1>6, <1>7, <1>8 DEF Next

\* A positive worker check proves that a worker was alive within the last 60
\* seconds, or 90 if the key has no expiry.
THEOREM ChecksProveLife == Spec => []SeenMeansAlive
<1>1. Init => SeenInv
  BY DEF Init, SeenInv
<1>2. TypeInv /\ SeenInv => SeenMeansAlive
  <2> SUFFICES ASSUME TypeInv, SeenInv, WorkerCheck
               PROVE  IF key.ttl = NoExpiry THEN quiet + skew < Stale ELSE quiet < Expire
    BY DEF SeenMeansAlive
  <2>1. /\ quiet \in Nat /\ skew \in Int /\ Expire \in Nat /\ Stale \in Nat
        /\ key # Absent /\ key.age \in Nat /\ key.ttl \in 0 .. Expire
    BY TimingAssumption DEF TypeInv, TypeOK, WorkerCheck, NoExpiry
  <2> QED
    BY <2>1 DEF SeenInv, WorkerCheck, NoExpiry
<1> QED
  BY TypeInit, TypeStep, <1>1, SeenStep, <1>2, PTL DEF Spec

\* A heartbeat belongs to a worker that lives or has crashed.
THEOREM StopsLeaveNoHeartbeat == Spec => []HeartbeatHasOwner
<1>1. Init => HeartbeatHasOwner
  BY DEF Init, HeartbeatHasOwner
<1>2. TypeInv /\ HeartbeatHasOwner /\ [Next]_vars => HeartbeatHasOwner'
  <2> SUFFICES ASSUME TypeInv, HeartbeatHasOwner, [Next]_vars
               PROVE  HeartbeatHasOwner'
    OBVIOUS
  <2> USE DEF HeartbeatHasOwner, Alive
  <2>t. /\ state \in [Workers -> {"down", "starting", "up", "stopping"}]
        /\ key # Absent => key \in Heartbeats /\ key.owner \in Workers
        /\ \A w \in Workers : at[w] # "idle" => state[w] # "down"
    BY DEF TypeInv, TypeOK, WorkerInv, Heartbeats
  <2>1. ASSUME UNCHANGED key,
               \A w \in Workers : Alive(w) \/ w \in crashed => Alive(w)' \/ w \in crashed'
        PROVE  HeartbeatHasOwner'
    BY <2>1, <2>t
  <2>2. ASSUME NEW w \in Workers, Start(w) \/ PickRefresh(w)
        PROVE  HeartbeatHasOwner'
    BY <2>1, <2>2, <2>t DEF Start, PickRefresh, history
  <2>3. ASSUME NEW w \in Workers, SetFields(w)
        PROVE  HeartbeatHasOwner'
    BY <2>3, <2>t DEF SetFields
  <2>4. ASSUME NEW w \in Workers, SetExpiry(w)
        PROVE  HeartbeatHasOwner'
    <3>1. crashed' = crashed /\ \A v \in Workers : Alive(v) => Alive(v)'
      BY <2>4, <2>t DEF SetExpiry, history
    <3>2. CASE key = Absent
      BY <2>4, <3>2 DEF SetExpiry
    <3>3. CASE key # Absent
      <4>1. key'.owner = key.owner
        BY <2>4, <3>3, <2>t DEF SetExpiry, Heartbeats
      <4> QED
        BY <4>1, <3>1, <3>3, <2>t
    <3> QED
      BY <3>2, <3>3
  <2>5. ASSUME NEW w \in Workers, RefreshFails(w) \/ Shutdown(w) \/ Crash(w)
        PROVE  HeartbeatHasOwner'
    BY <2>1, <2>5, <2>t DEF RefreshFails, Shutdown, Crash, history
  <2>6. ASSUME NEW w \in Workers, DeleteKey(w)
        PROVE  HeartbeatHasOwner'
    BY <2>6 DEF DeleteKey
  <2>7. ASSUME NEW w \in Workers, Fill(w) \/ Block(w) \/ Relieve(w)
        PROVE  HeartbeatHasOwner'
    BY <2>1, <2>7 DEF Fill, Block, Relieve, history
  <2>8. CASE RepeatHeld \/ UNCHANGED vars
    BY <2>1, <2>8 DEF RepeatHeld, vars, workerVars, history
  <2>9. CASE Tick
    <3>1. UNCHANGED <<state, crashed>> /\ key' = Older(key)
      BY <2>9 DEF Tick, workerVars
    <3>2. CASE key = Absent
      BY <3>1, <3>2 DEF Older
    <3>3. CASE key # Absent
      <4>1. Older(key) = Absent \/ Older(key).owner = key.owner
        BY <3>3, Ageing DEF TypeInv
      <4> QED
        BY <4>1, <3>1, <3>3
    <3> QED
      BY <3>2, <3>3
  <2> QED
    BY <2>2, <2>3, <2>4, <2>5, <2>6, <2>7, <2>8, <2>9 DEF Next
<1> QED
  BY TypeInit, TypeStep, <1>1, <1>2, PTL DEF Spec

-----------------------------------------------------------------------------
(* How long a living worker can be missed. *)

\* A refresh is on its way: queued, or begun by a worker that goes on.
RefreshPending ==
    \/ due > 0
    \/ \E w \in Workers : state[w] = "up" /\ at[w] = "hset" /\ load[w] # "blocked"

\* Within a period the outage grows with the time since its tick; at the tick
\* it may be a whole period long, with the refresh that ends it on its way.
DarkInv ==
    \/ dark <= Period * lost + phase
    \/ phase = 0 /\ RefreshPending /\ dark <= Period * lost + Period

LEMMA Product ==
  ASSUME NEW n \in Nat
  PROVE  /\ Period * n \in Nat
         /\ Period * (n + 1) = Period * n + Period
         /\ Period * (1 + n) = Period * n + Period
BY TimingAssumption

LEMMA DarkStep == TypeInv /\ DarkInv /\ [Next]_vars => DarkInv'
<1> SUFFICES ASSUME TypeInv, DarkInv, [Next]_vars
             PROVE  DarkInv'
  OBVIOUS
<1>t. /\ dark \in Nat /\ lost \in Nat /\ phase \in 0 .. Period - 1 /\ due \in 0 .. MaxQueued
      /\ Period \in Nat \ {0} /\ Period * lost \in Nat
      /\ state \in [Workers -> {"down", "starting", "up", "stopping"}]
      /\ at \in [Workers -> {"idle", "hset", "expire"}]
      /\ load \in [Workers -> {"free", "full", "blocked"}]
  BY TimingAssumption, Product DEF TypeInv, TypeOK
<1>q. Queued(due) > 0 /\ Queued(due) \in Nat
  BY <1>t, QueuedType, TimingAssumption
\* The three ways in which a step can leave the invariant alone.
<1>1. ASSUME UNCHANGED <<dark, lost, phase>>, RefreshPending => RefreshPending'
      PROVE  DarkInv'
  BY <1>1 DEF DarkInv
<1>2. ASSUME UNCHANGED <<dark, phase>>, lost' = lost + 1
      PROVE  DarkInv'
  <2>1. Period * lost' = Period * lost + Period
    BY <1>2, <1>t, Product
  <2> QED
    BY <2>1, <1>2, <1>t DEF DarkInv
<1>3. ASSUME dark' = 0, lost' = 0, phase' = phase
      PROVE  DarkInv'
  <2>1. Period * lost' \in Nat
    BY <1>3, Product
  <2> QED
    BY <2>1, <1>3, <1>t DEF DarkInv
<1>4. ASSUME NEW w \in Workers, Start(w)
      PROVE  DarkInv'
  BY <1>4, <1>1, <1>t DEF Start, queueVars, timeVars, RefreshPending
<1>5. ASSUME NEW w \in Workers, PickRefresh(w)
      PROVE  DarkInv'
  <2>1. RefreshPending'
    BY <1>5, <1>t DEF PickRefresh, Responsive, RefreshPending
  <2> QED
    BY <1>5, <2>1, <1>1 DEF PickRefresh, timeVars, history
<1>6. ASSUME NEW w \in Workers, SetFields(w)
      PROVE  DarkInv'
  BY <1>6, <1>3 DEF SetFields, timeVars
<1>7. ASSUME NEW w \in Workers, SetExpiry(w)
      PROVE  DarkInv'
  BY <1>7, <1>1, <1>t DEF SetExpiry, queueVars, timeVars, history, RefreshPending
<1>8. ASSUME NEW w \in Workers, RefreshFails(w)
      PROVE  DarkInv'
  BY <1>8, <1>2 DEF RefreshFails, timeVars
<1>9. ASSUME NEW w \in Workers, Shutdown(w)
      PROVE  DarkInv'
  <2>1. RefreshPending => RefreshPending'
    BY <1>9, <1>t, <1>q DEF Shutdown, RefreshPending
  <2> QED
    BY <1>9, <2>1, <1>1 DEF Shutdown, timeVars, history
<1>10. ASSUME NEW w \in Workers, DeleteKey(w)
       PROVE  DarkInv'
  BY <1>10, <1>1, <1>t DEF DeleteKey, queueVars, timeVars, history, RefreshPending
<1>11. ASSUME NEW w \in Workers, Crash(w) \/ Block(w)
       PROVE  DarkInv'
  <2>1. CASE at[w] = "idle"
    <3>1. RefreshPending => RefreshPending'
      BY <1>11, <2>1, <1>t DEF Crash, Block, queueVars, RefreshPending
    <3> QED
      BY <1>11, <2>1, <3>1, <1>1 DEF Crash, Block, timeVars
  <2>2. CASE at[w] # "idle"
    BY <1>11, <2>2, <1>2 DEF Crash, Block, timeVars
  <2> QED
    BY <2>1, <2>2
<1>12. CASE RepeatHeld
  BY <1>12, <1>1, <1>q DEF RepeatHeld, workerVars, timeVars, history, RefreshPending
<1>13. ASSUME NEW w \in Workers, Fill(w)
       PROVE  DarkInv'
  BY <1>13, <1>1, <1>t DEF Fill, queueVars, timeVars, history, RefreshPending
<1>14. ASSUME NEW w \in Workers, Relieve(w)
       PROVE  DarkInv'
  <2>1. due > 0 => due' > 0
    BY <1>14, <1>q DEF Relieve
  <2>2. \A v \in Workers : load[v] # "blocked" => load'[v] # "blocked"
    BY <1>14, <1>t DEF Relieve
  <2>3. RefreshPending => RefreshPending'
    BY <1>14, <2>1, <2>2 DEF Relieve, RefreshPending
  <2> QED
    BY <1>14, <2>3, <1>1 DEF Relieve, timeVars, history
<1>15. CASE Tick
  <2>1. /\ dark' \in Nat /\ dark' <= dark + 1 /\ lost' = lost /\ phase' = (phase + 1) % Period
        /\ (\A w \in Workers : ~Responsive(w)') => dark' = 0
        /\ \A w \in Workers : Responsive(w)' = Responsive(w)
    BY <1>15, <1>t DEF Tick, workerVars, Responsive
  <2>2. CASE dark' = 0
    <3>1. phase' \in Nat
      BY <2>1, <1>t
    <3> QED
      BY <2>1, <2>2, <3>1, <1>t DEF DarkInv
  <2>3. CASE dark' # 0
    <3>1. PICK w \in Workers : Responsive(w)
      BY <2>1, <2>3
    <3>2. ~RefreshPending
      <4>1. ~(due > 0)
        BY <1>15, <3>1 DEF Tick, Urgent
      <4>2. \A v \in Workers : ~(state[v] = "up" /\ at[v] = "hset" /\ load[v] # "blocked")
        BY <1>15 DEF Tick, Urgent, Alive
      <4> QED
        BY <4>1, <4>2 DEF RefreshPending
    <3>3. dark' <= Period * lost + phase + 1
      BY <2>1, <3>2, <1>t DEF DarkInv
    <3>4. CASE phase + 1 < Period
      <4>1. phase' = phase + 1
        BY <2>1, <3>4, <1>t
      <4> QED
        BY <4>1, <3>3, <2>1, <1>t DEF DarkInv
    <3>5. CASE phase + 1 = Period
      <4>1. phase' = 0
        BY <2>1, <3>5, <1>t
      <4>2. due' = Queued(due)
        BY <1>15, <3>1, <4>1 DEF Tick, QueueRefresh, Responsive, Polls
      <4>3. RefreshPending'
        BY <4>2, <1>q DEF RefreshPending
      <4> QED
        BY <4>1, <4>3, <3>3, <3>5, <2>1, <1>t DEF DarkInv
    <3> QED
      BY <3>4, <3>5, <1>t
  <2> QED
    BY <2>2, <2>3
<1>16. CASE UNCHANGED vars
  BY <1>16, <1>1 DEF vars, workerVars, queueVars, timeVars, history, RefreshPending
<1> QED
  BY <1>4, <1>5, <1>6, <1>7, <1>8, <1>9, <1>10, <1>11, <1>12, <1>13, <1>14, <1>15, <1>16
     DEF Next

\* A responsive worker is missed for at most a period, and one more for every
\* refresh that was lost.
THEOREM OutagesEnd == Spec => []OutageBounded
<1>1. Init => DarkInv
  <2> SUFFICES ASSUME Init
               PROVE  DarkInv
    OBVIOUS
  <2>1. dark = 0 /\ phase = 0 /\ lost = 0 /\ Period * 0 = 0
    BY TimingAssumption DEF Init
  <2> QED
    BY <2>1 DEF DarkInv
<1>2. TypeInv /\ DarkInv => OutageBounded
  <2> SUFFICES ASSUME TypeInv, DarkInv
               PROVE  dark <= Period * (1 + lost)
    BY DEF OutageBounded
  <2>1. /\ dark \in Nat /\ lost \in Nat /\ phase \in 0 .. Period - 1 /\ Period \in Nat
        /\ Period * lost \in Nat /\ Period * (1 + lost) = Period * lost + Period
    BY TimingAssumption, Product DEF TypeInv, TypeOK
  <2> QED
    BY <2>1 DEF DarkInv
<1> QED
  BY TypeInit, TypeStep, <1>1, DarkStep, <1>2, PTL DEF Spec

-----------------------------------------------------------------------------
(* The counters of RateLimit, for any number of requests and keys, any limits, *)
(* any window and any number of restarts of Redis.                             *)

RateType ==
    /\ count \in [Keys -> Nat] /\ ttl \in [Keys -> Nat]
    /\ LimiterTypeOK

\* A request of either kind knows its key.
LEMMA RequestType ==
  ASSUME RateType, NEW q \in Requests, req[q] # Idle
  PROVE  req[q] \in InFlight /\ req[q].key \in Keys
<1>1. req[q] \in InFlight
  BY DEF RateType, LimiterTypeOK
<1> QED
  BY <1>1 DEF InFlight

\* A request on its way sends its next command, or dies.
LEMMA RequestAt ==
  ASSUME RateType, NEW q \in Requests, req[q].at \in {"expire", "answer"}
  PROVE  req[q] # Idle
BY DEF Idle

\* What INCR does, according to what it answers.
LEMMA IncrType ==
  ASSUME RateType, NEW q \in Requests, NEW k \in Keys, Incr(q, k)
  PROVE  /\ count' = [count EXCEPT ![k] = IF count[k] <= Limit[k] THEN count[k] + 1
                                          ELSE count[k]]
         /\ count'[k] = IF count[k] <= Limit[k] THEN count[k] + 1 ELSE count[k]
         /\ \A j \in Keys : j # k => count'[j] = count[j]
         /\ admitted' = IF count[k] < Limit[k] THEN [admitted EXCEPT ![k][1] = @ + 1]
                        ELSE admitted
         /\ Limit[k] \in Nat \ {0} /\ count[k] \in Nat
         /\ req[q] = Idle
         /\ req' = [req EXCEPT ![q] = [at |-> IF count[k] = 0 THEN "expire" ELSE "answer",
                                       key |-> k]]
         /\ UNCHANGED <<ttl, restarts, forgone>>
<1>1. Limit[k] \in Nat \ {0} /\ count[k] \in Nat
  BY LimitAssumption DEF RateType
<1>2. /\ count[k] + 1 <= Limit[k] + 1 <=> count[k] <= Limit[k]
      /\ count[k] + 1 <= Limit[k] <=> count[k] < Limit[k]
      /\ count[k] + 1 = 1 <=> count[k] = 0
  BY <1>1
<1>3. /\ count' = [count EXCEPT ![k] = IF count[k] + 1 <= Limit[k] + 1 THEN count[k] + 1
                                       ELSE count[k]]
      /\ admitted' = IF count[k] + 1 <= Limit[k] THEN [admitted EXCEPT ![k][1] = @ + 1]
                     ELSE admitted
      /\ req[q] = Idle
      /\ req' = [req EXCEPT ![q] = [at |-> IF count[k] + 1 = 1 THEN "expire" ELSE "answer",
                                    key |-> k]]
      /\ UNCHANGED <<ttl, restarts, forgone>>
  BY DEF Incr, Admitted, SetsExpiry
<1>4. count' = [count EXCEPT ![k] = IF count[k] <= Limit[k] THEN count[k] + 1 ELSE count[k]]
  BY <1>2, <1>3
<1>5. /\ count'[k] = IF count[k] <= Limit[k] THEN count[k] + 1 ELSE count[k]
      /\ \A j \in Keys : j # k => count'[j] = count[j]
  BY <1>4 DEF RateType
<1> QED
  BY <1>1, <1>2, <1>3, <1>4, <1>5

\* The counts of the last ticks when one more request is let in.
LEMMA AdmittedType ==
  ASSUME NEW f \in [1 .. Window -> Nat]
  PROVE  /\ Window \in Nat \ {0} /\ 1 \in 1 .. Window
         /\ [f EXCEPT ![1] = @ + 1] \in [1 .. Window -> Nat]
         /\ [n \in 1 .. Window |-> IF n = 1 THEN 0 ELSE f[n - 1]] \in [1 .. Window -> Nat]
<1>1. Window \in Nat \ {0} /\ 1 \in 1 .. Window
  BY WindowAssumption
<1>2. [f EXCEPT ![1] = @ + 1] \in [1 .. Window -> Nat]
  BY <1>1
<1>3. \A n \in 1 .. Window : (IF n = 1 THEN 0 ELSE f[n - 1]) \in Nat
  BY <1>1
<1> QED
  BY <1>1, <1>2, <1>3

LEMMA RateTypeStep == RateType /\ [LimiterNext]_limiterVars => RateType'
<1> SUFFICES ASSUME RateType, [LimiterNext]_limiterVars
             PROVE  RateType'
  OBVIOUS
<1>1. /\ count \in [Keys -> Nat] /\ ttl \in [Keys -> Nat]
      /\ \A k \in Keys : count[k] \in 0 .. (Limit[k] + 1) /\ ttl[k] \in 0 .. Window
      /\ req \in [Requests -> InFlight \cup {Idle}]
      /\ restarts \in 0 .. MaxRestarts
      /\ admitted \in [Keys -> [1 .. Window -> Nat]]
      /\ forgone \subseteq Keys
      /\ Limit \in [Keys -> Nat \ {0}] /\ Window \in Nat \ {0} /\ MaxRestarts \in Nat
  BY LimitAssumption, WindowAssumption, MaxRestartsAssumption DEF RateType, LimiterTypeOK
<1>2. CASE UNCHANGED limiterVars
  BY <1>2 DEF limiterVars, RateType, LimiterTypeOK
<1>3. ASSUME NEW q \in Requests, NEW k \in Keys, Incr(q, k)
      PROVE  RateType'
  <2>1. /\ count' = [count EXCEPT ![k] = IF count[k] <= Limit[k] THEN count[k] + 1
                                         ELSE count[k]]
        /\ admitted' = IF count[k] < Limit[k] THEN [admitted EXCEPT ![k][1] = @ + 1]
                       ELSE admitted
        /\ req' = [req EXCEPT ![q] = [at |-> IF count[k] = 0 THEN "expire" ELSE "answer",
                                      key |-> k]]
        /\ UNCHANGED <<ttl, restarts, forgone>>
    BY <1>3, IncrType
  <2>2. count' \in [Keys -> Nat] /\ \A j \in Keys : count'[j] \in 0 .. (Limit[j] + 1)
    <3> DEFINE c == IF count[k] <= Limit[k] THEN count[k] + 1 ELSE count[k]
    <3>1. c \in 0 .. (Limit[k] + 1)
      BY <1>1
    <3>2. c \in Nat /\ count' = [count EXCEPT ![k] = c]
      BY <1>1, <2>1, <3>1
    <3> HIDE DEF c
    <3> QED
      BY <1>1, <3>1, <3>2
  <2>3. admitted' \in [Keys -> [1 .. Window -> Nat]]
    <3> DEFINE more == [admitted[k] EXCEPT ![1] = @ + 1]
    <3>1. more \in [1 .. Window -> Nat]
      BY <1>1, AdmittedType
    <3>2. admitted' = [admitted EXCEPT ![k] = more] \/ admitted' = admitted
      BY <2>1
    <3> HIDE DEF more
    <3> QED
      BY <1>1, <3>1, <3>2
  <2>4. req' \in [Requests -> InFlight \cup {Idle}]
    <3> DEFINE r == [at |-> IF count[k] = 0 THEN "expire" ELSE "answer", key |-> k]
    <3>1. r \in InFlight
      BY DEF InFlight
    <3> HIDE DEF r
    <3>2. req' = [req EXCEPT ![q] = r]
      BY <2>1 DEF r
    <3> QED
      BY <1>1, <3>1, <3>2
  <2> QED
    BY <1>1, <2>1, <2>2, <2>3, <2>4 DEF RateType, LimiterTypeOK
<1>4. ASSUME NEW q \in Requests, ExpireKey(q)
      PROVE  RateType'
  <2> DEFINE k == req[q].key
             r == [req[q] EXCEPT !.at = "answer"]
  <2>1. req[q] \in InFlight /\ k \in Keys
    BY <1>4, RequestAt, RequestType DEF ExpireKey
  <2>2. r \in InFlight /\ req' = [req EXCEPT ![q] = r]
    BY <1>4, <2>1 DEF ExpireKey, InFlight
  <2> HIDE DEF k, r
  <2>3. /\ ttl' = [ttl EXCEPT ![k] = Window] \/ ttl' = ttl
        /\ forgone' = forgone \ {k}
        /\ UNCHANGED <<count, restarts, admitted>>
    BY <1>4 DEF ExpireKey, k
  <2>4. req' \in [Requests -> InFlight \cup {Idle}]
    BY <1>1, <2>2
  <2>5. ttl' \in [Keys -> Nat] /\ \A j \in Keys : ttl'[j] \in 0 .. Window
    <3>1. CASE ttl' = ttl
      BY <1>1, <3>1
    <3>2. CASE ttl' = [ttl EXCEPT ![k] = Window]
      <4>1. Window \in Nat /\ Window \in 0 .. Window
        BY <1>1
      <4> QED
        BY <1>1, <2>1, <3>2, <4>1
    <3> QED
      BY <2>3, <3>1, <3>2
  <2> QED
    BY <1>1, <2>3, <2>4, <2>5 DEF RateType, LimiterTypeOK
<1>5. ASSUME NEW q \in Requests, Answer(q)
      PROVE  RateType'
  <2>1. req' = [req EXCEPT ![q] = Idle]
        /\ UNCHANGED <<count, ttl, restarts, admitted, forgone>>
    BY <1>5 DEF Answer
  <2>2. req' \in [Requests -> InFlight \cup {Idle}]
    BY <1>1, <2>1
  <2> QED
    BY <1>1, <2>1, <2>2 DEF RateType, LimiterTypeOK
<1>6. ASSUME NEW q \in Requests, Die(q)
      PROVE  RateType'
  <2>1. /\ req' = [req EXCEPT ![q] = Idle]
        /\ forgone' = forgone \cup {req[q].key} \/ forgone' = forgone
        /\ UNCHANGED <<count, ttl, restarts, admitted>> /\ req[q] # Idle
    BY <1>6 DEF Die
  <2>2. req' \in [Requests -> InFlight \cup {Idle}]
    BY <1>1, <2>1
  <2>3. forgone' \subseteq Keys
    BY <1>1, <2>1, RequestType
  <2> QED
    BY <1>1, <2>1, <2>2, <2>3 DEF RateType, LimiterTypeOK
<1>7. CASE RedisRestarts
  BY <1>1, <1>7 DEF RedisRestarts, RateType, LimiterTypeOK
<1>8. CASE LimiterTick
  <2>1. /\ ttl' = [k \in Keys |-> IF ttl[k] > 0 THEN ttl[k] - 1 ELSE 0]
        /\ count' = [k \in Keys |-> IF k \in {j \in Keys : ttl[j] = 1} THEN 0 ELSE count[k]]
        /\ admitted' = [k \in Keys |-> [n \in 1 .. Window |->
                            IF n = 1 THEN 0 ELSE admitted[k][n - 1]]]
        /\ UNCHANGED <<req, restarts, forgone>>
    BY <1>8 DEF LimiterTick
  <2>2. ttl' \in [Keys -> Nat] /\ \A k \in Keys : ttl'[k] \in 0 .. Window
    <3>1. \A k \in Keys : (IF ttl[k] > 0 THEN ttl[k] - 1 ELSE 0) \in 0 .. Window
      BY <1>1
    <3> QED
      BY <2>1, <3>1
  <2>3. count' \in [Keys -> Nat] /\ \A k \in Keys : count'[k] \in 0 .. (Limit[k] + 1)
    BY <1>1, <2>1
  <2>4. admitted' \in [Keys -> [1 .. Window -> Nat]]
    <3>1. \A k \in Keys : [n \in 1 .. Window |-> IF n = 1 THEN 0 ELSE admitted[k][n - 1]]
                             \in [1 .. Window -> Nat]
      BY <1>1, AdmittedType
    <3> QED
      BY <2>1, <3>1
  <2> QED
    BY <1>1, <2>1, <2>2, <2>3, <2>4 DEF RateType, LimiterTypeOK
<1> QED
  BY <1>2, <1>3, <1>4, <1>5, <1>6, <1>7, <1>8 DEF LimiterNext, RequestStep

LEMMA RateTypeInit == LimiterInit => RateType
BY LimitAssumption, WindowAssumption, MaxRestartsAssumption
   DEF LimiterInit, RateType, LimiterTypeOK

\* The counters, the requests and the history have their types.
THEOREM LimiterTypeCorrect == LimiterSpec => []LimiterTypeOK
<1>1. LimiterInit => RateType
  BY RateTypeInit
<1>2. RateType /\ [LimiterNext]_limiterVars => RateType'
  BY RateTypeStep
<1>3. RateType => LimiterTypeOK
  BY DEF RateType
<1> QED
  BY <1>1, <1>2, <1>3, PTL DEF LimiterSpec

\* A counter without an expiry is about to get one, or its request did not live to set
\* it (CountersExpire).
THEOREM ExpiriesAreSet == LimiterSpec => []CountersExpire
<1>1. LimiterInit => RateType /\ CountersExpire
  BY RateTypeInit DEF LimiterInit, CountersExpire
<1>2. RateType /\ CountersExpire /\ [LimiterNext]_limiterVars => RateType' /\ CountersExpire'
  <2> SUFFICES ASSUME RateType, CountersExpire, [LimiterNext]_limiterVars
               PROVE  CountersExpire'
    BY RateTypeStep
  <2>1. /\ req \in [Requests -> InFlight \cup {Idle}]
        /\ count \in [Keys -> Nat] /\ ttl \in [Keys -> Nat] /\ Window \in Nat \ {0}
    BY WindowAssumption DEF RateType, LimiterTypeOK
  <2> SUFFICES ASSUME NEW k \in Keys, count'[k] > 0, ttl'[k] = 0, k \notin forgone'
               PROVE  \E q \in Requests : req'[q] = [at |-> "expire", key |-> k]
    BY DEF CountersExpire
  <2>2. ASSUME count[k] > 0, ttl[k] = 0, k \notin forgone
        PROVE  \E q \in Requests : req[q] = [at |-> "expire", key |-> k]
    BY <2>2 DEF CountersExpire
  <2>3. CASE UNCHANGED limiterVars
    BY <2>2, <2>3 DEF limiterVars
  <2>4. ASSUME NEW q \in Requests, NEW j \in Keys, Incr(q, j)
        PROVE  \E p \in Requests : req'[p] = [at |-> "expire", key |-> k]
    <3>1. /\ req[q] = Idle
          /\ req' = [req EXCEPT ![q] = [at |-> IF count[j] = 0 THEN "expire" ELSE "answer",
                                        key |-> j]]
          /\ \A i \in Keys : i # j => count'[i] = count[i]
          /\ UNCHANGED <<ttl, forgone>>
      BY <2>4, IncrType
    <3>2. CASE j = k /\ count[k] = 0
      BY <2>1, <3>1, <3>2
    <3>3. CASE ~(j = k /\ count[k] = 0)
      <4>1. count[k] > 0
        BY <2>1, <3>1, <3>3
      <4>2. PICK p \in Requests : req[p] = [at |-> "expire", key |-> k]
        BY <2>2, <3>1, <4>1
      <4>3. p # q
        BY <3>1, <4>2 DEF Idle
      <4> QED
        BY <2>1, <3>1, <4>2, <4>3
    <3> QED
      BY <3>2, <3>3
  <2>5. ASSUME NEW q \in Requests, ExpireKey(q)
        PROVE  \E p \in Requests : req'[p] = [at |-> "expire", key |-> k]
    <3>1. /\ req[q].at = "expire" /\ req[q].key \in Keys
          /\ ttl' = IF count[req[q].key] > 0 THEN [ttl EXCEPT ![req[q].key] = Window] ELSE ttl
          /\ req' = [req EXCEPT ![q].at = "answer"]
          /\ forgone' = forgone \ {req[q].key} /\ count' = count
      BY <2>5, RequestAt, RequestType DEF ExpireKey
    <3>2. req[q].key # k
      BY <2>1, <3>1
    <3>3. ttl[k] = 0 /\ k \notin forgone
      BY <2>1, <3>1, <3>2
    <3>4. PICK p \in Requests : req[p] = [at |-> "expire", key |-> k]
      BY <2>2, <3>1, <3>3
    <3>5. p # q
      BY <3>2, <3>4
    <3> QED
      BY <2>1, <3>1, <3>4, <3>5
  <2>6. ASSUME NEW q \in Requests, Answer(q)
        PROVE  \E p \in Requests : req'[p] = [at |-> "expire", key |-> k]
    <3>1. /\ req[q].at = "answer" /\ req' = [req EXCEPT ![q] = Idle]
          /\ UNCHANGED <<count, ttl, forgone>>
      BY <2>6 DEF Answer
    <3>2. PICK p \in Requests : req[p] = [at |-> "expire", key |-> k]
      BY <2>2, <3>1
    <3> QED
      BY <2>1, <3>1, <3>2
  <2>7. ASSUME NEW q \in Requests, Die(q)
        PROVE  \E p \in Requests : req'[p] = [at |-> "expire", key |-> k]
    <3>1. /\ req' = [req EXCEPT ![q] = Idle] /\ UNCHANGED <<count, ttl>>
          /\ forgone' = IF req[q].at = "expire" THEN forgone \cup {req[q].key} ELSE forgone
      BY <2>7 DEF Die
    <3>2. PICK p \in Requests : req[p] = [at |-> "expire", key |-> k]
      BY <2>2, <3>1
    <3>3. p # q
      BY <3>1, <3>2
    <3> QED
      BY <2>1, <3>1, <3>2, <3>3
  <2>8. CASE RedisRestarts
    BY <2>8 DEF RedisRestarts
  <2>9. CASE LimiterTick
    <3>1. /\ ttl'[k] = IF ttl[k] > 0 THEN ttl[k] - 1 ELSE 0
          /\ count'[k] = IF ttl[k] = 1 THEN 0 ELSE count[k]
          /\ UNCHANGED <<req, forgone>>
      BY <2>9 DEF LimiterTick
    <3>2. ttl[k] = 0 /\ count[k] > 0
      BY <2>1, <3>1
    <3> QED
      BY <2>2, <3>1, <3>2
  <2> QED
    BY <2>3, <2>4, <2>5, <2>6, <2>7, <2>8, <2>9 DEF LimiterNext, RequestStep
<1> QED
  BY <1>1, <1>2, PTL DEF LimiterSpec

\* What holds of 0 and is inherited by each successor holds of every natural.
LEMMA NatSetInduction ==
  ASSUME NEW S, 0 \in S, \A n \in Nat : n \in S => n + 1 \in S
  PROVE  \A n \in Nat : n \in S
<1> DEFINE R == OpToRel(<, Nat)
           T == Nat \ S
<1> SUFFICES ASSUME T # {} PROVE FALSE
  OBVIOUS
<1>1. PICK x \in T : \A y \in T : ~(<<y, x>> \in R)
  <2>1. IsWellFoundedOn(R, Nat)
    BY NatLessThanWellFounded, Zenon
  <2>2. T \subseteq Nat
    OBVIOUS
  <2> HIDE DEF R, T
  <2> QED
    BY <2>1, <2>2, WFMin
<1>2. x - 1 \in T /\ x - 1 < x
  OBVIOUS
<1>3. <<x - 1, x>> \in R
  BY <1>2 DEF OpToRel
<1> QED
  BY <1>1, <1>2, <1>3

\* The sums of what the ticks let in are defined by their recursion.
LEMMA SumEquations ==
  ASSUME NEW f \in [1 .. Window -> Nat]
  PROVE  /\ Sum(f) \in [0 .. Window -> Nat]
         /\ Sum(f)[0] = 0
         /\ \A n \in 1 .. Window : Sum(f)[n] = Sum(f)[n - 1] + f[n]
<1> DEFINE Adds(s, m) == /\ s[0] = 0
                         /\ \A n \in 1 .. m : s[n] = s[n - 1] + f[n]
           Sums(m) == {s \in [0 .. m -> Nat] : Adds(s, m)}
           S == {m \in Nat : m <= Window => Sums(m) # {}}
<1>1. Window \in Nat \ {0}
  BY WindowAssumption
<1>2. 0 \in S
  <2>1. [n \in 0 .. 0 |-> 0] \in Sums(0)
    OBVIOUS
  <2> QED
    BY <2>1
<1>3. ASSUME NEW m \in Nat, m \in S PROVE m + 1 \in S
  <2> SUFFICES ASSUME m + 1 <= Window
               PROVE  Sums(m + 1) # {}
    <3> HIDE DEF Sums
    <3> QED
      OBVIOUS
  <2>1. PICK s \in Sums(m) : TRUE
    <3> HIDE DEF Sums
    <3> QED
      BY <1>1, <1>3
  <2> DEFINE t == [n \in 0 .. m + 1 |-> IF n = m + 1 THEN s[m] + f[m + 1] ELSE s[n]]
  <2>2. m \in 0 .. m /\ m + 1 \in 1 .. Window
    BY <1>1
  <2>3. s[m] \in Nat /\ f[m + 1] \in Nat
    BY <2>2
  <2>4. t \in [0 .. m + 1 -> Nat]
    BY <2>3
  <2>5. t[m + 1] = s[m] + f[m + 1] /\ \A n \in 0 .. m : t[n] = s[n]
    OBVIOUS
  <2> HIDE DEF t
  <2>6. t[0] = 0
    BY <2>1, <2>5
  <2>7. ASSUME NEW n \in 1 .. m + 1 PROVE t[n] = t[n - 1] + f[n]
    <3>1. CASE n = m + 1
      BY <2>5, <3>1
    <3>2. CASE n \in 1 .. m
      <4>1. n \in 0 .. m /\ n - 1 \in 0 .. m
        BY <3>2
      <4> QED
        BY <2>1, <2>5, <3>2, <4>1
    <3> QED
      BY <3>1, <3>2
  <2>8. t \in Sums(m + 1)
    BY <2>4, <2>6, <2>7
  <2> QED
    BY <2>8
<1>4. Window \in S
  <2> HIDE DEF S
  <2> QED
    BY <1>1, <1>2, <1>3, NatSetInduction
<1>5. PICK s \in Sums(Window) : TRUE
  <2> HIDE DEF Sums
  <2> QED
    BY <1>1, <1>4
<1>6. s = [n \in 0 .. Window |-> IF n = 0 THEN 0 ELSE s[n - 1] + f[n]]
  <2>1. \A n \in 0 .. Window : s[n] = IF n = 0 THEN 0 ELSE s[n - 1] + f[n]
    BY <1>5
  <2> QED
    BY <2>1
<1> DEFINE sum == CHOOSE g : g = [n \in 0 .. Window |-> IF n = 0 THEN 0 ELSE g[n - 1] + f[n]]
<1>7. Sum(f) = sum
  BY DEF Sum
<1>8. sum = [n \in 0 .. Window |-> IF n = 0 THEN 0 ELSE sum[n - 1] + f[n]]
  BY <1>6
<1> HIDE DEF sum
<1>9. /\ sum[0] = 0
      /\ \A n \in 1 .. Window : sum[n] = sum[n - 1] + f[n]
  <2>1. \A n \in 0 .. Window : sum[n] = IF n = 0 THEN 0 ELSE sum[n - 1] + f[n]
    BY <1>8
  <2> QED
    BY <1>1, <2>1
<1>10. \A n \in 0 .. Window : sum[n] \in Nat
  <2> DEFINE U == {n \in Nat : n <= Window => sum[n] \in Nat}
  <2>1. 0 \in U
    BY <1>9
  <2>2. ASSUME NEW n \in Nat, n \in U PROVE n + 1 \in U
    <3> SUFFICES ASSUME n + 1 <= Window PROVE sum[n + 1] \in Nat
      OBVIOUS
    <3>1. sum[n] \in Nat /\ n + 1 \in 1 .. Window
      BY <1>1, <2>2
    <3>2. f[n + 1] \in Nat /\ sum[n + 1] = sum[n] + f[n + 1]
      BY <1>9, <3>1
    <3> QED
      BY <3>1, <3>2
  <2>3. \A n \in Nat : n \in U
    <3> HIDE DEF U
    <3> QED
      BY <2>1, <2>2, NatSetInduction
  <2> QED
    BY <1>1, <2>3
<1>11. sum \in [0 .. Window -> Nat]
  BY <1>8, <1>10
<1> QED
  BY <1>7, <1>9, <1>11

\* One request more in the current tick is one more in all ticks that include it, and
\* a tick that passes moves the sums by one.
LEMMA SumsMove ==
  ASSUME NEW f \in [1 .. Window -> Nat], NEW g \in [1 .. Window -> Nat]
  PROVE  /\ g = [f EXCEPT ![1] = @ + 1] =>
               \A n \in 1 .. Window : Sum(g)[n] = Sum(f)[n] + 1
         /\ g = [n \in 1 .. Window |-> IF n = 1 THEN 0 ELSE f[n - 1]] =>
               \A n \in 1 .. Window : Sum(g)[n] = Sum(f)[n - 1]
<1> DEFINE F == Sum(f)
           G == Sum(g)
<1>1. Window \in Nat \ {0}
  BY WindowAssumption
<1>2. /\ F \in [0 .. Window -> Nat] /\ F[0] = 0
      /\ \A n \in 1 .. Window : F[n] = F[n - 1] + f[n]
      /\ G \in [0 .. Window -> Nat] /\ G[0] = 0
      /\ \A n \in 1 .. Window : G[n] = G[n - 1] + g[n]
  BY SumEquations
<1> HIDE DEF F, G
<1>3. ASSUME g = [f EXCEPT ![1] = @ + 1]
      PROVE  \A n \in 1 .. Window : G[n] = F[n] + 1
  <2> DEFINE U == {n \in Nat : n + 1 <= Window => G[n + 1] = F[n + 1] + 1}
  <2>1. g[1] = f[1] + 1 /\ \A n \in 2 .. Window : g[n] = f[n]
    BY <1>1, <1>3
  <2>2. 0 \in U
    <3>1. 1 \in 1 .. Window /\ f[1] \in Nat
      BY <1>1
    <3>2. F[1] = 0 + f[1] /\ G[1] = 0 + g[1]
      BY <1>2, <3>1
    <3> QED
      BY <2>1, <3>1, <3>2
  <2>3. ASSUME NEW n \in Nat, n \in U PROVE n + 1 \in U
    <3> SUFFICES ASSUME (n + 1) + 1 <= Window PROVE G[(n + 1) + 1] = F[(n + 1) + 1] + 1
      OBVIOUS
    <3>1. /\ n + 1 \in 0 .. Window /\ n + 2 \in 1 .. Window /\ n + 2 \in 2 .. Window
          /\ (n + 2) - 1 = n + 1 /\ (n + 1) + 1 = n + 2
      BY <1>1
    <3>2. G[n + 1] = F[n + 1] + 1
      BY <2>3, <3>1
    <3>3. G[n + 2] = G[n + 1] + g[n + 2] /\ F[n + 2] = F[n + 1] + f[n + 2]
      BY <1>2, <3>1
    <3>4. g[n + 2] = f[n + 2] /\ f[n + 2] \in Nat /\ F[n + 1] \in Nat
      BY <1>2, <2>1, <3>1
    <3> QED
      BY <3>1, <3>2, <3>3, <3>4
  <2>4. \A n \in Nat : n \in U
    <3> HIDE DEF U
    <3> QED
      BY <2>2, <2>3, NatSetInduction
  <2>5. ASSUME NEW n \in 1 .. Window PROVE G[n] = F[n] + 1
    <3>1. n - 1 \in Nat /\ (n - 1) + 1 = n /\ n <= Window
      BY <1>1
    <3>2. n - 1 \in U
      BY <2>4, <3>1
    <3> QED
      BY <3>1, <3>2
  <2> QED
    BY <2>5
<1>4. ASSUME g = [n \in 1 .. Window |-> IF n = 1 THEN 0 ELSE f[n - 1]]
      PROVE  \A n \in 1 .. Window : G[n] = F[n - 1]
  <2> DEFINE U == {n \in Nat : n + 1 <= Window => G[n + 1] = F[n]}
  <2>1. g[1] = 0 /\ \A n \in 2 .. Window : g[n] = f[n - 1]
    BY <1>1, <1>4
  <2>2. 0 \in U
    <3>1. 1 \in 1 .. Window
      BY <1>1
    <3>2. G[1] = 0 + g[1]
      BY <1>2, <3>1
    <3> QED
      BY <1>2, <2>1, <3>2
  <2>3. ASSUME NEW n \in Nat, n \in U PROVE n + 1 \in U
    <3> SUFFICES ASSUME (n + 1) + 1 <= Window PROVE G[(n + 1) + 1] = F[n + 1]
      OBVIOUS
    <3>1. /\ n + 1 \in 1 .. Window /\ n + 2 \in 1 .. Window /\ n + 2 \in 2 .. Window
          /\ (n + 2) - 1 = n + 1 /\ (n + 1) + 1 = n + 2 /\ (n + 1) - 1 = n
      BY <1>1
    <3>2. G[n + 1] = F[n]
      BY <2>3, <3>1
    <3>3. G[n + 2] = G[n + 1] + g[n + 2] /\ F[n + 1] = F[n] + f[n + 1]
      BY <1>2, <3>1
    <3>4. g[n + 2] = f[n + 1]
      BY <2>1, <3>1
    <3> QED
      BY <3>1, <3>2, <3>3, <3>4
  <2>4. \A n \in Nat : n \in U
    <3> HIDE DEF U
    <3> QED
      BY <2>2, <2>3, NatSetInduction
  <2>5. ASSUME NEW n \in 1 .. Window PROVE G[n] = F[n - 1]
    <3>1. n - 1 \in Nat /\ (n - 1) + 1 = n /\ n <= Window
      BY <1>1
    <3>2. n - 1 \in U
      BY <2>4, <3>1
    <3> QED
      BY <3>1, <3>2
  <2> QED
    BY <2>5
<1> QED
  BY <1>3, <1>4 DEF F, G

\* What a counter has let in since it was created.
Counted(k) == IF count[k] <= Limit[k] THEN count[k] ELSE Limit[k]

\* Besides what the counter has let in, the last Window ticks hold one limit and one
\* more for each restart; and the ticks since its expiry was set hold nothing else.
BurstInv ==
    \A k \in Keys :
        /\ Sum(admitted[k])[Window] <= (1 + restarts) * Limit[k] + Counted(k)
        /\ ttl[k] > 0 => Sum(admitted[k])[Window - ttl[k]] <= Counted(k)

LEMMA Shares ==
  ASSUME NEW r \in Nat, NEW l \in Nat
  PROVE  /\ (1 + r) * l \in Nat /\ l <= (1 + r) * l
         /\ (2 + r) * l = (1 + r) * l + l
         /\ (1 + (r + 1)) * l = (1 + r) * l + l
<1>1. r * l \in Nat /\ (1 + r) * l = l + r * l /\ (2 + r) * l = 2 * l + r * l
  OBVIOUS
<1>2. (1 + (r + 1)) * l = (2 + r) * l
  OBVIOUS
<1> QED
  BY <1>1, <1>2

\* The types of all that the invariant of a key speaks of.
LEMMA BurstType ==
  ASSUME RateType, NEW k \in Keys
  PROVE  /\ count[k] \in Nat /\ ttl[k] \in 0 .. Window /\ Limit[k] \in Nat \ {0}
         /\ Window \in Nat \ {0} /\ restarts \in Nat
         /\ admitted[k] \in [1 .. Window -> Nat]
         /\ Counted(k) \in Nat /\ Counted(k) <= Limit[k]
         /\ Sum(admitted[k]) \in [0 .. Window -> Nat]
         /\ Sum(admitted[k])[0] = 0
         /\ \A n \in 1 .. Window : Sum(admitted[k])[n]
                                     = Sum(admitted[k])[n - 1] + admitted[k][n]
         /\ \A j \in 0 .. Window : Sum(admitted[k])[j] \in Nat
<1>1. /\ count[k] \in Nat /\ ttl[k] \in 0 .. Window /\ Limit[k] \in Nat \ {0}
      /\ Window \in Nat \ {0} /\ restarts \in Nat
      /\ admitted[k] \in [1 .. Window -> Nat]
  BY LimitAssumption, WindowAssumption, MaxRestartsAssumption DEF RateType, LimiterTypeOK
<1>2. /\ Sum(admitted[k]) \in [0 .. Window -> Nat]
      /\ Sum(admitted[k])[0] = 0
      /\ \A n \in 1 .. Window : Sum(admitted[k])[n]
                                  = Sum(admitted[k])[n - 1] + admitted[k][n]
  BY <1>1, SumEquations
<1>3. Counted(k) \in Nat /\ Counted(k) <= Limit[k]
  BY <1>1 DEF Counted
<1>4. \A j \in 0 .. Window : Sum(admitted[k])[j] \in Nat
  BY <1>2
<1> QED
  BY <1>1, <1>2, <1>3, <1>4

LEMMA BurstStep == RateType /\ BurstInv /\ [LimiterNext]_limiterVars => BurstInv'
<1> SUFFICES ASSUME RateType, BurstInv, [LimiterNext]_limiterVars, NEW k \in Keys
             PROVE  /\ Sum(admitted'[k])[Window]
                          <= (1 + restarts') * Limit[k] + Counted(k)'
                    /\ ttl'[k] > 0 =>
                          Sum(admitted'[k])[Window - ttl'[k]] <= Counted(k)'
  BY DEF BurstInv, Sum
<1> DEFINE F == Sum(admitted[k])
           G == Sum(admitted'[k])
           share == (1 + restarts) * Limit[k]
<1>1. /\ count[k] \in Nat /\ ttl[k] \in 0 .. Window /\ Limit[k] \in Nat \ {0}
      /\ Window \in Nat \ {0} /\ restarts \in Nat
      /\ admitted[k] \in [1 .. Window -> Nat]
      /\ Counted(k) \in Nat /\ Counted(k) <= Limit[k]
      /\ F \in [0 .. Window -> Nat] /\ F[0] = 0
      /\ \A n \in 1 .. Window : F[n] = F[n - 1] + admitted[k][n]
      /\ \A j \in 0 .. Window : F[j] \in Nat
  BY BurstType
<1>2. /\ F[Window] <= share + Counted(k)
      /\ ttl[k] > 0 => F[Window - ttl[k]] <= Counted(k)
  BY DEF BurstInv
<1>3. share \in Nat /\ Limit[k] <= share
  BY <1>1, Shares
<1>4. admitted'[k] \in [1 .. Window -> Nat]
  BY RateTypeStep DEF RateType, LimiterTypeOK
<1>5. /\ G \in [0 .. Window -> Nat] /\ G[0] = 0
      /\ \A j \in 0 .. Window : G[j] \in Nat
  BY <1>4, SumEquations
<1>6. /\ admitted'[k] = [admitted[k] EXCEPT ![1] = @ + 1] =>
            \A n \in 1 .. Window : G[n] = F[n] + 1
      /\ admitted'[k] = [n \in 1 .. Window |-> IF n = 1 THEN 0 ELSE admitted[k][n - 1]] =>
            \A n \in 1 .. Window : G[n] = F[n - 1]
      /\ admitted'[k] = admitted[k] => G = F
  BY <1>1, <1>4, SumsMove
<1>7. Counted(k)' = IF count'[k] <= Limit[k] THEN count'[k] ELSE Limit[k]
  BY DEF Counted
<1> HIDE DEF F, G, share
<1>8. SUFFICES /\ G[Window] <= (1 + restarts') * Limit[k] + Counted(k)'
               /\ ttl'[k] > 0 => G[Window - ttl'[k]] <= Counted(k)'
  BY DEF G
<1>9. ASSUME count'[k] = count[k], ttl'[k] = ttl[k], restarts' = restarts,
             admitted'[k] = admitted[k]
      PROVE  /\ G[Window] <= (1 + restarts') * Limit[k] + Counted(k)'
             /\ ttl'[k] > 0 => G[Window - ttl'[k]] <= Counted(k)'
  <2>1. Counted(k)' = Counted(k)
    BY <1>9 DEF Counted
  <2> QED
    BY <1>2, <1>6, <1>9, <2>1 DEF share
<1>10. CASE UNCHANGED limiterVars
  BY <1>9, <1>10 DEF limiterVars
<1>11. ASSUME NEW q \in Requests, NEW j \in Keys, Incr(q, j)
       PROVE  /\ G[Window] <= (1 + restarts') * Limit[k] + Counted(k)'
              /\ ttl'[k] > 0 => G[Window - ttl'[k]] <= Counted(k)'
  <2>1. /\ count'[j] = IF count[j] <= Limit[j] THEN count[j] + 1 ELSE count[j]
        /\ \A i \in Keys : i # j => count'[i] = count[i]
        /\ admitted' = IF count[j] < Limit[j] THEN [admitted EXCEPT ![j][1] = @ + 1]
                       ELSE admitted
        /\ UNCHANGED <<ttl, restarts>>
    BY <1>11, IncrType
  <2>2. admitted \in [Keys -> [1 .. Window -> Nat]]
    BY DEF RateType, LimiterTypeOK
  <2>3. CASE j # k
    <3>1. admitted'[k] = admitted[k]
      BY <2>1, <2>2, <2>3
    <3> QED
      BY <1>9, <2>1, <2>3, <3>1
  <2>4. CASE j = k /\ count[k] < Limit[k]
    <3>1. admitted'[k] = [admitted[k] EXCEPT ![1] = @ + 1]
      BY <2>1, <2>2, <2>4
    <3>2. Counted(k)' = Counted(k) + 1
      BY <1>1, <1>7, <2>1, <2>4 DEF Counted
    <3>3. \A n \in 1 .. Window : G[n] = F[n] + 1
      BY <1>6, <3>1
    <3>4. G[Window] = F[Window] + 1
      BY <1>1, <3>3
    <3>5. G[Window] <= share + Counted(k)'
      BY <1>1, <1>2, <1>3, <3>2, <3>4
    <3>6. ASSUME ttl[k] > 0 PROVE G[Window - ttl[k]] <= Counted(k)'
      <4>1. CASE ttl[k] = Window
        BY <1>1, <1>5, <3>2, <4>1
      <4>2. CASE ttl[k] # Window
        <5>1. Window - ttl[k] \in 1 .. Window
          BY <1>1, <3>6, <4>2
        <5>2. Window - ttl[k] \in 0 .. Window
          BY <1>1, <5>1
        <5>3. G[Window - ttl[k]] = F[Window - ttl[k]] + 1 /\ F[Window - ttl[k]] \in Nat
          BY <1>1, <3>3, <5>1, <5>2
        <5> QED
          BY <1>1, <1>2, <3>2, <3>6, <5>3
      <4> QED
        BY <4>1, <4>2
    <3> QED
      BY <2>1, <3>5, <3>6 DEF share
  <2>5. CASE j = k /\ ~(count[k] < Limit[k])
    <3>1. Counted(k)' = Counted(k) /\ admitted' = admitted
      BY <1>1, <1>7, <2>1, <2>5 DEF Counted
    <3> QED
      BY <1>2, <1>6, <2>1, <3>1 DEF share
  <2> QED
    BY <2>3, <2>4, <2>5
<1>12. ASSUME NEW q \in Requests, ExpireKey(q)
       PROVE  /\ G[Window] <= (1 + restarts') * Limit[k] + Counted(k)'
              /\ ttl'[k] > 0 => G[Window - ttl'[k]] <= Counted(k)'
  <2>1. /\ ttl' = [ttl EXCEPT ![req[q].key] = Window] \/ ttl' = ttl
        /\ UNCHANGED <<count, restarts, admitted>>
    BY <1>12 DEF ExpireKey
  <2>2. ttl'[k] = Window \/ ttl'[k] = ttl[k]
    BY <2>1 DEF RateType
  <2>3. Counted(k)' = Counted(k) /\ G = F
    BY <1>6, <2>1 DEF Counted
  <2>4. ttl'[k] = Window => G[Window - ttl'[k]] <= Counted(k)
    BY <1>1, <1>5
  <2> QED
    BY <1>2, <2>1, <2>2, <2>3, <2>4 DEF share
<1>13. ASSUME NEW q \in Requests, Answer(q) \/ Die(q)
       PROVE  /\ G[Window] <= (1 + restarts') * Limit[k] + Counted(k)'
              /\ ttl'[k] > 0 => G[Window - ttl'[k]] <= Counted(k)'
  BY <1>9, <1>13 DEF Answer, Die
<1>14. CASE RedisRestarts
  <2>1. count'[k] = 0 /\ ttl'[k] = 0 /\ restarts' = restarts + 1 /\ admitted' = admitted
    BY <1>14 DEF RedisRestarts
  <2>2. Counted(k)' = 0 /\ G = F
    BY <1>1, <1>6, <1>7, <2>1
  <2>3. (1 + restarts') * Limit[k] = share + Limit[k]
    BY <1>1, <2>1, Shares DEF share
  <2>4. F[Window] \in Nat
    BY <1>1
  <2>5. G[Window] <= (1 + restarts') * Limit[k] + Counted(k)'
    BY <1>1, <1>2, <1>3, <2>2, <2>3, <2>4
  <2> QED
    BY <2>1, <2>5
<1>15. CASE LimiterTick
  <2>1. /\ ttl'[k] = IF ttl[k] > 0 THEN ttl[k] - 1 ELSE 0
        /\ count'[k] = IF ttl[k] = 1 THEN 0 ELSE count[k]
        /\ admitted'[k] = [n \in 1 .. Window |-> IF n = 1 THEN 0 ELSE admitted[k][n - 1]]
        /\ restarts' = restarts
    BY <1>15 DEF LimiterTick
  <2>2. \A n \in 1 .. Window : G[n] = F[n - 1]
    BY <1>6, <2>1
  <2>3. /\ G[Window] = F[Window - 1] /\ F[Window] = F[Window - 1] + admitted[k][Window]
        /\ admitted[k][Window] \in Nat /\ F[Window - 1] \in Nat
    <3>1. Window \in 1 .. Window /\ Window - 1 \in 0 .. Window
      BY <1>1
    <3> QED
      BY <1>1, <2>2, <3>1
  <2>4. CASE ttl[k] = 1
    <3>1. ttl'[k] = 0 /\ Counted(k)' = 0
      BY <1>1, <1>7, <2>1, <2>4
    <3>2. F[Window - 1] <= Counted(k)
      BY <1>2, <2>4
    <3>3. G[Window] <= share + Counted(k)'
      BY <1>1, <1>3, <2>3, <3>1, <3>2
    <3> QED
      BY <2>1, <3>1, <3>3 DEF share
  <2>5. CASE ttl[k] # 1
    <3>1. Counted(k)' = Counted(k)
      BY <2>1, <2>5 DEF Counted
    <3>2. G[Window] <= share + Counted(k)'
      BY <1>1, <1>2, <1>3, <2>3, <3>1
    <3>3. ASSUME ttl'[k] > 0 PROVE G[Window - ttl'[k]] <= Counted(k)'
      <4>1. ttl'[k] = ttl[k] - 1 /\ ttl[k] > 0 /\ ttl[k] \in 2 .. Window
        BY <1>1, <2>1, <2>5, <3>3
      <4>2. Window - ttl'[k] \in 1 .. Window /\ (Window - ttl'[k]) - 1 = Window - ttl[k]
        <5>1. PICK t \in 2 .. Window : t = ttl[k]
          BY <4>1
        <5>2. Window - (t - 1) \in 1 .. Window /\ (Window - (t - 1)) - 1 = Window - t
          BY <1>1
        <5> QED
          BY <4>1, <5>1, <5>2
      <4>3. G[Window - ttl'[k]] = F[Window - ttl[k]]
        BY <2>2, <4>2
      <4> QED
        BY <1>2, <3>1, <4>1, <4>3
    <3> QED
      BY <2>1, <3>2, <3>3 DEF share
  <2> QED
    BY <2>4, <2>5
<1> QED
  BY <1>10, <1>11, <1>12, <1>13, <1>14, <1>15 DEF LimiterNext, RequestStep

\* No span of Window ticks lets in more of a client's requests than twice the limit, and
\* one limit more for each restart of Redis (BurstBounded).
THEOREM BurstsAreBounded == LimiterSpec => []BurstBounded
<1>1. LimiterInit => RateType /\ BurstInv
  <2> SUFFICES ASSUME LimiterInit, NEW k \in Keys
               PROVE  /\ Sum(admitted[k])[Window]
                            <= (1 + restarts) * Limit[k] + Counted(k)
                      /\ ~(ttl[k] > 0)
    BY RateTypeInit DEF BurstInv
  <2> DEFINE F == Sum(admitted[k])
  <2>1. /\ F \in [0 .. Window -> Nat] /\ F[0] = 0
        /\ \A n \in 1 .. Window : F[n] = F[n - 1] + admitted[k][n]
        /\ Window \in Nat \ {0} /\ Counted(k) \in Nat /\ Limit[k] \in Nat
        /\ restarts \in Nat
    BY RateTypeInit, BurstType
  <2>2. /\ \A n \in 1 .. Window : admitted[k][n] = 0
        /\ ttl[k] = 0
    BY DEF LimiterInit
  <2> HIDE DEF F
  <2> DEFINE U == {n \in Nat : n <= Window => F[n] = 0}
  <2>3. 0 \in U
    BY <2>1
  <2>4. ASSUME NEW n \in Nat, n \in U PROVE n + 1 \in U
    <3> SUFFICES ASSUME n + 1 <= Window PROVE F[n + 1] = 0
      OBVIOUS
    <3>1. F[n] = 0 /\ n + 1 \in 1 .. Window /\ (n + 1) - 1 = n
      BY <2>1, <2>4
    <3>2. F[n + 1] = F[n] + admitted[k][n + 1]
      BY <2>1, <3>1
    <3> QED
      BY <2>2, <3>1, <3>2
  <2>5. \A n \in Nat : n \in U
    <3> HIDE DEF U
    <3> QED
      BY <2>3, <2>4, NatSetInduction
  <2>6. F[Window] = 0
    BY <2>1, <2>5
  <2>7. (1 + restarts) * Limit[k] \in Nat
    BY <2>1, Shares
  <2> QED
    BY <2>1, <2>2, <2>6, <2>7 DEF F
<1>2. RateType /\ BurstInv /\ [LimiterNext]_limiterVars => RateType' /\ BurstInv'
  BY RateTypeStep, BurstStep
<1>3. RateType /\ BurstInv => BurstBounded
  <2> SUFFICES ASSUME RateType, BurstInv, NEW k \in Keys
               PROVE  Sum(admitted[k])[Window] <= (2 + restarts) * Limit[k]
    BY DEF BurstBounded
  <2> DEFINE total == Sum(admitted[k])[Window]
             share == (1 + restarts) * Limit[k]
  <2>1. /\ Counted(k) \in Nat /\ Counted(k) <= Limit[k] /\ Limit[k] \in Nat
        /\ restarts \in Nat /\ Window \in Nat \ {0}
        /\ \A j \in 0 .. Window : Sum(admitted[k])[j] \in Nat
    BY BurstType
  <2>2. total \in Nat /\ total <= share + Counted(k)
    BY <2>1 DEF BurstInv
  <2>3. share \in Nat /\ (2 + restarts) * Limit[k] = share + Limit[k]
    BY <2>1, Shares
  <2> HIDE DEF total, share
  <2>4. total <= (2 + restarts) * Limit[k]
    BY <2>1, <2>2, <2>3
  <2> QED
    BY <2>4 DEF total
<1> QED
  BY <1>1, <1>2, <1>3, PTL DEF LimiterSpec
=============================================================================
