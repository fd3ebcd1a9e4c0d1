-------------------------- MODULE WorkerHeartbeat --------------------------
(***************************************************************************)
(* The heartbeat key that the workers share and the readiness check of the *)
(* API that reads it: worker/src/main.py and api/src/main.py.              *)
(*                                                                         *)
(* Every worker writes the one hash when it starts, one of them rewrites   *)
(* it whenever the cron job comes due, and every worker that shuts down    *)
(* deletes it.  A write is two commands, HSET and EXPIRE, and a worker may *)
(* crash, stop, or have its event loop blocked between them.               *)
(*                                                                         *)
(* Time is counted in units (15 seconds in the checked instance) and only  *)
(* as ages, so that it needs no bound.  Redis and a responsive worker are  *)
(* fast: a unit passes only when no responsive worker has anything to do.  *)
(***************************************************************************)
EXTENDS Integers

CONSTANTS
    Workers,    \* processes running "arq src.main.WorkerSettings"
    Period,     \* units between two ticks of the cron job (30 s)
    Expire,     \* _HEARTBEAT_EXPIRE_SECONDS in units (60 s)
    Stale,      \* the age from which a heartbeat no longer counts (90 s)
    Skews,      \* clock of the API minus clock of the workers, in units
    MaxQueued,  \* bound: refreshes waiting in the queue
    MaxLost     \* bound: refreshes lost since the last heartbeat

ASSUME TimingAssumption ==
    /\ Period \in Nat \ {0} /\ Expire \in Nat /\ Stale \in Nat
    /\ Period < Expire /\ Expire <= Stale
    /\ MaxQueued \in Nat \ {0} /\ MaxLost \in Nat
    /\ Skews \subseteq {s \in Int : s + Period < Stale}

VARIABLES
    state,    \* life of each worker process
    at,       \* next command of a worker's _set_heartbeat, if it runs one
    load,     \* "full": max_jobs jobs run; "blocked": one holds the event loop
    key,      \* the hash in Redis, or Absent
    due,      \* queued runs of heartbeat_refresh
    owed,     \* workers that were blocked at a tick which nobody queued
    held,     \* a run died with its worker; ARQ repeats it later
    phase,    \* units since the last tick
    skew,     \* chosen once
    crashed,  \* history: workers whose last life ended without shutdown()
    quiet,    \* history: units since a worker was last alive, up to Stale
    dark,     \* history: units of a wrong "no worker" in a row
    lost      \* history: refreshes lost since the last HSET

workerVars == <<state, at, load>>
queueVars == <<due, owed, held>>
timeVars == <<phase, skew>>
history == <<crashed, quiet, dark, lost>>
vars == <<workerVars, key, queueVars, timeVars, history>>

Absent == [owner |-> "none"]
NoExpiry == 0

TypeOK ==
    /\ state \in [Workers -> {"down", "starting", "up", "stopping"}]
    /\ at \in [Workers -> {"idle", "hset", "expire"}]
    /\ load \in [Workers -> {"free", "full", "blocked"}]
    /\ key \in {Absent} \cup [owner : Workers, age : Nat, ttl : NoExpiry .. Expire]
    /\ due \in 0 .. MaxQueued /\ owed \subseteq Workers /\ held \in BOOLEAN
    /\ phase \in 0 .. Period - 1 /\ skew \in Skews
    /\ crashed \subseteq Workers
    /\ quiet \in 0 .. Stale /\ dark \in Nat /\ lost \in 0 .. MaxLost

Alive(w) == state[w] # "down"
Polls(w) == state[w] = "up" /\ load[w] # "blocked"
Responsive(w) == state[w] = "up" /\ load[w] = "free"

\* Mutant: any heartbeat will do, however old.
HasHeartbeat == key # Absent

\* The worker part of readiness(): a heartbeat younger than 90 seconds on
\* the clock of the API.
WorkerCheck ==
    /\ key # Absent
    /\ key.age + skew < Stale

Init ==
    /\ state = [w \in Workers |-> "down"]
    /\ at = [w \in Workers |-> "idle"]
    /\ load = [w \in Workers |-> "free"]
    /\ key = Absent
    /\ due = 0 /\ owed = {} /\ held = FALSE
    /\ phase = 0 /\ skew \in Skews
    /\ crashed = {} /\ quiet = Stale /\ dark = 0 /\ lost = 0

Queued(n) == IF n < MaxQueued THEN n + 1 ELSE n

-----------------------------------------------------------------------------
(* The life of a worker. *)

\* startup(): the process begins with a heartbeat.
Start(w) ==
    /\ state[w] = "down"
    /\ state' = [state EXCEPT ![w] = "starting"]
    /\ at' = [at EXCEPT ![w] = "hset"]
    /\ crashed' = crashed \ {w}
    /\ quiet' = 0
    /\ UNCHANGED <<load, key, queueVars, timeVars, dark, lost>>

\* ARQ hands the cron job to a worker with a free slot.
PickRefresh(w) ==
    /\ Responsive(w) /\ at[w] = "idle" /\ due > 0
    /\ due' = due - 1
    /\ at' = [at EXCEPT ![w] = "hset"]
    /\ UNCHANGED <<state, load, key, owed, held, timeVars, history>>

\* Mutant: HSETNX, which keeps the time of the first heartbeat.
SetFieldsOnce(w) ==
    /\ at[w] = "hset" /\ load[w] # "blocked"
    /\ key' = IF key = Absent THEN [owner |-> w, age |-> 0, ttl |-> NoExpiry] ELSE key
    /\ at' = [at EXCEPT ![w] = "expire"]
    /\ dark' = (IF key = Absent THEN 0 ELSE dark) /\ lost' = 0
    /\ UNCHANGED <<state, load, queueVars, timeVars, crashed, quiet>>

\* HSET gives the hash its fields and leaves the expiry of the key alone.
SetFields(w) ==
    /\ at[w] = "hset" /\ load[w] # "blocked"
    /\ key' = [owner |-> w, age |-> 0,
               ttl |-> IF key = Absent THEN NoExpiry ELSE key.ttl]
    /\ at' = [at EXCEPT ![w] = "expire"]
    /\ dark' = 0 /\ lost' = 0
    /\ UNCHANGED <<state, load, queueVars, timeVars, crashed, quiet>>

\* EXPIRE does nothing when the key has gone in the meantime.
SetExpiry(w) ==
    /\ at[w] = "expire" /\ load[w] # "blocked"
    /\ key' = IF key = Absent THEN Absent ELSE [key EXCEPT !.ttl = Expire]
    /\ at' = [at EXCEPT ![w] = "idle"]
    /\ state' = [state EXCEPT ![w] = IF @ = "starting" THEN "up" ELSE @]
    /\ UNCHANGED <<load, queueVars, timeVars, history>>

\* A command fails or job_timeout strikes: ARQ does not repeat the job, and a
\* worker that fails in startup() ends.
RefreshFails(w) ==
    /\ at[w] # "idle" /\ load[w] # "blocked" /\ lost < MaxLost
    /\ at' = [at EXCEPT ![w] = "idle"]
    /\ lost' = lost + 1
    /\ IF state[w] = "starting"
       THEN state' = [state EXCEPT ![w] = "down"] /\ crashed' = crashed \cup {w}
       ELSE UNCHANGED <<state, crashed>>
    /\ UNCHANGED <<load, key, queueVars, timeVars, quiet, dark>>

\* SIGTERM: ARQ cancels what runs and puts a cancelled job back in the queue.
Shutdown(w) ==
    /\ state[w] \in {"starting", "up"} /\ load[w] # "blocked"
    /\ state' = [state EXCEPT ![w] = "stopping"]
    /\ at' = [at EXCEPT ![w] = "idle"]
    /\ due' = IF state[w] = "up" /\ at[w] # "idle" THEN Queued(due) ELSE due
    /\ load' = [load EXCEPT ![w] = "free"]
    /\ owed' = owed \ {w}
    /\ UNCHANGED <<key, held, timeVars, history>>

\* Mutant: shutdown() only closes its connections.
StopOnly(w) ==
    /\ state[w] = "stopping"
    /\ state' = [state EXCEPT ![w] = "down"]
    /\ UNCHANGED <<at, load, key, queueVars, timeVars, history>>

\* shutdown(): deletes the key, whoever wrote it.
DeleteKey(w) ==
    /\ state[w] = "stopping"
    /\ state' = [state EXCEPT ![w] = "down"]
    /\ key' = Absent
    /\ UNCHANGED <<at, load, queueVars, timeVars, history>>

\* The process dies, or its DELETE fails.
Crash(w) ==
    /\ Alive(w)
    /\ at[w] # "idle" => lost < MaxLost
    /\ lost' = IF at[w] # "idle" THEN lost + 1 ELSE lost
    /\ held' = (held \/ (state[w] = "up" /\ at[w] # "idle"))
    /\ state' = [state EXCEPT ![w] = "down"]
    /\ at' = [at EXCEPT ![w] = "idle"]
    /\ load' = [load EXCEPT ![w] = "free"]
    /\ owed' = owed \ {w}
    /\ crashed' = crashed \cup {w}
    /\ UNCHANGED <<key, due, timeVars, quiet, dark>>

\* The in-progress key of a dead worker's run expires: the job is due again.
RepeatHeld ==
    /\ held
    /\ held' = FALSE
    /\ due' = Queued(due)
    /\ UNCHANGED <<workerVars, key, owed, timeVars, history>>

-----------------------------------------------------------------------------
(* Report jobs compete with the heartbeat for slots and the event loop. *)

Fill(w) ==
    /\ Responsive(w)
    /\ load' = [load EXCEPT ![w] = "full"]
    /\ UNCHANGED <<state, at, key, queueVars, timeVars, history>>

\* generate_pdf_report runs write_pdf in the event loop.
Block(w) ==
    /\ Polls(w)
    /\ at[w] # "idle" => lost < MaxLost
    /\ lost' = IF at[w] # "idle" THEN lost + 1 ELSE lost
    /\ load' = [load EXCEPT ![w] = "blocked"]
    /\ UNCHANGED <<state, at, key, queueVars, timeVars, crashed, quiet, dark>>

\* A slot gets free, or the loop does: then a tick that passed meanwhile is
\* queued, once for all workers, since its job id is unique.
Relieve(w) ==
    /\ state[w] = "up" /\ load[w] # "free"
    /\ \E l \in IF load[w] = "full" THEN {"free"} ELSE {"free", "full"} :
           load' = [load EXCEPT ![w] = l]
    /\ IF w \in owed
       THEN due' = Queued(due) /\ owed' = {}
       ELSE UNCHANGED <<due, owed>>
    /\ UNCHANGED <<state, at, key, held, timeVars, history>>

-----------------------------------------------------------------------------
(* Time. *)

\* A responsive worker has something to do, which takes it no time.
Urgent ==
    \E w \in Workers :
        \/ Alive(w) /\ at[w] # "idle" /\ load[w] # "blocked"
        \/ Responsive(w) /\ due > 0

Older(k) ==
    IF k = Absent \/ k.ttl = 1 THEN Absent
    ELSE [k EXCEPT !.age = IF @ + skew < Stale THEN @ + 1 ELSE @,
                   !.ttl = IF @ = NoExpiry THEN NoExpiry ELSE @ - 1]

\* At every tick the workers that poll queue one run between them.
QueueRefresh ==
    IF \E w \in Workers : Polls(w)
    THEN due' = Queued(due) /\ UNCHANGED owed
    ELSE /\ owed' = owed \cup {w \in Workers : state[w] = "up"}
         /\ UNCHANGED due

Tick ==
    /\ ~Urgent
    /\ UNCHANGED <<workerVars, held, skew, crashed, lost>>
    /\ phase' = (phase + 1) % Period
    /\ key' = Older(key)
    /\ IF phase' = 0 THEN QueueRefresh ELSE UNCHANGED <<due, owed>>
    /\ quiet' = IF \E w \in Workers : Alive(w) THEN 0
                ELSE IF quiet < Stale THEN quiet + 1 ELSE quiet
    /\ dark' = IF ~WorkerCheck' /\ \E w \in Workers : Responsive(w) THEN dark + 1 ELSE 0

Next ==
    \/ \E w \in Workers :
           \/ Start(w) \/ PickRefresh(w) \/ SetFields(w) \/ SetExpiry(w)
           \/ RefreshFails(w) \/ Shutdown(w) \/ DeleteKey(w) \/ Crash(w)
           \/ Fill(w) \/ Block(w) \/ Relieve(w)
    \/ RepeatHeld \/ Tick

Spec == Init /\ [][Next]_vars

-----------------------------------------------------------------------------
(* A "worker: true" of /ready proves that a worker was alive within the last *)
(* 60 seconds, or 90 when a crash between HSET and EXPIRE left the key       *)
(* without expiry, whatever the clocks differ by.                            *)
SeenMeansAlive ==
    WorkerCheck =>
        IF key.ttl = NoExpiry THEN quiet + skew < Stale ELSE quiet < Expire

\* A heartbeat outlives its worker only if that worker crashed: no stop of
\* any worker, in any order with the refreshes, leaves a key behind.
HeartbeatHasOwner ==
    key # Absent => Alive(key.owner) \/ key.owner \in crashed

\* Although a stopping worker deletes the heartbeat of the others, the check
\* misses a responsive worker for at most one period, and one more for every
\* refresh that a crash, a failure or a blocked event loop has swallowed.
OutageBounded ==
    dark <= Period * (1 + lost)

=============================================================================
