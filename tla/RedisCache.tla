----------------------------- MODULE RedisCache -----------------------------
(***************************************************************************)
(* The connection to the result cache, src/app/cache/__init__.py: one      *)
(* client shared by all calls of get, set and healthcheck, made under a    *)
(* lock, dropped at the first failure, and not made again before a         *)
(* cooldown that doubles with every failure in a row.                      *)
(*                                                                         *)
(* What is stored is left out: a call is the client it uses, and how that  *)
(* ends.  Time is counted in ticks.  A client that nobody refers to any    *)
(* more stays open here, and its number is not given again: Clients bounds *)
(* how many can be lost.                                                   *)
(***************************************************************************)
EXTENDS Integers, SequencesExt

CONSTANTS
  Caller,       \* coroutines in get, set or healthcheck
  Clients,      \* how many clients there are, the lost ones included
  Base,         \* cache_failure_cooldown_s
  Cap,          \* the longest cooldown, 60 s in the code
  MaxExponent   \* the first power of 2 that is too large for a float, 1024

ASSUME CacheAssumption ==
  /\ IsFiniteSet(Caller)
  /\ Clients \in Nat
  /\ Base \in Nat \ {0} /\ Cap \in Nat \ {0} /\ MaxExponent \in Nat \ {0}

VARIABLES
  redis,        \* _redis: the client in use, or None
  failures,     \* _failure_count, counted up to MaxExponent + 1
  quiet,        \* the time left until _retry_after
  queue,        \* who holds and awaits _connect_lock, first come, first served
  pc,           \* per caller: the await it is at
  client,       \* per caller: the client it uses, makes or closes
  open,         \* clients that were made and have not been closed
  closer,       \* where close() is
  closing,      \* the client that close() is closing
  hush          \* history: what is left of the cooldown that the last failure calls for

cacheVars == <<redis, failures, quiet, queue, pc, client, open, closer, closing, hush>>

None == 0   \* clients are numbered from 1
Stages == {"idle", "queued", "ping", "discard", "using", "drop"}

CacheInit ==
  /\ redis = None /\ failures = 0 /\ quiet = 0 /\ queue = << >>
  /\ pc = [k \in Caller |-> "idle"] /\ client = [k \in Caller |-> None]
  /\ open = {} /\ closer = "none" /\ closing = None /\ hush = 0

Goes(k, stage, c) ==
  /\ pc' = [pc EXCEPT ![k] = stage]
  /\ client' = [client EXCEPT ![k] = c]

\* from_url: a client that nobody refers to yet.
Unused == (1 .. Clients) \ (open \cup {closing} \cup Range(client))
Fresh == CHOOSE c \in Unused : TRUE

PowerOfTwo[n \in Nat] == IF n = 0 THEN 1 ELSE 2 * PowerOfTwo[n - 1]

Cooldown(n) == Min({Base * PowerOfTwo[n - 1], Cap})

Overflows(n) == n > MaxExponent

\* What both failure paths record.  The float product raises OverflowError
\* before _retry_after is set once the exponent is too large.
RecordFailure ==
  /\ failures' = Min({failures + 1, MaxExponent + 1})
  /\ quiet' = IF Overflows(failures') THEN quiet ELSE Cooldown(failures')
  /\ hush' = IF Overflows(failures') THEN hush ELSE Cooldown(failures')

\* The lock is left, and its next waiter may go on.
Released == Tail(queue)

\* Mutant: after waiting for the lock only the client is looked at again.
NotCooling == TRUE
MayConnect == quiet = 0

\* _ensure_client has a client, or makes one with the lock held, or gives up.
Uses(k) ==
  /\ redis # None
  /\ Goes(k, "using", redis)
  /\ UNCHANGED open

\* Makes is also a mutant of Connects: the client is not looked at again.
Makes(k) ==
  /\ Unused # {}
  /\ Goes(k, "ping", Fresh)
  /\ open' = open \cup {Fresh}

Connects(k) == redis = None /\ Makes(k)

\* A call starts.  Without a client, and outside a cooldown, it needs the lock;
\* a lock that is free is taken without an await.
Begin(k) ==
  /\ pc[k] = "idle"
  /\ \/ Uses(k) /\ UNCHANGED queue
     \/ /\ redis = None /\ quiet = 0
        /\ queue' = Append(queue, k)
        /\ \/ queue = << >> /\ Connects(k)
           \/ queue # << >> /\ Goes(k, "queued", None) /\ UNCHANGED open
  /\ UNCHANGED <<redis, failures, quiet, closer, closing, hush>>

\* The lock is handed on: its new holder looks again at what has changed.
TakeLock(k) ==
  /\ pc[k] = "queued" /\ Head(queue) = k
  /\ \/ Uses(k) /\ queue' = Released
     \/ MayConnect /\ Connects(k) /\ UNCHANGED queue
     \/ /\ redis = None /\ ~MayConnect
        /\ Goes(k, "idle", None)
        /\ queue' = Released /\ UNCHANGED open
  /\ UNCHANGED <<redis, failures, quiet, closer, closing, hush>>

\* The server answers the ping; the call goes on with its own operation.
PingSucceeds(k) ==
  /\ pc[k] = "ping"
  /\ redis' = client[k] /\ failures' = 0 /\ quiet' = 0
  /\ Goes(k, "using", client[k])
  /\ queue' = Released
  /\ UNCHANGED <<open, closer, closing, hush>>

\* It does not, or not in time: the candidate is closed with the lock held.
PingFails(k) ==
  /\ pc[k] = "ping"
  /\ Goes(k, "discard", client[k])
  /\ UNCHANGED <<redis, failures, quiet, queue, open, closer, closing, hush>>

Discarded(k) ==
  /\ pc[k] = "discard"
  /\ open' = open \ {client[k]}
  /\ RecordFailure
  /\ Goes(k, "idle", None)
  /\ queue' = Released
  /\ UNCHANGED <<redis, closer, closing>>

Succeeds(k) ==
  /\ pc[k] = "using"
  /\ Goes(k, "idle", None)
  /\ UNCHANGED <<redis, failures, quiet, queue, open, closer, closing, hush>>

\* Mutant: a failed call drops the client that failed it.
UsedBy(k) == client[k]
\* _mark_unavailable drops the client in use now, which may be a newer one.
DroppedBy(k) == redis

\* An operation fails or is too slow.  If the cooldown overflows, the client is
\* not closed, and nobody will.
Fails(k) ==
  LET c == DroppedBy(k)
  IN /\ pc[k] = "using"
     /\ redis' = None
     /\ RecordFailure
     /\ IF c = None \/ Overflows(failures')
        THEN Goes(k, "idle", None)
        ELSE Goes(k, "drop", c)
     /\ UNCHANGED <<queue, open, closer, closing>>

Dropped(k) ==
  /\ pc[k] = "drop"
  /\ open' = open \ {client[k]}
  /\ Goes(k, "idle", None)
  /\ UNCHANGED <<redis, failures, quiet, queue, closer, closing, hush>>

\* A CancelledError is no Exception: no handler runs, only the lock is left.  A
\* client that is being made or closed stays open.
Cancel(k) ==
  /\ pc[k] # "idle"
  /\ queue' = RemoveFirst(queue, k)
  /\ Goes(k, "idle", None)
  /\ UNCHANGED <<redis, failures, quiet, open, closer, closing, hush>>

\* close() takes no lock.
StartClose ==
  /\ closer = "none"
  /\ IF redis = None
     THEN closer' = "ended" /\ failures' = 0 /\ quiet' = 0 /\ UNCHANGED closing
     ELSE closer' = "closing" /\ closing' = redis /\ UNCHANGED <<failures, quiet>>
  /\ UNCHANGED <<redis, queue, pc, client, open, hush>>

\* The client in use then is forgotten: if it was connected during the await, it
\* is not the one that was closed.
EndClose ==
  /\ closer = "closing"
  /\ closer' = "ended" /\ closing' = None
  /\ open' = open \ {closing}
  /\ redis' = None /\ failures' = 0 /\ quiet' = 0
  /\ UNCHANGED <<queue, pc, client, hush>>

\* aclose() raises: the lifespan logs it, and nothing is reset.
CloseFails ==
  /\ closer = "closing"
  /\ closer' = "ended" /\ closing' = None
  /\ UNCHANGED <<redis, failures, quiet, queue, pc, client, open, hush>>

Tick ==
  /\ quiet > 0 \/ hush > 0
  /\ quiet' = Max({quiet - 1, 0}) /\ hush' = Max({hush - 1, 0})
  /\ UNCHANGED <<redis, failures, queue, pc, client, open, closer, closing>>

\* What a call does by itself.
Proceeds(k) ==
  \/ TakeLock(k) \/ PingSucceeds(k) \/ PingFails(k) \/ Discarded(k)
  \/ Succeeds(k) \/ Fails(k) \/ Dropped(k)

CacheNext ==
  \/ \E k \in Caller : Begin(k) \/ Proceeds(k) \/ Cancel(k)
  \/ StartClose \/ EndClose \/ CloseFails \/ Tick

CacheSpec == CacheInit /\ [][CacheNext]_cacheVars
=============================================================================
