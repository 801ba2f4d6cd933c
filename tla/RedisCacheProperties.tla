------------------------- MODULE RedisCacheProperties -------------------------
(***************************************************************************)
(* What the connection to the result cache promises the calls that share   *)
(* it, and the deployment whose server it must not flood.                  *)
(***************************************************************************)
EXTENDS RedisCache

Handling == {k \in Caller : pc[k] \in {"ping", "discard", "drop"}}

CacheTypeOK ==
  /\ redis \in 0 .. Clients /\ closing \in 0 .. Clients /\ open \subseteq 1 .. Clients
  /\ failures \in 0 .. MaxExponent + 1 /\ quiet \in 0 .. Cap /\ hush \in 0 .. Cap
  /\ queue \in Seq(Caller) /\ IsInjective(queue)
  /\ pc \in [Caller -> Stages] /\ client \in [Caller -> 0 .. Clients]
  /\ closer \in {"none", "closing", "ended"}

\* One call at a time makes a connection, and it holds the lock; the others in
\* the queue wait.
ConnectsAlone ==
  /\ \A k \in Caller : pc[k] \in {"ping", "discard"} => queue # << >> /\ Head(queue) = k
  /\ \A k \in Caller : pc[k] = "queued" <=> k \in Range(queue) /\ pc[k] \notin {"ping", "discard"}

\* The client offered to the next call is open, and none is closed by two calls,
\* or by a call while others are offered it.  (close() may close a client that a
\* failed call is closing too: it reads _redis, and both await aclose().)
ClientsAccounted ==
  /\ redis # None => redis \in open
  /\ \A k \in Handling : client[k] # redis /\ \A j \in Handling \ {k} : client[j] # client[k]

\* _ensure_client, _mark_unavailable and close() taken together keep the client
\* that all calls share sound.
CacheInv == CacheTypeOK /\ ConnectsAlone /\ ClientsAccounted

\* Open clients that are not in use, and that nobody will close.
Lost == open \ ({redis, closing} \cup {client[k] : k \in Handling})

\* How the code loses one: the call that makes or closes it is cancelled, its
\* cooldown overflows before it is closed, it was connected while close() awaited,
\* or close() fails to close it.
GivenUp(c) ==
  \/ \E k \in Handling : client[k] = c /\ Cancel(k)
  \/ \E k \in Caller : Fails(k) /\ Overflows(failures') /\ c = redis
  \/ EndClose /\ c = redis
  \/ CloseFails /\ c = closing

\* No connection is lost in any other way: not when several calls fail with one
\* client, not when one of them meets the client that came after it, and not when
\* calls that waited for the lock find a client made meanwhile.
ClientsKept == [][\A c \in Lost' \ Lost : GivenUp(c)]_cacheVars

Attempt(k) == pc[k] # "ping" /\ pc'[k] = "ping"

\* After a failure nobody tries to connect before the cooldown has passed, doubled
\* as often as the failures in a row require: also not a call that was waiting for
\* the lock when the attempt before it failed, and not after a success in between.
\* That holds as long as the cooldown can be computed, and until close().
BackoffHolds ==
  [][\A k \in Caller : Attempt(k) /\ failures <= MaxExponent => hush = 0 \/ closer # "none"]_cacheVars
=============================================================================
