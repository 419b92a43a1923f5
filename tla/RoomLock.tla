------------------------------ MODULE RoomLock ------------------------------
(***************************************************************************)
(* services/engine/room_lock.py (keno_lock.py is the same machine): the    *)
(* Redis key with a TTL that elects one engine per room, its refresh loop  *)
(* and its release.  Time is discrete and every timer is relative, so no   *)
(* clock has to be bounded.  A Redis call is three steps: it is sent, the  *)
(* script runs on the server, and the reply arrives -- or the call raises, *)
(* at once or at the latest after the client's socket timeout, whether the *)
(* script ran or not.                                                      *)
(***************************************************************************)
EXTENDS Integers

CONSTANTS
    Worker,
    NoWorker,
    TTL,        \* LOCK_TTL_SECONDS
    Interval,   \* REFRESH_INTERVAL_SECONDS
    Timeout     \* Timeout[w]: the longest a Redis call of w takes, at most
                \* SOCKET_TIMEOUT_SECONDS

ASSUME LockAssumption ==
    /\ NoWorker \notin Worker
    /\ TTL \in Nat \ {0} /\ Interval \in Nat \ {0} /\ Timeout \in [Worker -> Nat]

VARIABLES
    owner,   \* value of room:lock:{id}
    ttl,     \* time left to the key
    held,    \* RoomLock._held
    phase,   \* where the coroutines of the lock are
    wait,    \* time spent there
    age,     \* time since _last_refreshed_at
    reply    \* what the script answered, once it ran

vars == <<owner, ttl, held, phase, wait, age, reply>>
key == <<owner, ttl>>

Calls == {"acquiring", "eval", "releasing"}
Refreshing == {"sleep", "eval"}

Init ==
    /\ owner = NoWorker
    /\ ttl = 0
    /\ held = [w \in Worker |-> FALSE]
    /\ phase = [w \in Worker |-> "out"]
    /\ wait = [w \in Worker |-> 0]
    /\ age = [w \in Worker |-> 0]
    /\ reply = [w \in Worker |-> "none"]

Goto(w, p) ==
    /\ phase' = [phase EXCEPT ![w] = p]
    /\ wait' = [wait EXCEPT ![w] = 0]
    /\ reply' = [reply EXCEPT ![w] = "none"]

Answer(w, r) ==
    /\ reply[w] = "none"
    /\ reply' = [reply EXCEPT ![w] = r]
    /\ UNCHANGED <<held, phase, wait, age>>

Believe(w, b) == held' = [held EXCEPT ![w] = b]

Aged(w, t) == age' = [age EXCEPT ![w] = t]

-----------------------------------------------------------------------------
\* acquire(): SET key worker NX EX ttl.
Acquire(w) ==
    /\ phase[w] = "out"
    /\ Goto(w, "acquiring")
    /\ UNCHANGED <<key, held, age>>

RunSet(w) ==
    /\ phase[w] = "acquiring"
    /\ IF owner = NoWorker
       THEN owner' = w /\ ttl' = TTL /\ Answer(w, "yes")
       ELSE Answer(w, "no") /\ UNCHANGED key

Acquired(w) ==
    /\ phase[w] = "acquiring" /\ reply[w] = "yes"
    /\ Believe(w, TRUE)
    /\ Aged(w, 0)
    /\ Goto(w, "sleep")
    /\ UNCHANGED key

\* Refused, or the call raised: no engine, though the key may be set.
NotAcquired(w) ==
    /\ phase[w] = "acquiring"
    /\ Goto(w, "out")
    /\ UNCHANGED <<key, held, age>>

-----------------------------------------------------------------------------
\* _refresh_loop(): sleep, then _REFRESH_IF_OWNER.
SleepOver(w) ==
    /\ phase[w] = "sleep" /\ wait[w] = Interval
    /\ Goto(w, "eval")
    /\ UNCHANGED <<key, held, age>>

RunRefresh(w) ==
    /\ phase[w] = "eval"
    /\ IF owner = w
       THEN ttl' = TTL /\ Answer(w, "yes")
       ELSE Answer(w, "no") /\ UNCHANGED ttl
    /\ UNCHANGED owner

Refreshed(w) ==
    /\ phase[w] = "eval" /\ reply[w] = "yes"
    /\ Aged(w, 0)
    /\ Goto(w, "sleep")
    /\ UNCHANGED <<key, held>>

\* The loop gives up; the engine will leave the room and release.
GiveUp(w) ==
    /\ Believe(w, FALSE)
    /\ Aged(w, 0)
    /\ Goto(w, "lost")
    /\ UNCHANGED key

FoundLost(w) ==
    /\ phase[w] = "eval" /\ reply[w] = "no"
    /\ GiveUp(w)

\* Faulty variant: an error ends the refresh task with _held still true.
RefreshTaskDies(w) ==
    /\ phase[w] = "eval"
    /\ Goto(w, "lost")
    /\ Aged(w, 0)
    /\ UNCHANGED <<key, held>>

\* The except branch: retry while one interval short of the TTL, else give up.
RefreshRaises(w) ==
    /\ phase[w] = "eval"
    /\ \/ /\ age[w] < TTL - Interval
          /\ Goto(w, "sleep")
          /\ UNCHANGED <<key, held, age>>
       \/ /\ age[w] >= TTL - Interval
          /\ GiveUp(w)

-----------------------------------------------------------------------------
\* release(): the refresh task is cancelled, then _DELETE_IF_OWNER.
Release(w) ==
    /\ phase[w] \in Refreshing \union {"lost"}
    /\ Goto(w, "releasing")
    /\ Aged(w, 0)
    /\ UNCHANGED <<key, held>>

RunDelete(w) ==
    /\ phase[w] = "releasing"
    /\ IF owner = w THEN owner' = NoWorker /\ ttl' = 0 ELSE UNCHANGED key
    /\ Answer(w, "yes")

\* The reply arrives or the call raises: _held is cleared either way.
Released(w) ==
    /\ phase[w] = "releasing"
    /\ Believe(w, FALSE)
    /\ Goto(w, "out")
    /\ UNCHANGED <<key, age>>

\* The process dies; the key stays.
Crash(w) ==
    /\ phase[w] # "out"
    /\ Believe(w, FALSE)
    /\ Aged(w, 0)
    /\ Goto(w, "out")
    /\ UNCHANGED key

\* One unit of time.  A timer that is due, or a call at its timeout, comes
\* first: event loops run on time.  At zero the key is gone.
Tick ==
    /\ \A w \in Worker : /\ phase[w] = "sleep" => wait[w] < Interval
                         /\ phase[w] \in Calls => wait[w] < Timeout[w]
    /\ wait' = [w \in Worker |-> IF phase[w] \in Calls \union {"sleep"} THEN wait[w] + 1 ELSE 0]
    /\ age' = [w \in Worker |-> IF phase[w] \in Refreshing THEN age[w] + 1 ELSE 0]
    /\ ttl' = IF ttl > 0 THEN ttl - 1 ELSE 0
    /\ owner' = IF ttl = 1 THEN NoWorker ELSE owner
    /\ UNCHANGED <<held, phase, reply>>

-----------------------------------------------------------------------------
Step(w) ==
    \/ RunSet(w) \/ Acquired(w) \/ NotAcquired(w) \/ SleepOver(w) \/ RunRefresh(w)
    \/ Refreshed(w) \/ FoundLost(w) \/ RefreshRaises(w) \/ RunDelete(w) \/ Released(w)

Next == Tick \/ \E w \in Worker : Acquire(w) \/ Release(w) \/ Crash(w) \/ Step(w)

Spec == Init /\ [][Next]_vars

-----------------------------------------------------------------------------
(***************************************************************************)
(* Properties.                                                             *)
(***************************************************************************)
Phases == {"out", "acquiring", "sleep", "eval", "lost", "releasing"}

TypeOK ==
    /\ owner \in Worker \union {NoWorker}
    /\ ttl \in Nat
    /\ held \in [Worker -> BOOLEAN]
    /\ phase \in [Worker -> Phases]
    /\ wait \in [Worker -> Nat]
    /\ age \in [Worker -> Nat]
    /\ reply \in [Worker -> {"none", "yes", "no"}]

\* The timing under which the retry margin of an engine's refresh loop is safe.
Prompt(w) == TTL <= 3 * Interval /\ 2 * Interval + 3 * Timeout[w] < TTL

\* An engine with prompt calls that believes it owns the room does: is_held()
\* is never true past the expiry of the key, whichever calls fail and however
\* slow the calls of other engines are.
HeldIsOwned ==
    \A w \in Worker : Prompt(w) /\ held[w] /\ phase[w] # "releasing" => owner = w

\* A key disappears when its time is up or its own holder deletes it, never
\* by the release of an engine that lost the room to another.
OnlyOwnerFrees ==
    [][\A w \in Worker : owner = w /\ owner' # w => ttl = 1 \/ phase[w] = "releasing"]_vars

-----------------------------------------------------------------------------
(***************************************************************************)
(* The inductive invariant: how old a confirmation can be in each phase,   *)
(* and what that leaves of the key.                                        *)
(***************************************************************************)

\* The key is ours, confirmed at most a call before _last_refreshed_at.
Confirmed(w) == owner = w /\ ttl + age[w] + Timeout[w] >= TTL

\* The script ran during the call in flight.
JustSet(w) == owner = w /\ ttl + wait[w] >= TTL

SleepInv(w) ==
    phase[w] = "sleep" =>
      /\ Confirmed(w)
      /\ wait[w] <= Interval
      /\ \/ age[w] = wait[w]
         \/ age[w] - wait[w] \in Interval .. Interval + Timeout[w]

EvalInv(w) ==
    phase[w] = "eval" =>
      /\ wait[w] <= Timeout[w]
      /\ \/ age[w] - wait[w] = Interval
         \/ age[w] - wait[w] \in 2 * Interval .. 2 * Interval + Timeout[w]
      /\ reply[w] \in {"none", "yes"}
      /\ reply[w] = "none" => Confirmed(w)
      /\ reply[w] = "yes" => JustSet(w)

AcquireInv(w) ==
    phase[w] = "acquiring" => wait[w] <= Timeout[w] /\ (reply[w] = "yes" => JustSet(w))

HeldInv(w) == held[w] => phase[w] \in {"sleep", "eval", "releasing"}

LockInv ==
    /\ TypeOK
    /\ \A w \in Worker : Prompt(w) => SleepInv(w) /\ EvalInv(w) /\ AcquireInv(w) /\ HeldInv(w)
=============================================================================
