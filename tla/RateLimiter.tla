----------------------------- MODULE RateLimiter ----------------------------
(***************************************************************************)
(* The politeness towards the sites (core/ingest/ratelimit.py).            *)
(*                                                                         *)
(* Before every request a coroutine calls wait(host) of its limiter: under *)
(* the lock of the host it sleeps until min_interval has passed since the  *)
(* last permission.  Each job makes a limiter of its own.                  *)
(*                                                                         *)
(* Time is relative: what has passed since the last permission, counted up *)
(* to the interval, and what is left of a sleep.  A sleep may last longer  *)
(* than asked, never less.                                                 *)
(***************************************************************************)
EXTENDS Integers, Sequences, SequencesExt

CONSTANTS
    Coroutine,       \* the coroutines that make requests
    Limiter,    \* the instances of DomainRateLimiter
    LimiterOf,  \* LimiterOf[t]: the one t was given
    Host,
    Interval,   \* Interval[h]: _interval_for(h), in ticks
    Nobody

ASSUME LimiterAssumption ==
    /\ LimiterOf \in [Coroutine -> Limiter]
    /\ Interval \in [Host -> Nat]
    /\ Nobody \notin Coroutine

VARIABLES
    pc,       \* pc[t]: where t is in wait()
    host,     \* host[t]: the host t asks for, or asked for last
    left,     \* left[t]: what is left of its sleep
    holder,   \* holder[l][h]: who holds _locks[h]
    waiters,  \* waiters[l][h]: who waits for it, in order
    elapsed   \* elapsed[l][h]: time since _last[h], at most Interval[h]

limiterVars == <<pc, host, left, holder, waiters, elapsed>>

Location == {"idle", "queued", "sleeping", "requesting"}

\* Type correctness; no one is ever asleep for longer than the interval of the
\* host it asks for.
LimiterTypeOK ==
    /\ pc \in [Coroutine -> Location]
    /\ host \in [Coroutine -> Host]
    /\ left \in [Coroutine -> Nat]
    /\ \A t \in Coroutine : pc[t] = "sleeping" => left[t] <= Interval[host[t]]
    /\ holder \in [Limiter -> [Host -> Coroutine \cup {Nobody}]]
    /\ waiters \in [Limiter -> [Host -> Seq(Coroutine)]]
    /\ elapsed \in [Limiter -> [Host -> Nat]]

\* A host never asked does not make anyone wait.
LimiterInit ==
    /\ pc = [t \in Coroutine |-> "idle"]
    /\ host \in [Coroutine -> Host]
    /\ left = [t \in Coroutine |-> 0]
    /\ holder = [l \in Limiter |-> [h \in Host |-> Nobody]]
    /\ waiters = [l \in Limiter |-> [h \in Host |-> <<>>]]
    /\ elapsed = [l \in Limiter |-> Interval]

\* t calls wait(h).
Call(t, h) ==
    /\ pc[t] = "idle"
    /\ pc' = [pc EXCEPT ![t] = "queued"]
    /\ host' = [host EXCEPT ![t] = h]
    /\ waiters' = [waiters EXCEPT ![LimiterOf[t]][h] = Append(@, t)]
    /\ UNCHANGED <<left, holder, elapsed>>

\* self._last[host] = self._now(), and wait returns.
Permit(t) ==
    /\ pc' = [pc EXCEPT ![t] = "requesting"]
    /\ elapsed' = [elapsed EXCEPT ![LimiterOf[t]][host[t]] = 0]

\* remaining, in wait().
Remaining(t) == Interval[host[t]] - elapsed[LimiterOf[t]][host[t]]

\* A variant of TakeLock under which the sleep is outside the lock.
TakeNoLock(t) == UNCHANGED holder

TakeLock(t) == holder' = [holder EXCEPT ![LimiterOf[t]][host[t]] = t]

\* The lock goes to the first that waits, which goes on to its sleep or,
\* when there is nothing to wait for, through.
Acquire(t) ==
    /\ pc[t] = "queued"
    /\ holder[LimiterOf[t]][host[t]] = Nobody
    /\ t = Head(waiters[LimiterOf[t]][host[t]])
    /\ waiters' = [waiters EXCEPT ![LimiterOf[t]][host[t]] = Tail(@)]
    /\ \/ /\ Remaining(t) > 0
          /\ pc' = [pc EXCEPT ![t] = "sleeping"]
          /\ left' = [left EXCEPT ![t] = Remaining(t)]
          /\ TakeLock(t)
          /\ UNCHANGED elapsed
       \/ /\ Remaining(t) <= 0
          /\ Permit(t)
          /\ UNCHANGED <<left, holder>>
    /\ UNCHANGED host

\* A variant of ReleaseLock that forgets to.
KeepLock(t) == UNCHANGED holder

\* The end of the "async with", by whatever way.
ReleaseLock(t) ==
    holder' = [holder EXCEPT ![LimiterOf[t]][host[t]] = IF @ = t THEN Nobody ELSE @]

Wake(t) ==
    /\ pc[t] = "sleeping"
    /\ left[t] = 0
    /\ Permit(t)
    /\ ReleaseLock(t)
    /\ UNCHANGED <<host, left, waiters>>

\* The budget of the seed, or the end of the application.
Cancel(t) ==
    /\ pc[t] \in {"queued", "sleeping"}
    /\ pc' = [pc EXCEPT ![t] = "idle"]
    /\ waiters' = [waiters EXCEPT ![LimiterOf[t]][host[t]] = Remove(@, t)]
    /\ ReleaseLock(t)
    /\ UNCHANGED <<host, left, elapsed>>

\* The request is over.
Answered(t) ==
    /\ pc[t] = "requesting"
    /\ pc' = [pc EXCEPT ![t] = "idle"]
    /\ UNCHANGED <<host, left, holder, waiters, elapsed>>

Up(n, bound) == IF n < bound THEN n + 1 ELSE n
Down(n) == IF n > 0 THEN n - 1 ELSE n

Tick ==
    /\ left' = [t \in Coroutine |-> Down(left[t])]
    /\ elapsed' = [l \in Limiter |-> [h \in Host |-> Up(elapsed[l][h], Interval[h])]]
    /\ UNCHANGED <<pc, host, holder, waiters>>

TaskStep(t) ==
    \/ \E h \in Host : Call(t, h)
    \/ Acquire(t)
    \/ Wake(t)
    \/ Cancel(t)
    \/ Answered(t)

LimiterNext == Tick \/ \E t \in Coroutine : TaskStep(t)

LimiterSpec == LimiterInit /\ [][LimiterNext]_limiterVars

\* The event loop runs whoever can run; time passes.
LimiterFairness ==
    /\ WF_limiterVars(Tick)
    /\ \A t \in Coroutine : WF_limiterVars(Acquire(t)) /\ WF_limiterVars(Wake(t))

LimiterFairSpec == LimiterSpec /\ LimiterFairness

-----------------------------------------------------------------------------
\* A limiter gives two permissions for a host at least the interval apart,
\* however many coroutines wait, sleep and are cancelled in between: what a
\* coroutine computed before its sleep still holds after it.
Spaced ==
    [][\A t \in Coroutine : pc[t] # "requesting" /\ pc'[t] = "requesting" =>
          elapsed[LimiterOf[t]][host[t]] >= Interval[host[t]]]_limiterVars

\* Whoever waits is let through, or cancelled: no cancellation leaves a lock
\* behind.
EveryoneServed ==
    \A t \in Coroutine : pc[t] = "queued" ~> pc[t] \in {"requesting", "idle"}
=============================================================================
