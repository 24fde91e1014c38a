----------------------------- MODULE RateLimit ------------------------------
(***************************************************************************)
(* The sliding-window limiter of checkout (internal/ratelimit).  A request *)
(* asks once per key, its IP and then its user.  Allow reads the clock of  *)
(* its own process, and the Lua script runs in Redis some time later, so   *)
(* scripts run out of the order of their timestamps.  Time is that of      *)
(* Redis, in ticks.                                                        *)
(***************************************************************************)
EXTENDS Naturals, Sequences, FiniteSets

CONSTANTS
    Requests,
    Keys,
    KeysOf,         \* the keys a request is counted under, in order
    Limit, Window,
    MaxDelay,       \* how old a timestamp may be when its script runs
    MaxAhead,       \* how far the clock of a process may be ahead of Redis
    MaxTime,        \* bound on the clock
    MaxFaults       \* bound on failed or repeated calls of the script

ASSUME LimitAssumption ==
    /\ KeysOf \in [Requests -> Seq(Keys) \ {<<>>}]
    /\ Limit \in Nat
    /\ Window \in Nat
    /\ MaxDelay \in Nat
    /\ MaxAhead \in Nat
    /\ MaxTime \in Nat
    /\ MaxFaults \in Nat

VARIABLES
    clock,
    zset,       \* per key: the entries of the sorted set
    expires,    \* per key: when PEXPIRE removes it
    log,        \* per key: every entry ever added
    rpc,        \* where each request is
    turn,       \* the position of the key it asks for
    stamp,      \* nowMs of its present call of Allow
    lfaults

lvars == <<clock, zset, expires, log, rpc, turn, stamp, lfaults>>

(* A member of the sorted set and its score.  The member is random and      *)
(* stands for its request; "at" records when it was added.                  *)
Entry == [member : Requests, score : Nat, at : Nat]

Key(r) == KeysOf[r][turn[r]]

LimitInit ==
    /\ clock = 0
    /\ zset = [k \in Keys |-> {}]
    /\ expires = [k \in Keys |-> 0]
    /\ log = [k \in Keys |-> {}]
    /\ rpc = [r \in Requests |-> "ask"]
    /\ turn = [r \in Requests |-> 1]
    /\ stamp = [r \in Requests |-> 0]
    /\ lfaults = 0

-----------------------------------------------------------------------------
(* Allow takes the time, from a clock that may be behind or ahead.          *)
TakeTime(r) ==
    /\ rpc[r] = "ask"
    /\ \E now \in 0 .. clock + MaxAhead :
          /\ clock <= now + MaxDelay
          /\ stamp' = [stamp EXCEPT ![r] = now]
    /\ rpc' = [rpc EXCEPT ![r] = "run"]
    /\ UNCHANGED <<clock, zset, expires, log, turn, lfaults>>

Existing(k) == IF clock < expires[k] THEN zset[k] ELSE {}

(* Mutant: the trim is one tick too eager.                                  *)
TrimmedEarly(r) == {e \in Existing(Key(r)) : stamp[r] < e.score + Window - 1}

(* Mutant: nothing is trimmed.                                              *)
TrimmedNever(r) == Existing(Key(r))

(* What ZREMRANGEBYSCORE leaves.                                            *)
Trimmed(r) == {e \in Existing(Key(r)) : stamp[r] < e.score + Window}

Room(r) == Cardinality(Trimmed(r)) < Limit

(* ZADD of the request's member: nothing is added if a repeated call finds  *)
(* the member there.                                                        *)
Added(r) == IF \E e \in Trimmed(r) : e.member = r THEN {}
            ELSE {[member |-> r, score |-> stamp[r], at |-> clock]}

(* The script, in one step of Redis.                                        *)
SlidingWindow(r) ==
    IF Room(r)
    THEN /\ zset' = [zset EXCEPT ![Key(r)] = Trimmed(r) \cup Added(r)]
         /\ expires' = [expires EXCEPT ![Key(r)] = clock + Window]
         /\ log' = [log EXCEPT ![Key(r)] = @ \cup Added(r)]
    ELSE /\ zset' = [zset EXCEPT ![Key(r)] = Trimmed(r)]
         /\ UNCHANGED <<expires, log>>

(* The middleware goes on with the next key, or with the handler.           *)
NextKey(r) ==
    /\ turn' = [turn EXCEPT ![r] = @ + 1]
    /\ rpc' = [rpc EXCEPT ![r] = IF turn[r] < Len(KeysOf[r]) THEN "ask" ELSE "served"]

Allow(r) ==
    /\ rpc[r] = "run"
    /\ SlidingWindow(r)
    /\ \/ Room(r) /\ NextKey(r)
       \/ ~Room(r) /\ rpc' = [rpc EXCEPT ![r] = "refused"] /\ UNCHANGED turn
    /\ UNCHANGED <<clock, stamp, lfaults>>

(* The script runs but its reply is lost: the client sends it again, with   *)
(* the same arguments.                                                      *)
LoseReply(r) ==
    /\ rpc[r] = "run"
    /\ lfaults < MaxFaults
    /\ lfaults' = lfaults + 1
    /\ SlidingWindow(r)
    /\ UNCHANGED <<clock, rpc, turn, stamp>>

(* Allow returns an error: the middleware fails open.                       *)
FailOpen(r) ==
    /\ rpc[r] = "run"
    /\ lfaults < MaxFaults
    /\ lfaults' = lfaults + 1
    /\ NextKey(r)
    /\ UNCHANGED <<clock, zset, expires, log, stamp>>

Tick ==
    /\ clock < MaxTime
    /\ \A r \in Requests : rpc[r] = "run" => clock + 1 <= stamp[r] + MaxDelay
    /\ clock' = clock + 1
    /\ UNCHANGED <<zset, expires, log, rpc, turn, stamp, lfaults>>

LimitNext ==
    \/ Tick
    \/ \E r \in Requests : TakeTime(r) \/ Allow(r) \/ LoseReply(r) \/ FailOpen(r)

LimitSpec == LimitInit /\ [][LimitNext]_lvars

-----------------------------------------------------------------------------
LimitTypeOK ==
    /\ clock \in Nat
    /\ zset \in [Keys -> SUBSET Entry]
    /\ expires \in [Keys -> Nat]
    /\ log \in [Keys -> SUBSET Entry]
    /\ rpc \in [Requests -> {"ask", "run", "served", "refused"}]
    /\ turn \in [Requests -> Nat]
    /\ stamp \in [Requests -> Nat]
    /\ lfaults \in Nat
    /\ \A r \in Requests : rpc[r] \in {"ask", "run"} => turn[r] \in 1 .. Len(KeysOf[r])

(* How far the time of an entry can be from the time its script ran.        *)
Slack == MaxDelay + MaxAhead

(* Entries of key k added in the Window - Slack ticks that end at time t.   *)
RecentAt(k, t) == {e \in log[k] : e.at <= t /\ t + Slack < e.at + Window}

(* The limit, in the time of Redis: no interval shorter than the window by  *)
(* the delay and skew of the timestamps sees more than Limit admissions of  *)
(* a key, although scripts run out of order, are repeated, and the key      *)
(* expires as a whole.                                                      *)
AtMostLimit ==
    \A k \in Keys : \A e \in log[k] : Cardinality(RecentAt(k, e.at)) <= Limit

(* A request is refused only when Limit entries of the key were added in    *)
(* the last Window + Slack ticks: old requests do not throttle new ones.    *)
RefusalsDue ==
    [][\A r \in Requests : rpc[r] = "run" /\ rpc'[r] = "refused" =>
          Cardinality({e \in log[Key(r)] : clock < e.at + Window + Slack}) >= Limit]_lvars

(* A running script is not late, a key outlives its entries, and an entry   *)
(* that is gone from the sorted set is older than the window allows.        *)
WindowInv ==
    /\ LimitTypeOK
    /\ \A r \in Requests : rpc[r] = "run" =>
          clock <= stamp[r] + MaxDelay /\ stamp[r] <= clock + MaxAhead
    /\ \A k \in Keys :
          /\ IsFiniteSet(log[k])
          /\ zset[k] \subseteq log[k]
          /\ \A e \in log[k] :
                /\ e.at <= clock
                /\ e.at <= e.score + MaxDelay /\ e.score <= e.at + MaxAhead
                /\ e.at + Window <= expires[k]
                /\ e \notin zset[k] => e.score + Window <= clock + MaxAhead
    /\ AtMostLimit
=============================================================================
