----------------------------- MODULE RobotsCache -----------------------------
(***************************************************************************)
(* The robots.txt of the sites, as the coroutines of a job see them        *)
(* (core/ingest/robots.py).  can_fetch answers from the cache while the    *)
(* entry of the host is fresh; otherwise it loads the file, and nothing    *)
(* keeps two coroutines from loading the same one at once: the answer that *)
(* arrives last stays, stamped with the time its load began.               *)
(*                                                                         *)
(* Of a file the model keeps whether it forbids the pages that are asked   *)
(* for; a file that is not there (4xx), an error of the site (5xx) and a   *)
(* connection that fails forbid nothing, and are kept like a file.  Time   *)
(* is counted in ticks of the order of a load.                             *)
(***************************************************************************)
EXTENDS Integers

CONSTANTS
    Caller,     \* the coroutines
    Cache,      \* the instances of RobotsCache, one per job
    CacheOf,    \* CacheOf[t]: the one t was given
    Server,
    TTL,        \* ttl_seconds
    Timeout,    \* the longest a load lasts, eight seconds
    MaxTime,    \* bound: the clock
    NoEntry, NoAsk

Time == 0 .. MaxTime

\* What a site answers: nothing that forbids, a file that does, a redirection
\* to a host that is not in the allowlist.
Rule == {"allows", "forbids", "elsewhere"}

Entry == [time : Time, allows : BOOLEAN]
Asking == [host : Server, start : Time, heard : Rule \cup {"nothing"}]

ASSUME CacheAssumption ==
    /\ CacheOf \in [Caller -> Cache]
    /\ MaxTime \in Nat /\ TTL \in Nat /\ Timeout \in 0 .. TTL
    /\ NoEntry \notin Entry /\ NoAsk \notin Asking

VARIABLES
    now,        \* time.monotonic()
    rule,       \* rule[h]: what h answers
    entry,      \* entry[c][h]: _cache
    asking,     \* asking[t]: the load t waits for
    lenient     \* history: when h last let pages be read, or a load of it failed

cacheVars == <<now, rule, entry, asking, lenient>>

CacheTypeOK ==
    /\ now \in Time
    /\ rule \in [Server -> Rule]
    /\ entry \in [Cache -> [Server -> Entry \cup {NoEntry}]]
    /\ asking \in [Caller -> Asking \cup {NoAsk}]
    /\ lenient \in [Server -> Time]

CacheInit ==
    /\ now = 0
    /\ rule = [h \in Server |-> "allows"]
    /\ entry = [c \in Cache |-> [h \in Server |-> NoEntry]]
    /\ asking = [t \in Caller |-> NoAsk]
    /\ lenient = [h \in Server |-> 0]

Own(t, h) == entry[CacheOf[t]][h]
IsFresh(t, h) == Own(t, h) # NoEntry /\ now - Own(t, h).time <= TTL

\* can_fetch, without a wait: what the cache says.
Knows(t, h, verdict) ==
    /\ asking[t] = NoAsk
    /\ IsFresh(t, h) /\ verdict = Own(t, h).allows
    /\ UNCHANGED cacheVars

\* can_fetch finds nothing fresh and asks the site.
Load(t, h) ==
    /\ asking[t] = NoAsk /\ ~ IsFresh(t, h)
    /\ asking' = [asking EXCEPT ![t] = [host |-> h, start |-> now, heard |-> "nothing"]]
    /\ UNCHANGED <<now, rule, entry, lenient>>

\* The site answers, whenever the answer arrives.
Hear(t) ==
    /\ asking[t] # NoAsk /\ asking[t].heard = "nothing"
    /\ asking' = [asking EXCEPT ![t].heard = rule[asking[t].host]]
    /\ UNCHANGED <<now, rule, entry, lenient>>

\* A variant of Stamp that reads the clock after the load.
StampAtEnd(t) == now

Stamp(t) == asking[t].start

\* The load ends, with an answer or for want of one, and its verdict is kept.
Loaded(t, verdict) ==
    LET own == asking[t]
        late == own # NoAsk /\ own.heard = "nothing" /\ now - own.start = Timeout
    IN  /\ own # NoAsk
        /\ late \/ own.heard \in {"allows", "forbids"}
        /\ verdict = (own.heard # "forbids")
        /\ entry' = [entry EXCEPT ![CacheOf[t]][own.host] =
                        [time |-> Stamp(t), allows |-> verdict]]
        /\ asking' = [asking EXCEPT ![t] = NoAsk]
        /\ lenient' = IF late THEN [lenient EXCEPT ![own.host] = now] ELSE lenient
        /\ UNCHANGED <<now, rule>>

\* EgressDeniedError, which is no httpx.HTTPError: no verdict, nothing is kept.
LoadRaises(t) ==
    /\ asking[t] # NoAsk /\ asking[t].heard = "elsewhere"
    /\ asking' = [asking EXCEPT ![t] = NoAsk]
    /\ UNCHANGED <<now, rule, entry, lenient>>

RuleChanges(h, r) ==
    /\ rule' = [rule EXCEPT ![h] = r]
    /\ lenient' = IF r # "forbids" THEN [lenient EXCEPT ![h] = now] ELSE lenient
    /\ UNCHANGED <<now, entry, asking>>

TimePasses ==
    /\ now < MaxTime
    /\ \A t \in Caller : asking[t] # NoAsk => now - asking[t].start < Timeout
    /\ now' = now + 1
    /\ lenient' = [h \in Server |-> IF rule[h] # "forbids" THEN now + 1 ELSE lenient[h]]
    /\ UNCHANGED <<rule, entry, asking>>

\* A job begins with a cache of its own.
Emptied(c) == [entry EXCEPT ![c] = [h \in Server |-> NoEntry]]
=============================================================================
