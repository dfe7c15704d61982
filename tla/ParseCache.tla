----------------------------- MODULE ParseCache -----------------------------
(***************************************************************************)
(* The cache of parsed PDFs in BasicPDFParser (parsers.py): an LRU map from *)
(* the bytes of a source and the options to the blocks of an earlier parse, *)
(* and the flights by which concurrent requests for one key share a parse.  *)
(* Each block of code under _parse_cache_lock is one step; so is each       *)
(* reading of the source, for _parse_cache_key reads it again every time.   *)
(*                                                                          *)
(* Blocks are represented by the version of the bytes and the options they  *)
(* were parsed with, a key by the same pair (SHA-256 is taken to be         *)
(* injective).  Host may replace a file at any time.                        *)
(***************************************************************************)
EXTENDS Naturals, Sequences, FiniteSets, SequencesExt

CONSTANTS
    Threads,      \* threads that call parse
    Files,        \* source paths
    Versions,     \* what the bytes of a file may be
    Options,      \* repr of request.options
    MaxEntries,   \* parse_cache_max_entries
    MaxCalls,     \* bound of the model: calls of parse
    Fallible      \* TRUE when _parse_uncached may raise

ASSUME EntriesAssumption == MaxEntries \in Nat \ {0}
ASSUME CallsAssumption == MaxCalls \in Nat
ASSUME VersionsAssumption == Versions # {} /\ Files # {} /\ Options # {}

Keys == Versions \X Options
Flights == 1..MaxCalls
NoFlight == 0

VARIABLES
    content,    \* the bytes of a file
    cache,      \* _parse_cache, the least recently used entry first
    inflight,   \* _parse_inflight: the flight of a key, NoFlight when absent
    result,     \* of a flight's future: "open", or "error", or "done" with blocks
    pc,         \* the next statement of a thread's call of parse
    req,        \* its request: the file and the options
    call,       \* the number of its call, also the name of the Future it makes
    key,        \* the key it computed last
    cacheKey,   \* cache_key, the key it acquired a flight for
    flight,     \* that flight
    parsed,     \* the blocks it has parsed or been given, {} for none
    calls,      \* calls made
    replaced    \* history: a file was replaced while a call read it

locals == <<pc, req, call, key, cacheKey, flight, parsed>>
vars == <<content, cache, inflight, result, locals, calls, replaced>>

Owning == {"hashAgain", "getAgain", "parse", "hashToStore", "store", "publish", "fail"}
Pcs == {"idle", "hash", "get", "hashForFlight", "acquire", "await"} \cup Owning
Blocks == {{}} \cup {{k} : k \in Keys}
Results == [st : {"open", "error", "done"}, blocks : Blocks]
Open == [st |-> "open", blocks |-> {}]

AnyKey == CHOOSE k \in Keys : TRUE
AnyReq == CHOOSE r \in Files \X Options : TRUE

Init ==
    /\ content \in [Files -> Versions]
    /\ cache = <<>>
    /\ inflight = [k \in Keys |-> NoFlight]
    /\ result = [f \in Flights |-> Open]
    /\ pc = [t \in Threads |-> "idle"]
    /\ req = [t \in Threads |-> AnyReq]
    /\ call = [t \in Threads |-> NoFlight]
    /\ key = [t \in Threads |-> AnyKey]
    /\ cacheKey = [t \in Threads |-> AnyKey]
    /\ flight = [t \in Threads |-> NoFlight]
    /\ parsed = [t \in Threads |-> {}]
    /\ calls = 0
    /\ replaced = FALSE

-----------------------------------------------------------------------------
Turn(t, from, to) == pc[t] = from /\ pc' = [pc EXCEPT ![t] = to]

\* What the bytes and the options of t's request are now.
Source(t) == <<content[req[t][1]], req[t][2]>>

\* The entry of a key; there is one at most (CacheIsBounded).
Cached(k) == \E i \in DOMAIN cache : cache[i].key = k
Place(k) == CHOOSE i \in DOMAIN cache : cache[i].key = k
Others(k) == IF Cached(k) THEN RemoveAt(cache, Place(k)) ELSE cache

\* "while len(cache) > max: popitem(last=False)"; one entry was added.
Trim(c) == IF Len(c) > MaxEntries THEN Tail(c) ELSE c

Begin(t) ==
    /\ Turn(t, "idle", "hash")
    /\ calls < MaxCalls
    /\ calls' = calls + 1
    /\ call' = [call EXCEPT ![t] = calls + 1]
    /\ \E r \in Files \X Options : req' = [req EXCEPT ![t] = r]
    /\ UNCHANGED <<content, cache, inflight, result, key, cacheKey, flight, parsed, replaced>>

\* A key without the bytes of the source.
BadHash(t) ==
    /\ \/ Turn(t, "hash", "get")
       \/ Turn(t, "hashForFlight", "acquire")
       \/ Turn(t, "hashAgain", "getAgain")
       \/ Turn(t, "hashToStore", "store")
    /\ key' = [key EXCEPT ![t] = <<AnyKey[1], req[t][2]>>]
    /\ UNCHANGED <<content, cache, inflight, result, req, call, cacheKey, flight,
                   parsed, calls, replaced>>

\* _parse_cache_key reads the source, outside the lock.
Hash(t) ==
    /\ \/ Turn(t, "hash", "get")
       \/ Turn(t, "hashForFlight", "acquire")
       \/ Turn(t, "hashAgain", "getAgain")
       \/ Turn(t, "hashToStore", "store")
    /\ key' = [key EXCEPT ![t] = Source(t)]
    /\ UNCHANGED <<content, cache, inflight, result, req, call, cacheKey, flight,
                   parsed, calls, replaced>>

\* _get_cached_blocks moves an entry that it finds to the end.  The second
\* lookup of an owner goes on to the flight with it.
Get(t) ==
    /\ IF Cached(key[t])
       THEN LET entry == cache[Place(key[t])] IN
            /\ Turn(t, "get", "idle") \/ Turn(t, "getAgain", "publish")
            /\ cache' = Append(Others(key[t]), entry)
            /\ parsed' = [parsed EXCEPT ![t] = IF pc[t] = "get" THEN {} ELSE entry.blocks]
       ELSE /\ Turn(t, "get", "hashForFlight") \/ Turn(t, "getAgain", "parse")
            /\ UNCHANGED <<cache, parsed>>
    /\ UNCHANGED <<content, inflight, result, req, call, key, cacheKey, flight,
                   calls, replaced>>

\* _acquire_parse_flight that makes a flight without looking for another one.
BadAcquire(t) ==
    /\ Turn(t, "acquire", "hashAgain")
    /\ inflight' = [inflight EXCEPT ![key[t]] = call[t]]
    /\ flight' = [flight EXCEPT ![t] = call[t]]
    /\ cacheKey' = [cacheKey EXCEPT ![t] = key[t]]
    /\ UNCHANGED <<content, cache, result, req, call, key, parsed, calls, replaced>>

\* _acquire_parse_flight: join the flight of the key, or own a new one.
Acquire(t) ==
    LET found == inflight[key[t]] IN
    /\ IF found = NoFlight
       THEN /\ Turn(t, "acquire", "hashAgain")
            /\ inflight' = [inflight EXCEPT ![key[t]] = call[t]]
            /\ flight' = [flight EXCEPT ![t] = call[t]]
       ELSE /\ Turn(t, "acquire", "await")
            /\ flight' = [flight EXCEPT ![t] = found]
            /\ UNCHANGED inflight
    /\ cacheKey' = [cacheKey EXCEPT ![t] = key[t]]
    /\ UNCHANGED <<content, cache, result, req, call, key, parsed, calls, replaced>>

\* flight.result() returns or raises.
Await(t) ==
    /\ Turn(t, "await", "idle")
    /\ result[flight[t]] # Open
    /\ UNCHANGED <<content, cache, inflight, result, req, call, key, cacheKey, flight,
                   parsed, calls, replaced>>

\* _parse_uncached reads the source a last time for its content ...
Parse(t) ==
    /\ \/ Turn(t, "parse", "hashToStore") /\ parsed' = [parsed EXCEPT ![t] = {Source(t)}]
       \/ Fallible /\ Turn(t, "parse", "fail") /\ UNCHANGED parsed
    /\ UNCHANGED <<content, cache, inflight, result, req, call, key, cacheKey, flight,
                   calls, replaced>>

\* ... and _store_cached_blocks stores it under the key of the bytes of now.
Store(t) ==
    /\ Turn(t, "store", "publish")
    /\ cache' = Trim(Append(Others(key[t]), [key |-> key[t], blocks |-> parsed[t]]))
    /\ UNCHANGED <<content, inflight, result, req, call, key, cacheKey, flight, parsed,
                   calls, replaced>>

\* _finish_parse_flight that returns early for an error.
BadFinish(t) ==
    /\ \/ Turn(t, "fail", "idle") /\ UNCHANGED <<inflight, result>>
       \/ /\ Turn(t, "publish", "idle")
          /\ result' = [result EXCEPT ![flight[t]] = [st |-> "done", blocks |-> parsed[t]]]
          /\ inflight' = [inflight EXCEPT ![cacheKey[t]] = NoFlight]
    /\ parsed' = [parsed EXCEPT ![t] = {}]
    /\ UNCHANGED <<content, cache, req, call, key, cacheKey, flight, calls, replaced>>

\* _finish_parse_flight; the call returns or raises.
FinishFlight(t) ==
    /\ Turn(t, "publish", "idle") \/ Turn(t, "fail", "idle")
    /\ IF inflight[cacheKey[t]] = flight[t]
       THEN /\ result' = [result EXCEPT ![flight[t]] =
                  [st |-> IF pc[t] = "fail" THEN "error" ELSE "done", blocks |-> parsed[t]]]
            /\ inflight' = [inflight EXCEPT ![cacheKey[t]] = NoFlight]
       ELSE UNCHANGED <<inflight, result>>
    /\ parsed' = [parsed EXCEPT ![t] = {}]
    /\ UNCHANGED <<content, cache, req, call, key, cacheKey, flight, calls, replaced>>

\* Another process replaces a file.
Replace(f) ==
    /\ \E v \in Versions \ {content[f]} : content' = [content EXCEPT ![f] = v]
    /\ replaced' = (replaced \/ \E t \in Threads : pc[t] # "idle" /\ req[t][1] = f)
    /\ UNCHANGED <<cache, inflight, result, locals, calls>>

Proceed(t) ==
    Hash(t) \/ Get(t) \/ Acquire(t) \/ Await(t) \/ Parse(t) \/ Store(t) \/ FinishFlight(t)

Next == (\E t \in Threads : Begin(t) \/ Proceed(t)) \/ (\E f \in Files : Replace(f))

Spec == Init /\ [][Next]_vars

\* A thread that is not waiting keeps executing.
FairSpec == Spec /\ \A t \in Threads : WF_vars(Proceed(t))

-----------------------------------------------------------------------------
(* Properties. *)

TypeOK ==
    /\ content \in [Files -> Versions]
    /\ cache \in Seq([key : Keys, blocks : {{k} : k \in Keys}])
    /\ inflight \in [Keys -> Flights \cup {NoFlight}]
    /\ result \in [Flights -> Results]
    /\ pc \in [Threads -> Pcs]
    /\ req \in [Threads -> Files \X Options]
    /\ call \in [Threads -> Flights \cup {NoFlight}]
    /\ key \in [Threads -> Keys]
    /\ cacheKey \in [Threads -> Keys]
    /\ flight \in [Threads -> Flights \cup {NoFlight}]
    /\ parsed \in [Threads -> Blocks]
    /\ calls \in 0..MaxCalls
    /\ replaced \in BOOLEAN

\* Two threads never parse for the same key at once, though the lookups of the
\* cache and of the flights are two critical sections with a reading between.
OneParsePerKey ==
    \A s, t \in Threads :
        pc[s] \in Owning /\ pc[t] \in Owning /\ cacheKey[s] = cacheKey[t] => s = t

\* A thread that waits has a flight that is over or that a thread is going to
\* finish, also when the parse raises: nobody waits for a flight nobody owns.
WaiterHasOwner ==
    \A t \in Threads : pc[t] = "await" =>
        \/ result[flight[t]] # Open
        \/ \E s \in Threads : pc[s] \in Owning /\ flight[s] = flight[t]

\* The cache never holds more entries than it may, and one entry per key.
CacheIsBounded ==
    /\ Len(cache) <= MaxEntries
    /\ \A i, j \in DOMAIN cache : cache[i].key = cache[j].key => i = j

\* The single flight: one parse per key, and nobody waits in vain.
FlightsAreShared == OneParsePerKey /\ WaiterHasOwner

\* As long as no file is replaced under a request, what the cache holds under a
\* key, and what a flight was finished with, was parsed from those bytes.
CacheIsTrue ==
    ~replaced =>
        /\ \A i \in DOMAIN cache : cache[i].blocks = {cache[i].key}
        /\ \A t \in Threads : pc[t] = "await" /\ result[flight[t]].st = "done" =>
                result[flight[t]].blocks = {cacheKey[t]}

\* The cache is bounded, and holds what was parsed from the bytes of its keys.
EntriesAreTrue == CacheIsBounded /\ CacheIsTrue

\* Every request returns or raises, also one that waits for the parse of another
\* thread, which may raise.
EveryParseEnds == \A t \in Threads : pc[t] = "hash" ~> pc[t] = "idle"
=============================================================================
