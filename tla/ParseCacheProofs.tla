-------------------------- MODULE ParseCacheProofs --------------------------
(***************************************************************************)
(* The single flight of the parse cache, for any number of threads, files,   *)
(* options and calls: one parse per key at a time, and nobody waits for a    *)
(* flight that nobody is going to finish.                                    *)
(***************************************************************************)
EXTENDS ParseCache, SequenceTheorems, TLAPS

\* The types of what flights are made of; what is cached does not matter to them.
FlightTypeOK ==
    /\ inflight \in [Keys -> Nat]
    /\ DOMAIN result = Flights
    /\ pc \in [Threads -> Pcs]
    /\ call \in [Threads -> Nat]
    /\ key \in [Threads -> Keys]
    /\ cacheKey \in [Threads -> Keys]
    /\ flight \in [Threads -> Nat]
    /\ content \in [Files -> Versions]
    /\ req \in [Threads -> Files \X Options]
    /\ calls \in 0..MaxCalls

\* Calls have different numbers, so flights have different names.
CallsDiffer ==
    /\ \A t \in Threads : call[t] <= calls /\ (pc[t] # "idle" => call[t] # 0)
    /\ \A s, t \in Threads : call[s] = call[t] /\ call[s] # 0 => s = t

\* An owner's flight is its own, and is the one under its key.
OwnersOwn ==
    \A t \in Threads : pc[t] \in Owning =>
        flight[t] = call[t] /\ inflight[cacheKey[t]] = flight[t]

\* A flight under a key has an owner, of that key.
FlightsHaveOwners ==
    \A k \in Keys : inflight[k] # NoFlight =>
        \E s \in Threads : pc[s] \in Owning /\ flight[s] = inflight[k] /\ cacheKey[s] = k

\* WaiterHasOwner, with a state of the flight that is over.
WaitersWait ==
    \A t \in Threads : pc[t] = "await" =>
        /\ flight[t] \in Flights
        /\ \/ result[flight[t]].st # "open"
           \/ \E s \in Threads : pc[s] \in Owning /\ flight[s] = flight[t]

CacheInv == FlightTypeOK /\ CallsDiffer /\ OwnersOwn /\ FlightsHaveOwners /\ WaitersWait

-----------------------------------------------------------------------------
\* Nobody owns anything at first.
LEMMA CacheStarts == Init => CacheInv
<1> SUFFICES ASSUME Init PROVE CacheInv
    OBVIOUS
<1>1. PICK v \in Versions, g \in Files, o \in Options : TRUE
    BY VersionsAssumption
<1>2. AnyKey \in Keys /\ AnyReq \in Files \X Options
    <2>1. <<v, o>> \in Keys /\ <<g, o>> \in Files \X Options
        BY DEF Keys
    <2> QED
        BY <2>1 DEF AnyKey, AnyReq
<1>3. FlightTypeOK
    BY <1>2, CallsAssumption DEF Init, FlightTypeOK, NoFlight, Pcs
<1> QED
    BY <1>3 DEF Init, CacheInv, CallsDiffer, OwnersOwn, FlightsHaveOwners, WaitersWait, NoFlight, Owning

\* A step that moves one thread, not into a wait and not over the border of what
\* owners do, and leaves flights alone, keeps what is known of flights.
LEMMA MovesOn ==
    ASSUME CacheInv, NEW t \in Threads,
           pc' \in [Threads -> Pcs], \A s \in Threads \ {t} : pc'[s] = pc[s],
           pc'[t] # "await", pc'[t] \in Owning <=> pc[t] \in Owning,
           pc[t] # "idle",
           UNCHANGED <<inflight, result, call, cacheKey, flight, calls>>
    PROVE  CallsDiffer' /\ OwnersOwn' /\ FlightsHaveOwners' /\ WaitersWait'
<1>1. CallsDiffer'
    BY DEF CacheInv, CallsDiffer
<1>2. OwnersOwn'
    BY DEF CacheInv, OwnersOwn
<1>3. \A s \in Threads : pc'[s] \in Owning <=> pc[s] \in Owning
    OBVIOUS
<1>4. FlightsHaveOwners'
    BY <1>3 DEF CacheInv, FlightsHaveOwners
<1>5. WaitersWait'
    BY <1>3 DEF CacheInv, WaitersWait
<1> QED
    BY <1>1, <1>2, <1>4, <1>5

\* A call gets a number that no other has.
LEMMA BeginKeeps == ASSUME CacheInv, NEW t \in Threads, Begin(t) PROVE CacheInv'
<1>1. FlightTypeOK'
    BY CallsAssumption DEF CacheInv, FlightTypeOK, Begin, Turn, Pcs
<1>2. /\ pc[t] = "idle" /\ pc' = [pc EXCEPT ![t] = "hash"] /\ call' = [call EXCEPT ![t] = calls + 1]
      /\ calls' = calls + 1 /\ UNCHANGED <<inflight, result, cacheKey, flight>>
    BY DEF Begin, Turn
<1>3. CallsDiffer'
    BY <1>2 DEF CacheInv, FlightTypeOK, CallsDiffer
<1>4. \A s \in Threads : /\ pc'[s] \in Owning <=> pc[s] \in Owning
                         /\ pc'[s] \in Owning => call'[s] = call[s]
                         /\ pc'[s] = "await" => pc[s] = "await"
    BY <1>2 DEF CacheInv, FlightTypeOK, Owning
<1>5. OwnersOwn' /\ FlightsHaveOwners' /\ WaitersWait'
    BY <1>2, <1>4 DEF CacheInv, OwnersOwn, FlightsHaveOwners, WaitersWait
<1> QED
    BY <1>1, <1>3, <1>5 DEF CacheInv

\* Reading the source and computing a key of it.
LEMMA HashKeeps == ASSUME CacheInv, NEW t \in Threads, Hash(t) PROVE CacheInv'
<1>1. key' = [key EXCEPT ![t] = Source(t)] /\ UNCHANGED <<content, inflight, result, req, call, cacheKey, flight, calls>>
    BY DEF Hash
<1>2. Source(t) \in Keys
    BY DEF CacheInv, FlightTypeOK, Source, Keys
<1>3. \E from, to \in Pcs : /\ pc[t] = from /\ pc' = [pc EXCEPT ![t] = to]
                            /\ from # "idle" /\ to # "await" /\ (from \in Owning <=> to \in Owning)
    BY DEF Hash, Turn, Pcs, Owning
<1>4. FlightTypeOK'
    BY <1>1, <1>2, <1>3 DEF CacheInv, FlightTypeOK
<1> QED
    BY <1>1, <1>3, <1>4, MovesOn DEF CacheInv, FlightTypeOK

\* Looking up the cache.
LEMMA GetKeeps == ASSUME CacheInv, NEW t \in Threads, Get(t) PROVE CacheInv'
<1>1. UNCHANGED <<content, inflight, result, req, call, key, cacheKey, flight, calls>>
    BY DEF Get
<1>2. \E from, to \in Pcs : /\ pc[t] = from /\ pc' = [pc EXCEPT ![t] = to]
                            /\ from # "idle" /\ to # "await" /\ (from \in Owning <=> to \in Owning)
    BY DEF Get, Turn, Pcs, Owning
<1>3. FlightTypeOK'
    BY <1>1, <1>2 DEF CacheInv, FlightTypeOK
<1> QED
    BY <1>1, <1>2, <1>3, MovesOn DEF CacheInv, FlightTypeOK

\* Joining a flight, or making one where there is none.
LEMMA AcquireKeeps == ASSUME CacheInv, NEW t \in Threads, Acquire(t) PROVE CacheInv'
<1> DEFINE k == key[t]
<1>1. /\ pc[t] = "acquire" /\ cacheKey' = [cacheKey EXCEPT ![t] = k]
      /\ UNCHANGED <<content, result, req, call, key, calls>>
    BY DEF Acquire, Turn
<1>2. k \in Keys /\ call[t] \in Nat /\ call[t] # 0 /\ inflight[k] \in Nat
    BY <1>1 DEF CacheInv, FlightTypeOK, CallsDiffer
<1>3. CASE inflight[k] = NoFlight
    <2>1. /\ pc' = [pc EXCEPT ![t] = "hashAgain"]
          /\ inflight' = [inflight EXCEPT ![k] = call[t]] /\ flight' = [flight EXCEPT ![t] = call[t]]
        BY <1>3 DEF Acquire, Turn
    <2>2. FlightTypeOK'
        BY <1>1, <1>2, <2>1 DEF CacheInv, FlightTypeOK, Pcs, Owning
    <2>3. CallsDiffer'
        BY <1>1, <1>2, <2>1 DEF CacheInv, FlightTypeOK, CallsDiffer
    <2>4. \A s \in Threads \ {t} : /\ pc'[s] = pc[s] /\ flight'[s] = flight[s] /\ cacheKey'[s] = cacheKey[s]
                                   /\ call'[s] = call[s]
        BY <1>1, <2>1 DEF CacheInv, FlightTypeOK
    <2>5. /\ pc'[t] \in Owning /\ flight'[t] = call[t] /\ cacheKey'[t] = k /\ call'[t] = call[t]
          /\ pc'[t] # "await" /\ pc[t] \notin Owning
        BY <1>1, <2>1 DEF CacheInv, FlightTypeOK, Owning
    <2>6. \A s \in Threads \ {t} : pc[s] \in Owning => cacheKey[s] # k
        BY <1>3 DEF CacheInv, FlightTypeOK, OwnersOwn, CallsDiffer, NoFlight, Owning
    <2>7. OwnersOwn'
        BY <1>2, <2>1, <2>4, <2>5, <2>6 DEF CacheInv, FlightTypeOK, OwnersOwn
    <2>8. FlightsHaveOwners'
        BY <1>2, <2>1, <2>4, <2>5 DEF CacheInv, FlightTypeOK, FlightsHaveOwners
    <2>9. WaitersWait'
        BY <1>1, <2>4, <2>5 DEF CacheInv, WaitersWait
    <2> QED
        BY <2>2, <2>3, <2>7, <2>8, <2>9 DEF CacheInv
<1>4. CASE inflight[k] # NoFlight
    <2>1. /\ pc' = [pc EXCEPT ![t] = "await"] /\ inflight' = inflight
          /\ flight' = [flight EXCEPT ![t] = inflight[k]]
        BY <1>4 DEF Acquire, Turn
    <2>2. FlightTypeOK'
        BY <1>1, <1>2, <2>1 DEF CacheInv, FlightTypeOK, Pcs, Owning
    <2>3. CallsDiffer'
        BY <1>1, <1>2, <2>1 DEF CacheInv, FlightTypeOK, CallsDiffer
    <2>4. \A s \in Threads \ {t} : /\ pc'[s] = pc[s] /\ flight'[s] = flight[s] /\ cacheKey'[s] = cacheKey[s]
                                   /\ call'[s] = call[s]
        BY <1>1, <2>1 DEF CacheInv, FlightTypeOK
    <2>5. pc'[t] \notin Owning /\ pc[t] \notin Owning /\ flight'[t] = inflight[k]
        BY <1>1, <2>1 DEF CacheInv, FlightTypeOK, Owning
    <2>6. OwnersOwn'
        BY <2>1, <2>4, <2>5 DEF CacheInv, OwnersOwn
    <2>7. FlightsHaveOwners'
        BY <2>1, <2>4, <2>5 DEF CacheInv, FlightsHaveOwners
    <2>8. PICK s \in Threads : pc[s] \in Owning /\ flight[s] = inflight[k] /\ cacheKey[s] = k
        BY <1>2, <1>4 DEF CacheInv, FlightsHaveOwners
    <2>9. s # t /\ pc'[s] \in Owning /\ flight'[s] = inflight[k]
        BY <2>4, <2>5, <2>8
    <2>10. inflight[k] \in Flights
        <3>1. flight[s] = call[s] /\ call[s] <= calls
            BY <2>8 DEF CacheInv, OwnersOwn, CallsDiffer
        <3> QED
            BY <1>2, <1>4, <2>8, <3>1, CallsAssumption DEF CacheInv, FlightTypeOK, Flights, NoFlight
    <2>11. WaitersWait'
        BY <1>1, <2>4, <2>5, <2>9, <2>10 DEF CacheInv, WaitersWait
    <2> QED
        BY <2>2, <2>3, <2>6, <2>7, <2>11 DEF CacheInv
<1> QED
    BY <1>3, <1>4

\* A flight that is over.
LEMMA AwaitKeeps == ASSUME CacheInv, NEW t \in Threads, Await(t) PROVE CacheInv'
<1>1. UNCHANGED <<content, inflight, result, req, call, key, cacheKey, flight, calls>>
    BY DEF Await
<1>2. \E from, to \in Pcs : /\ pc[t] = from /\ pc' = [pc EXCEPT ![t] = to]
                            /\ from # "idle" /\ to # "await" /\ (from \in Owning <=> to \in Owning)
    BY DEF Await, Turn, Pcs, Owning
<1>3. FlightTypeOK'
    BY <1>1, <1>2 DEF CacheInv, FlightTypeOK
<1> QED
    BY <1>1, <1>2, <1>3, MovesOn DEF CacheInv, FlightTypeOK

\* The parse itself and the storing of what it gave.
LEMMA ParseKeeps == ASSUME CacheInv, NEW t \in Threads, Parse(t) \/ Store(t) PROVE CacheInv'
<1>1. UNCHANGED <<content, inflight, result, req, call, key, cacheKey, flight, calls>>
    BY DEF Parse, Store
<1>2. \E from, to \in Pcs : /\ pc[t] = from /\ pc' = [pc EXCEPT ![t] = to]
                            /\ from # "idle" /\ to # "await" /\ (from \in Owning <=> to \in Owning)
    BY DEF Parse, Store, Turn, Pcs, Owning
<1>3. FlightTypeOK'
    BY <1>1, <1>2 DEF CacheInv, FlightTypeOK
<1> QED
    BY <1>1, <1>2, <1>3, MovesOn DEF CacheInv, FlightTypeOK

\* An owner finishes its flight, whether its parse has failed or not.
LEMMA FinishKeeps == ASSUME CacheInv, NEW t \in Threads, FinishFlight(t) PROVE CacheInv'
<1> DEFINE k == cacheKey[t]
           f == flight[t]
<1>1. /\ pc[t] \in Owning /\ pc' = [pc EXCEPT ![t] = "idle"]
      /\ UNCHANGED <<content, req, call, key, cacheKey, flight, calls>>
    BY DEF FinishFlight, Turn, Owning
<1>2. inflight[k] = f /\ f = call[t] /\ k \in Keys /\ f \in Flights
    <2>1. inflight[k] = f /\ f = call[t] /\ k \in Keys
        BY <1>1 DEF CacheInv, FlightTypeOK, OwnersOwn
    <2>2. call[t] \in Nat /\ call[t] # 0 /\ call[t] <= MaxCalls
        BY <1>1, CallsAssumption DEF CacheInv, FlightTypeOK, CallsDiffer, Owning
    <2> QED
        BY <2>1, <2>2, CallsAssumption DEF Flights
<1>3. /\ inflight' = [inflight EXCEPT ![k] = NoFlight]
      /\ result' = [result EXCEPT ![f] =
             [st |-> IF pc[t] = "fail" THEN "error" ELSE "done", blocks |-> parsed[t]]]
    BY <1>2 DEF FinishFlight
<1>4. FlightTypeOK'
    BY <1>1, <1>2, <1>3 DEF CacheInv, FlightTypeOK, NoFlight, Pcs
<1>5. CallsDiffer'
    BY <1>1 DEF CacheInv, FlightTypeOK, CallsDiffer
<1>6. \A s \in Threads \ {t} : pc'[s] = pc[s]
    BY <1>1 DEF CacheInv, FlightTypeOK
<1>7. pc'[t] = "idle" /\ pc'[t] \notin Owning /\ pc'[t] # "await"
    BY <1>1 DEF CacheInv, FlightTypeOK, Owning
<1>8. \A s \in Threads \ {t} : pc[s] \in Owning => flight[s] # f /\ cacheKey[s] # k
    <2> SUFFICES ASSUME NEW s \in Threads \ {t}, pc[s] \in Owning
                 PROVE  flight[s] # f /\ cacheKey[s] # k
        OBVIOUS
    <2>1. flight[s] = call[s] /\ inflight[cacheKey[s]] = flight[s]
        BY DEF CacheInv, OwnersOwn
    <2>2. call[s] # 0
        BY DEF CacheInv, CallsDiffer, Owning
    <2>3. call[s] # call[t]
        BY <2>2 DEF CacheInv, CallsDiffer
    <2> QED
        BY <1>2, <2>1, <2>3
<1>9. OwnersOwn'
    BY <1>1, <1>2, <1>3, <1>6, <1>7, <1>8 DEF CacheInv, FlightTypeOK, OwnersOwn
<1>10. FlightsHaveOwners'
    <2> SUFFICES ASSUME NEW q \in Keys, inflight'[q] # NoFlight
                 PROVE  \E s \in Threads : /\ pc'[s] \in Owning /\ flight'[s] = inflight'[q]
                                           /\ cacheKey'[s] = q
        BY DEF FlightsHaveOwners
    <2>1. q # k /\ inflight'[q] = inflight[q]
        BY <1>2, <1>3 DEF CacheInv, FlightTypeOK
    <2>2. PICK s \in Threads : pc[s] \in Owning /\ flight[s] = inflight[q] /\ cacheKey[s] = q
        BY <2>1 DEF CacheInv, FlightsHaveOwners
    <2>3. s # t
        BY <2>1, <2>2
    <2> QED
        BY <1>1, <1>6, <2>1, <2>2, <2>3
<1>11. WaitersWait'
    <2> SUFFICES ASSUME NEW w \in Threads, pc'[w] = "await"
                 PROVE  /\ flight'[w] \in Flights
                        /\ \/ result'[flight'[w]].st # "open"
                           \/ \E s \in Threads : pc'[s] \in Owning /\ flight'[s] = flight'[w]
        BY DEF WaitersWait
    <2>1. w # t /\ pc[w] = "await" /\ flight'[w] = flight[w]
        BY <1>1, <1>6, <1>7
    <2>2. /\ flight[w] \in Flights
          /\ \/ result[flight[w]].st # "open"
             \/ \E s \in Threads : pc[s] \in Owning /\ flight[s] = flight[w]
        BY <2>1 DEF CacheInv, WaitersWait
    <2>3. CASE flight[w] = f
        BY <1>2, <1>3, <2>1, <2>2, <2>3 DEF CacheInv, FlightTypeOK
    <2>4. CASE flight[w] # f
        <3>1. result'[flight[w]] = result[flight[w]]
            BY <1>3, <2>2, <2>4 DEF CacheInv, FlightTypeOK
        <3> QED
            BY <1>1, <1>6, <2>1, <2>2, <2>4, <3>1
    <2> QED
        BY <2>3, <2>4
<1> QED
    BY <1>4, <1>5, <1>9, <1>10, <1>11 DEF CacheInv

\* A file is replaced.
LEMMA ReplaceKeeps == ASSUME CacheInv, NEW g \in Files, Replace(g) PROVE CacheInv'
<1>1. content' \in [Files -> Versions]
    BY DEF CacheInv, FlightTypeOK, Replace
<1>2. UNCHANGED <<inflight, result, pc, req, call, key, cacheKey, flight, calls>>
    BY DEF Replace, locals
<1> QED
    BY <1>1, <1>2 DEF CacheInv, FlightTypeOK, CallsDiffer, OwnersOwn, FlightsHaveOwners, WaitersWait
-----------------------------------------------------------------------------
\* Every step keeps the invariant.
LEMMA CacheGoesOn == CacheInv /\ [Next]_vars => CacheInv'
<1> SUFFICES ASSUME CacheInv, [Next]_vars PROVE CacheInv'
    OBVIOUS
<1>1. CASE UNCHANGED vars
    BY <1>1 DEF vars, locals, CacheInv, FlightTypeOK, CallsDiffer, OwnersOwn, FlightsHaveOwners, WaitersWait
<1>2. ASSUME NEW t \in Threads, Begin(t) PROVE CacheInv'
    BY <1>2, BeginKeeps
<1>3. ASSUME NEW t \in Threads, Proceed(t) PROVE CacheInv'
    BY <1>3, HashKeeps, GetKeeps, AcquireKeeps, AwaitKeeps, ParseKeeps, FinishKeeps DEF Proceed
<1>4. ASSUME NEW g \in Files, Replace(g) PROVE CacheInv'
    BY <1>4, ReplaceKeeps
<1> QED
    BY <1>1, <1>2, <1>3, <1>4 DEF Next

\* _acquire_parse_flight and _finish_parse_flight, whatever the cache does and whoever
\* replaces files: no two threads parse for the same key at once, and whoever waits
\* has a flight that is over or that a thread is going to finish.
THEOREM SingleFlight == Spec => []FlightsAreShared
<1>1. Init => CacheInv
    BY CacheStarts
<1>2. CacheInv /\ [Next]_vars => CacheInv'
    BY CacheGoesOn
<1>3. CacheInv => FlightsAreShared
    <2> SUFFICES ASSUME CacheInv PROVE OneParsePerKey /\ WaiterHasOwner
        BY DEF FlightsAreShared
    <2>1. OneParsePerKey
        BY DEF CacheInv, OwnersOwn, CallsDiffer, OneParsePerKey, Owning
    <2>2. WaiterHasOwner
        BY DEF CacheInv, WaitersWait, WaiterHasOwner, Open
    <2> QED
        BY <2>1, <2>2
<1> QED
    BY <1>1, <1>2, <1>3, PTL DEF Spec

-----------------------------------------------------------------------------
(* What the cache holds and what waiters are given.                        *)

Given == {"hashToStore", "store", "publish"}
Entry == [key : Keys, blocks : {{k} : k \in Keys}]
OneEach(c) == \A i, j \in DOMAIN c : c[i].key = c[j].key => i = j

\* The types that FlightTypeOK leaves out; who stores or publishes has blocks.
ContentTypeOK ==
    /\ cache \in Seq(Entry)
    /\ result \in [Flights -> Results]
    /\ parsed \in [Threads -> Blocks]
    /\ \A t \in Threads : pc[t] \in Given => parsed[t] # {}
    /\ flight \in [Threads -> Flights \cup {NoFlight}]
    /\ replaced \in BOOLEAN

\* A call's own flight is open until the call ends, and so are those of later calls.
FlightsAreOpen ==
    /\ \A t \in Threads : pc[t] # "idle" => result[call[t]].st = "open"
    /\ \A f \in Flights : f > calls => result[f].st = "open"

\* Who waits for an owner asked for the same key.
WaitersShareKeys ==
    \A t, s \in Threads :
        pc[t] = "await" /\ pc[s] \in Owning /\ flight[t] = flight[s] => cacheKey[t] = cacheKey[s]

\* What a call knows is of the bytes that its source has.
KnowsItsSource(t) ==
    /\ pc[t] \notin {"idle", "hash"} => key[t] = Source(t)
    /\ pc[t] \in Owning \cup {"await"} => cacheKey[t] = Source(t)
    /\ pc[t] \in Given => parsed[t] = {Source(t)}

EntriesTell == \A i \in DOMAIN cache : cache[i].blocks = {cache[i].key}
WaitersAreTold ==
    \A t \in Threads : pc[t] = "await" /\ result[flight[t]].st = "done" =>
        result[flight[t]].blocks = {cacheKey[t]}

SourcesAreKnown ==
    ~replaced => (\A t \in Threads : KnowsItsSource(t)) /\ EntriesTell /\ WaitersAreTold

ContentInv ==
    /\ ContentTypeOK /\ CacheIsBounded /\ FlightsAreOpen /\ WaitersShareKeys /\ SourcesAreKnown

-----------------------------------------------------------------------------
\* What removing an entry leaves of the list.
LEMMA RemoveAtElements ==
    ASSUME NEW S, NEW s \in Seq(S), NEW i \in 1..Len(s)
    PROVE  /\ RemoveAt(s, i) \in Seq(S)
           /\ Len(RemoveAt(s, i)) = Len(s) - 1
           /\ \A k \in 1..(Len(s) - 1) : RemoveAt(s, i)[k] = IF k < i THEN s[k] ELSE s[k + 1]
<1>1. Len(s) \in Nat /\ i \in Nat /\ s \in [1..Len(s) -> S]
  OBVIOUS
<1>2. /\ SubSeq(s, 1, i - 1) \in Seq(S) /\ Len(SubSeq(s, 1, i - 1)) = i - 1
      /\ \A k \in 1..(i - 1) : SubSeq(s, 1, i - 1)[k] = s[k]
  BY <1>1, SubSeqProperties
<1>3. /\ SubSeq(s, i + 1, Len(s)) \in Seq(S) /\ Len(SubSeq(s, i + 1, Len(s))) = Len(s) - i
      /\ \A k \in 1..(Len(s) - i) : SubSeq(s, i + 1, Len(s))[k] = s[k + i]
  <2>1. /\ SubSeq(s, i + 1, Len(s)) \in Seq(S)
        /\ Len(SubSeq(s, i + 1, Len(s))) = IF i + 1 <= Len(s) THEN Len(s) - (i + 1) + 1 ELSE 0
        /\ \A k \in 1..(Len(s) - (i + 1) + 1) : SubSeq(s, i + 1, Len(s))[k] = s[(i + 1) + k - 1]
    BY <1>1, SubSeqProperties
  <2> DEFINE l == Len(SubSeq(s, i + 1, Len(s)))
             n == Len(s)
  <2>a. l = IF i + 1 <= n THEN n - (i + 1) + 1 ELSE 0
    BY <2>1
  <2>b. n \in Nat /\ i \in 1..n
    BY <1>1
  <2> HIDE DEF l, n
  <2>c. l = n - i
    BY <2>a, <2>b
  <2>2. Len(SubSeq(s, i + 1, Len(s))) = Len(s) - i
    BY <2>c DEF l, n
  <2>3. ASSUME NEW k \in 1..(Len(s) - i)
        PROVE  k \in 1..(Len(s) - (i + 1) + 1) /\ (i + 1) + k - 1 = k + i
    BY <1>1
  <2>4. ASSUME NEW k \in 1..(Len(s) - i)
        PROVE  SubSeq(s, i + 1, Len(s))[k] = s[k + i]
    BY <2>1, <2>3
  <2> QED
    BY <2>1, <2>2, <2>4
<1> DEFINE a == SubSeq(s, 1, i - 1)
           b == SubSeq(s, i + 1, Len(s))
<1> HIDE DEF a, b
<1>4. RemoveAt(s, i) = a \o b
  BY DEF RemoveAt, a, b
<1>5. /\ a \in Seq(S) /\ Len(a) = i - 1 /\ \A k \in 1..(i - 1) : a[k] = s[k]
      /\ b \in Seq(S) /\ Len(b) = Len(s) - i /\ \A k \in 1..(Len(s) - i) : b[k] = s[k + i]
  BY <1>2, <1>3 DEF a, b
<1>6. /\ a \o b \in Seq(S) /\ Len(a \o b) = Len(s) - 1
      /\ \A k \in 1..(Len(s) - 1) : (a \o b)[k] = IF k < i THEN a[k] ELSE b[k - i + 1]
  <2>1. /\ a \o b \in Seq(S) /\ Len(a \o b) = Len(a) + Len(b)
        /\ \A k \in 1..(Len(a) + Len(b)) :
              (a \o b)[k] = IF k <= Len(a) THEN a[k] ELSE b[k - Len(a)]
    BY <1>5, ConcatProperties
  <2>2. Len(a) + Len(b) = Len(s) - 1
    BY <1>1, <1>5
  <2>3. ASSUME NEW k \in 1..(Len(s) - 1)
        PROVE  (k <= Len(a) <=> k < i) /\ k - Len(a) = k - i + 1
    BY <1>1, <1>5
  <2> QED
    BY <2>1, <2>2, <2>3
<1>7. ASSUME NEW k \in 1..(Len(s) - 1)
      PROVE  (a \o b)[k] = IF k < i THEN s[k] ELSE s[k + 1]
  <2>1. CASE k < i
    BY <1>1, <1>5, <1>6, <2>1
  <2>2. CASE ~(k < i)
    <3>1. k - i + 1 \in 1..(Len(s) - i) /\ (k - i + 1) + i = k + 1
      BY <1>1, <2>2
    <3> QED
      BY <1>5, <1>6, <2>2, <3>1
  <2> QED
    BY <2>1, <2>2
<1> QED
  BY <1>4, <1>6, <1>7

\* There is one entry of a key at most, so Others is without it.
LEMMA OthersAreOther ==
    ASSUME NEW S, NEW k, cache \in Seq(S), OneEach(cache)
    PROVE  /\ Others(k) \in Seq(S) /\ OneEach(Others(k)) /\ Range(Others(k)) \subseteq Range(cache)
           /\ \A i \in DOMAIN Others(k) : Others(k)[i].key # k
           /\ Len(Others(k)) = IF Cached(k) THEN Len(cache) - 1 ELSE Len(cache)
<1>1. CASE ~Cached(k)
    BY <1>1 DEF Others, Cached
<1>2. CASE Cached(k)
    <2> DEFINE p == Place(k)
               r == RemoveAt(cache, p)
    <2>1. p \in DOMAIN cache /\ cache[p].key = k
        BY <1>2 DEF Cached, Place
    <2>2. DOMAIN cache = 1..Len(cache) /\ Len(cache) \in Nat
        OBVIOUS
    <2>3. p \in 1..Len(cache)
        BY <2>1, <2>2
    <2> HIDE DEF p
    <2>4. /\ r \in Seq(S) /\ Len(r) = Len(cache) - 1
          /\ \A i \in 1..(Len(cache) - 1) : r[i] = IF i < p THEN cache[i] ELSE cache[i + 1]
        BY <2>3, RemoveAtElements
    <2> HIDE DEF r
    <2>5. DOMAIN r = 1..(Len(cache) - 1)
        BY <2>4
    <2>6. ASSUME NEW i \in DOMAIN r
          PROVE  \E j \in DOMAIN cache : r[i] = cache[j] /\ j # p /\ j = IF i < p THEN i ELSE i + 1
        BY <2>2, <2>3, <2>4, <2>5
    <2>7. Range(r) \subseteq Range(cache)
        BY <2>6 DEF Range
    <2>8. \A i \in DOMAIN r : r[i].key # k
        BY <2>1, <2>6 DEF OneEach
    <2>9. OneEach(r)
        <3> SUFFICES ASSUME NEW i \in DOMAIN r, NEW j \in DOMAIN r, r[i].key = r[j].key PROVE i = j
            BY DEF OneEach
        <3>1. PICK a \in DOMAIN cache : r[i] = cache[a] /\ a = IF i < p THEN i ELSE i + 1
            BY <2>6
        <3>2. PICK b \in DOMAIN cache : r[j] = cache[b] /\ b = IF j < p THEN j ELSE j + 1
            BY <2>6
        <3>3. a = b
            BY <3>1, <3>2 DEF OneEach
        <3> QED
            BY <2>2, <2>3, <2>5, <3>1, <3>2, <3>3
    <2>10. Others(k) = r
        BY <1>2 DEF Others, r, p
    <2> QED
        BY <1>2, <2>4, <2>7, <2>8, <2>9, <2>10
<1> QED
    BY <1>1, <1>2

\* An entry of another key is added at the end.
LEMMA EntryAdded ==
    ASSUME NEW S, NEW c \in Seq(S), OneEach(c), NEW e \in S, \A i \in DOMAIN c : c[i].key # e.key
    PROVE  /\ Append(c, e) \in Seq(S) /\ OneEach(Append(c, e)) /\ Len(Append(c, e)) = Len(c) + 1
           /\ Range(Append(c, e)) \subseteq Range(c) \cup {e}
<1> DEFINE a == Append(c, e)
<1>1. /\ a \in Seq(S) /\ Len(a) = Len(c) + 1 /\ DOMAIN a = 1..(Len(c) + 1) /\ DOMAIN c = 1..Len(c)
      /\ Len(c) \in Nat /\ a[Len(c) + 1] = e /\ \A i \in 1..Len(c) : a[i] = c[i]
    OBVIOUS
<1> HIDE DEF a
<1>2. \A i \in DOMAIN a : (i \in DOMAIN c /\ a[i] = c[i]) \/ (i = Len(c) + 1 /\ a[i] = e)
    BY <1>1
<1>3. OneEach(a)
    BY <1>2 DEF OneEach
<1>4. Range(a) \subseteq Range(c) \cup {e}
    BY <1>2 DEF Range
<1> QED
    BY <1>1, <1>3, <1>4 DEF a

\* What is over the limit goes, the least recently used first.
LEMMA Trimmed ==
    ASSUME NEW S, NEW c \in Seq(S), OneEach(c), Len(c) =< MaxEntries + 1
    PROVE  /\ Trim(c) \in Seq(S) /\ OneEach(Trim(c)) /\ Len(Trim(c)) =< MaxEntries
           /\ Range(Trim(c)) \subseteq Range(c)
<1>1. CASE ~(Len(c) > MaxEntries)
    BY <1>1, EntriesAssumption DEF Trim
<1>2. CASE Len(c) > MaxEntries
    <2> DEFINE r == Tail(c)
    <2>1. Len(c) \in Nat /\ Len(c) > 0 /\ DOMAIN c = 1..Len(c) /\ MaxEntries \in Nat
        BY <1>2, EntriesAssumption
    <2>2. /\ r \in Seq(S) /\ Len(r) = Len(c) - 1 /\ DOMAIN r = 1..(Len(c) - 1)
          /\ \A i \in 1..(Len(c) - 1) : r[i] = c[i + 1]
        BY <2>1
    <2> HIDE DEF r
    <2>3. \A i \in DOMAIN r : i + 1 \in DOMAIN c /\ r[i] = c[i + 1]
        BY <2>1, <2>2
    <2>4. Range(r) \subseteq Range(c)
        BY <2>3 DEF Range
    <2>5. OneEach(r)
        <3> SUFFICES ASSUME NEW i \in DOMAIN r, NEW j \in DOMAIN r, r[i].key = r[j].key PROVE i = j
            BY DEF OneEach
        <3>1. i + 1 = j + 1
            BY <2>3 DEF OneEach
        <3> QED
            BY <2>1, <2>2, <3>1
    <2> QED
        BY <1>2, <2>1, <2>2, <2>4, <2>5 DEF Trim, r
<1> QED
    BY <1>1, <1>2

-----------------------------------------------------------------------------
\* Nothing is cached and nobody has asked at first.
LEMMA ContentStarts == Init => ContentInv
<1> SUFFICES ASSUME Init PROVE ContentInv
    OBVIOUS
<1>1. ContentTypeOK
    <2>1. {} \in Blocks /\ Open \in Results
        BY DEF Blocks, Results, Open
    <2>2. cache \in Seq(Entry) /\ replaced \in BOOLEAN
        <3>1. cache = <<>> /\ replaced = FALSE
            BY DEF Init
        <3>2. <<>> \in Seq(Entry)
            OBVIOUS
        <3>3. FALSE \in BOOLEAN
            BY Zenon
        <3> QED
            BY <3>1, <3>2, <3>3, Zenon
    <2>3. result \in [Flights -> Results] /\ parsed \in [Threads -> Blocks]
        BY <2>1 DEF Init
    <2> QED
        BY <2>2, <2>3 DEF Init, ContentTypeOK, Given, NoFlight
<1>2. CacheIsBounded
    BY EntriesAssumption DEF Init, CacheIsBounded
<1>3. FlightsAreOpen /\ WaitersShareKeys /\ SourcesAreKnown
    BY DEF Init, FlightsAreOpen, Open, WaitersShareKeys, SourcesAreKnown, KnowsItsSource, EntriesTell,
           WaitersAreTold, Owning, Given
<1> QED
    BY <1>1, <1>2, <1>3 DEF ContentInv

\* What is known of flights does not depend on a step within a call that leaves them alone.
LEMMA FlightsStay ==
    ASSUME ContentInv, NEW t \in Threads,
           \A s \in Threads \ {t} : pc'[s] = pc[s],
           pc'[t] # "await", pc'[t] \in Owning <=> pc[t] \in Owning, pc[t] # "idle",
           UNCHANGED <<result, call, cacheKey, flight, calls>>
    PROVE  FlightsAreOpen' /\ WaitersShareKeys' /\ (WaitersAreTold => WaitersAreTold')
<1>1. FlightsAreOpen'
    BY DEF ContentInv, FlightsAreOpen
<1>2. \A s \in Threads : /\ pc'[s] \in Owning <=> pc[s] \in Owning
                         /\ pc'[s] = "await" => pc[s] = "await"
    OBVIOUS
<1>3. WaitersShareKeys'
    BY <1>2 DEF ContentInv, WaitersShareKeys
<1>4. WaitersAreTold => WaitersAreTold'
    BY <1>2 DEF WaitersAreTold
<1> QED
    BY <1>1, <1>3, <1>4

\* Neither does what the other calls know depend on it.
LEMMA OthersKnow ==
    ASSUME NEW t \in Threads, \A s \in Threads : KnowsItsSource(s), UNCHANGED content,
           \A s \in Threads \ {t} : /\ pc'[s] = pc[s] /\ req'[s] = req[s] /\ key'[s] = key[s]
                                    /\ cacheKey'[s] = cacheKey[s] /\ parsed'[s] = parsed[s]
    PROVE  \A s \in Threads \ {t} : KnowsItsSource(s)'
BY DEF KnowsItsSource, Source

\* A call that begins knows nothing, and its flight is a new one.
LEMMA BeginTells == ASSUME CacheInv, ContentInv, NEW t \in Threads, Begin(t) PROVE ContentInv'
<1>1. /\ pc[t] = "idle" /\ pc' = [pc EXCEPT ![t] = "hash"] /\ call' = [call EXCEPT ![t] = calls + 1]
      /\ calls < MaxCalls /\ calls' = calls + 1
      /\ UNCHANGED <<content, cache, result, key, cacheKey, flight, parsed, replaced>>
    BY DEF Begin, Turn
<1>2. PICK r \in Files \X Options : req' = [req EXCEPT ![t] = r]
    BY DEF Begin
<1>3. /\ \A s \in Threads \ {t} : pc'[s] = pc[s] /\ call'[s] = call[s] /\ req'[s] = req[s]
      /\ pc'[t] = "hash" /\ call'[t] = calls + 1
      /\ calls + 1 \in Flights /\ calls \in Nat
    BY <1>1, <1>2, CallsAssumption DEF CacheInv, FlightTypeOK, Flights
<1>4. ContentTypeOK'
    BY <1>1, <1>3 DEF ContentInv, ContentTypeOK, Given
<1>5. CacheIsBounded'
    BY <1>1 DEF ContentInv, CacheIsBounded
<1>6. FlightsAreOpen'
    <2>1. result[calls + 1].st = "open"
        BY <1>3 DEF ContentInv, FlightsAreOpen
    <2>2. \A f \in Flights : f > calls + 1 => f > calls
        BY <1>3 DEF Flights
    <2> QED
        BY <1>1, <1>3, <2>1, <2>2 DEF ContentInv, FlightsAreOpen
<1>7. pc'[t] \notin Owning /\ pc'[t] # "await"
    BY <1>3 DEF Owning
<1>8. WaitersShareKeys'
    BY <1>1, <1>3, <1>7 DEF ContentInv, WaitersShareKeys
<1>9. SourcesAreKnown'
    <2> SUFFICES ASSUME ~replaced
                 PROVE  (\A s \in Threads : KnowsItsSource(s)') /\ EntriesTell' /\ WaitersAreTold'
        BY <1>1 DEF SourcesAreKnown
    <2>1. (\A s \in Threads : KnowsItsSource(s)) /\ EntriesTell /\ WaitersAreTold
        BY DEF ContentInv, SourcesAreKnown
    <2>2. KnowsItsSource(t)'
        BY <1>3 DEF KnowsItsSource, Owning, Given
    <2>3. \A s \in Threads \ {t} : KnowsItsSource(s)'
        BY <1>1, <1>3, <2>1, OthersKnow
    <2>4. EntriesTell' /\ WaitersAreTold'
        BY <1>1, <1>3, <1>7, <2>1 DEF EntriesTell, WaitersAreTold
    <2> QED
        BY <2>2, <2>3, <2>4
<1> QED
    BY <1>4, <1>5, <1>6, <1>8, <1>9 DEF ContentInv

\* A key is of the bytes that were read for it.
LEMMA HashTells == ASSUME CacheInv, ContentInv, NEW t \in Threads, Hash(t) PROVE ContentInv'
<1>1. /\ key' = [key EXCEPT ![t] = Source(t)]
      /\ UNCHANGED <<content, cache, result, req, call, cacheKey, flight, parsed, calls, replaced>>
    BY DEF Hash
<1>2. /\ \A s \in Threads \ {t} : pc'[s] = pc[s]
      /\ pc[t] # "idle" /\ pc'[t] # "await"
      /\ pc'[t] \in Owning <=> pc[t] \in Owning
      /\ pc'[t] \in Given <=> pc[t] \in Given
    <2>1. PICK from, to \in Pcs : pc[t] = from /\ pc' = [pc EXCEPT ![t] = to]
                                /\ from # "idle" /\ to # "await"
                                /\ (to \in Owning <=> from \in Owning) /\ (to \in Given <=> from \in Given)
        BY DEF Hash, Turn, Pcs, Owning, Given
    <2> QED
        BY <2>1 DEF CacheInv, FlightTypeOK
<1>3. \A s \in Threads \ {t} : key'[s] = key[s]
    BY <1>1 DEF CacheInv, FlightTypeOK
<1>4. key'[t] = Source(t)
    BY <1>1 DEF CacheInv, FlightTypeOK
<1>5. ContentTypeOK'
    BY <1>1, <1>2 DEF ContentInv, ContentTypeOK
<1>6. CacheIsBounded'
    BY <1>1 DEF ContentInv, CacheIsBounded
<1>7. FlightsAreOpen' /\ WaitersShareKeys' /\ (WaitersAreTold => WaitersAreTold')
    BY <1>1, <1>2, FlightsStay
<1>8. SourcesAreKnown'
    <2> SUFFICES ASSUME ~replaced
                 PROVE  (\A s \in Threads : KnowsItsSource(s)') /\ EntriesTell' /\ WaitersAreTold'
        BY <1>1 DEF SourcesAreKnown
    <2>1. (\A s \in Threads : KnowsItsSource(s)) /\ EntriesTell /\ WaitersAreTold
        BY DEF ContentInv, SourcesAreKnown
    <2>2. KnowsItsSource(t)'
        BY <1>1, <1>2, <1>4, <2>1 DEF KnowsItsSource, Source
    <2>3. \A s \in Threads \ {t} : KnowsItsSource(s)'
        BY <1>1, <1>2, <1>3, <2>1, OthersKnow
    <2>4. EntriesTell'
        BY <1>1, <2>1 DEF EntriesTell
    <2> QED
        BY <1>7, <2>1, <2>2, <2>3, <2>4
<1> QED
    BY <1>5, <1>6, <1>7, <1>8 DEF ContentInv

\* A lookup gives what was parsed for the key, and moves it to the end.
LEMMA GetTells == ASSUME CacheInv, ContentInv, NEW t \in Threads, Get(t) PROVE ContentInv'
<1> DEFINE k == key[t]
<1>1. UNCHANGED <<content, result, req, call, key, cacheKey, flight, calls, replaced>>
    BY DEF Get
<1>2. CASE Cached(k)
    <2> DEFINE e == cache[Place(k)]
               o == Others(k)
    <2>1. /\ \/ pc[t] = "get" /\ pc' = [pc EXCEPT ![t] = "idle"]
             \/ pc[t] = "getAgain" /\ pc' = [pc EXCEPT ![t] = "publish"]
          /\ cache' = Append(o, e)
          /\ parsed' = [parsed EXCEPT ![t] = IF pc[t] = "get" THEN {} ELSE e.blocks]
        BY <1>2 DEF Get, Turn
    <2>2. cache \in Seq(Entry) /\ OneEach(cache) /\ Len(cache) =< MaxEntries
        BY DEF ContentInv, ContentTypeOK, CacheIsBounded, OneEach
    <2>3. Place(k) \in DOMAIN cache /\ e.key = k /\ e \in Entry /\ e \in Range(cache)
        <3>1. Place(k) \in DOMAIN cache /\ cache[Place(k)].key = k
            BY <1>2 DEF Cached, Place
        <3>2. e \in Range(cache)
            BY <3>1 DEF Range
        <3>3. e \in Entry
            BY <2>2, <3>1
        <3> QED
            BY <3>1, <3>2, <3>3
    <2>4. /\ o \in Seq(Entry) /\ OneEach(o) /\ Range(o) \subseteq Range(cache)
          /\ \A i \in DOMAIN o : o[i].key # k
          /\ Len(o) = Len(cache) - 1
        BY <1>2, <2>2, OthersAreOther
    <2> HIDE DEF e, o
    <2>5. /\ cache' \in Seq(Entry) /\ OneEach(cache') /\ Len(cache') = Len(o) + 1
          /\ Range(cache') \subseteq Range(o) \cup {e}
        BY <2>1, <2>3, <2>4, EntryAdded
    <2>6. Len(cache') =< MaxEntries /\ Range(cache') \subseteq Range(cache)
        <3>1. Len(cache) \in Nat
            BY <2>2
        <3> QED
            BY <2>2, <2>3, <2>4, <2>5, <3>1
    <2>7. /\ \A s \in Threads \ {t} : pc'[s] = pc[s] /\ parsed'[s] = parsed[s]
          /\ pc[t] # "idle" /\ pc'[t] # "await"
          /\ pc'[t] \in Owning <=> pc[t] \in Owning
          /\ pc'[t] \in {"idle", "publish"}
          /\ pc'[t] = "publish" => pc[t] = "getAgain" /\ parsed'[t] = e.blocks
        BY <2>1 DEF CacheInv, FlightTypeOK, ContentInv, ContentTypeOK, Owning
    <2>8. e.blocks \in {{q} : q \in Keys} /\ parsed' \in [Threads -> Blocks]
        <3>1. e.blocks \in {{q} : q \in Keys}
            BY <2>3 DEF Entry
        <3>2. e.blocks \in Blocks /\ {} \in Blocks
            BY <3>1 DEF Blocks
        <3> QED
            BY <2>1, <3>1, <3>2 DEF ContentInv, ContentTypeOK
    <2>9. ContentTypeOK'
        <3>1. \A s \in Threads : pc'[s] \in Given => parsed'[s] # {}
            BY <2>7, <2>8 DEF ContentInv, ContentTypeOK, Given
        <3> QED
            BY <1>1, <2>5, <2>8, <3>1 DEF ContentInv, ContentTypeOK
    <2>10. CacheIsBounded'
        BY <2>5, <2>6 DEF CacheIsBounded, OneEach
    <2>11. FlightsAreOpen' /\ WaitersShareKeys' /\ (WaitersAreTold => WaitersAreTold')
        BY <1>1, <2>7, FlightsStay
    <2>12. SourcesAreKnown'
        <3> SUFFICES ASSUME ~replaced
                     PROVE  (\A s \in Threads : KnowsItsSource(s)') /\ EntriesTell' /\ WaitersAreTold'
            BY <1>1 DEF SourcesAreKnown
        <3>1. (\A s \in Threads : KnowsItsSource(s)) /\ EntriesTell /\ WaitersAreTold
            BY DEF ContentInv, SourcesAreKnown
        <3>2. e.blocks = {k}
            BY <2>3, <3>1 DEF EntriesTell, e
        <3>3. KnowsItsSource(t)'
            BY <1>1, <2>7, <3>1, <3>2 DEF KnowsItsSource, Source, Owning, Given
        <3>4. \A s \in Threads \ {t} : KnowsItsSource(s)'
            BY <1>1, <2>7, <3>1, OthersKnow
        <3>5. EntriesTell'
            BY <2>6, <3>1 DEF EntriesTell, Range
        <3> QED
            BY <2>11, <3>1, <3>3, <3>4, <3>5
    <2> QED
        BY <2>9, <2>10, <2>11, <2>12 DEF ContentInv
<1>3. CASE ~Cached(k)
    <2>1. /\ \/ pc[t] = "get" /\ pc' = [pc EXCEPT ![t] = "hashForFlight"]
             \/ pc[t] = "getAgain" /\ pc' = [pc EXCEPT ![t] = "parse"]
          /\ cache' = cache /\ parsed' = parsed
        BY <1>3 DEF Get, Turn
    <2>2. /\ \A s \in Threads \ {t} : pc'[s] = pc[s]
          /\ pc[t] \notin {"idle", "hash"} /\ pc'[t] # "await" /\ pc'[t] \notin Given
          /\ pc'[t] \in Owning <=> pc[t] \in Owning
        BY <2>1 DEF CacheInv, FlightTypeOK, Owning, Given
    <2>3. ContentTypeOK' /\ CacheIsBounded'
        BY <1>1, <2>1, <2>2 DEF ContentInv, ContentTypeOK, CacheIsBounded
    <2>4. FlightsAreOpen' /\ WaitersShareKeys' /\ (WaitersAreTold => WaitersAreTold')
        BY <1>1, <2>2, FlightsStay
    <2>5. SourcesAreKnown'
        <3> SUFFICES ASSUME ~replaced
                     PROVE  (\A s \in Threads : KnowsItsSource(s)') /\ EntriesTell' /\ WaitersAreTold'
            BY <1>1 DEF SourcesAreKnown
        <3>1. (\A s \in Threads : KnowsItsSource(s)) /\ EntriesTell /\ WaitersAreTold
            BY DEF ContentInv, SourcesAreKnown
        <3>2. KnowsItsSource(t)'
            BY <1>1, <2>1, <2>2, <3>1 DEF KnowsItsSource, Source
        <3>3. \A s \in Threads \ {t} : KnowsItsSource(s)'
            BY <1>1, <2>1, <2>2, <3>1, OthersKnow
        <3> QED
            BY <2>1, <2>4, <3>1, <3>2, <3>3 DEF EntriesTell
    <2> QED
        BY <2>3, <2>4, <2>5 DEF ContentInv
<1> QED
    BY <1>2, <1>3

\* The number of a call under way is that of a flight.
LEMMA CallsAreFlights ==
    ASSUME CacheInv, NEW t \in Threads, pc[t] # "idle"
    PROVE  call[t] \in Flights
<1>1. call[t] \in Nat /\ call[t] # 0 /\ call[t] <= calls /\ calls \in 0..MaxCalls
    BY DEF CacheInv, FlightTypeOK, CallsDiffer
<1> QED
    BY <1>1, CallsAssumption DEF Flights

\* A flight that is joined is open and of the same key; one that is made has no waiters.
LEMMA AcquireTells == ASSUME CacheInv, ContentInv, NEW t \in Threads, Acquire(t) PROVE ContentInv'
<1> DEFINE k == key[t]
<1>1. /\ pc[t] = "acquire" /\ cacheKey' = [cacheKey EXCEPT ![t] = k]
      /\ UNCHANGED <<content, cache, result, req, call, key, parsed, calls, replaced>>
    BY DEF Acquire, Turn
<1>2. /\ k \in Keys /\ call[t] \in Flights /\ call[t] # 0 /\ result[call[t]].st = "open"
      /\ pc[t] \notin Owning /\ inflight[k] \in Nat
    BY <1>1, CallsAreFlights DEF CacheInv, FlightTypeOK, CallsDiffer, ContentInv, FlightsAreOpen, Owning
<1>3. PICK f, to : /\ flight' = [flight EXCEPT ![t] = f] /\ pc' = [pc EXCEPT ![t] = to]
                   /\ \/ to = "hashAgain" /\ f = call[t]
                      \/ to = "await" /\ f = inflight[k] /\ f # NoFlight
    <2>1. CASE inflight[k] = NoFlight
        BY <2>1 DEF Acquire, Turn
    <2>2. CASE inflight[k] # NoFlight
        BY <2>2 DEF Acquire, Turn
    <2> QED
        BY <2>1, <2>2
<1>4. /\ \A s \in Threads \ {t} : pc'[s] = pc[s] /\ flight'[s] = flight[s] /\ cacheKey'[s] = cacheKey[s]
      /\ pc'[t] = to /\ flight'[t] = f /\ cacheKey'[t] = k
    BY <1>1, <1>3 DEF CacheInv, FlightTypeOK
<1>5. ASSUME to = "await"
      PROVE  \E s \in Threads \ {t} : /\ pc[s] \in Owning /\ f = call[s] /\ cacheKey[s] = k
                                   /\ f \in Flights /\ result[f].st = "open"
    <2>1. PICK s \in Threads : pc[s] \in Owning /\ flight[s] = inflight[k] /\ cacheKey[s] = k
        BY <1>2, <1>3, <1>5 DEF CacheInv, FlightsHaveOwners
    <2>2. f = call[s] /\ s # t /\ pc[s] # "idle"
        BY <1>2, <1>3, <1>5, <2>1 DEF CacheInv, OwnersOwn, Owning
    <2>3. f \in Flights /\ result[f].st = "open"
        BY <2>2, CallsAreFlights DEF ContentInv, FlightsAreOpen
    <2> QED
        BY <2>1, <2>2, <2>3
<1>6. f \in Flights /\ result[f].st = "open"
    BY <1>2, <1>3, <1>5
<1>7. pc'[t] \notin Given \cup {"idle", "hash"} /\ (pc'[t] \in Owning <=> to = "hashAgain")
    BY <1>3, <1>4 DEF Given, Owning
<1>8. ContentTypeOK'
    <2>1. flight' \in [Threads -> Flights \cup {NoFlight}]
        BY <1>3, <1>6 DEF ContentInv, ContentTypeOK
    <2>2. \A s \in Threads : pc'[s] \in Given => parsed'[s] # {}
        BY <1>1, <1>4, <1>7 DEF ContentInv, ContentTypeOK
    <2> QED
        BY <1>1, <2>1, <2>2 DEF ContentInv, ContentTypeOK
<1>9. CacheIsBounded' /\ FlightsAreOpen'
    BY <1>1, <1>2, <1>4 DEF ContentInv, CacheIsBounded, FlightsAreOpen
<1>10. WaitersShareKeys'
    <2> SUFFICES ASSUME NEW w \in Threads, NEW s \in Threads,
                        pc'[w] = "await", pc'[s] \in Owning, flight'[w] = flight'[s]
                 PROVE  cacheKey'[w] = cacheKey'[s]
        BY DEF WaitersShareKeys
    <2>1. CASE w # t /\ s # t
        BY <1>4, <2>1 DEF ContentInv, WaitersShareKeys
    <2>2. CASE w = t
        <3>1. to = "await" /\ s # t /\ pc[s] \in Owning /\ flight[s] = f
            BY <1>4, <1>7, <2>2, <1>3
        <3>2. PICK r \in Threads \ {t} : pc[r] \in Owning /\ f = call[r] /\ cacheKey[r] = k
            BY <1>5, <3>1
        <3>3. flight[s] = call[s] /\ call[s] # 0
            BY <3>1 DEF CacheInv, OwnersOwn, CallsDiffer, Owning
        <3>4. s = r
            BY <3>1, <3>2, <3>3 DEF CacheInv, CallsDiffer
        <3> QED
            BY <1>4, <2>2, <3>1, <3>2, <3>4
    <2>3. CASE w # t /\ s = t
        <3>1. pc[w] = "await" /\ flight[w] = call[t]
            BY <1>3, <1>4, <1>7, <2>3
        <3>2. PICK r \in Threads : pc[r] \in Owning /\ flight[r] = flight[w]
            BY <1>2, <3>1 DEF CacheInv, WaitersWait
        <3>3. call[r] = call[t]
            BY <3>1, <3>2 DEF CacheInv, OwnersOwn
        <3>4. r = t
            BY <1>2, <3>3 DEF CacheInv, CallsDiffer
        <3> QED
            BY <1>2, <3>2, <3>4
    <2> QED
        BY <2>1, <2>2, <2>3
<1>11. SourcesAreKnown'
    <2> SUFFICES ASSUME ~replaced
                 PROVE  (\A s \in Threads : KnowsItsSource(s)') /\ EntriesTell' /\ WaitersAreTold'
        BY <1>1 DEF SourcesAreKnown
    <2>1. (\A s \in Threads : KnowsItsSource(s)) /\ EntriesTell /\ WaitersAreTold
        BY DEF ContentInv, SourcesAreKnown
    <2>2. key[t] = Source(t)
        BY <1>1, <2>1 DEF KnowsItsSource
    <2>3. KnowsItsSource(t)'
        BY <1>1, <1>4, <1>7, <2>2 DEF KnowsItsSource, Source
    <2>4. \A s \in Threads \ {t} : KnowsItsSource(s)'
        BY <1>1, <1>4, <2>1 DEF KnowsItsSource, Source
    <2>5. WaitersAreTold'
        BY <1>1, <1>4, <1>6, <2>1 DEF WaitersAreTold
    <2>6. EntriesTell'
        BY <1>1, <2>1 DEF EntriesTell
    <2> QED
        BY <2>3, <2>4, <2>5, <2>6
<1> QED
    BY <1>8, <1>9, <1>10, <1>11 DEF ContentInv

\* Who waited knows nothing any more.
LEMMA AwaitTells == ASSUME CacheInv, ContentInv, NEW t \in Threads, Await(t) PROVE ContentInv'
<1>1. /\ pc[t] = "await" /\ pc' = [pc EXCEPT ![t] = "idle"]
      /\ UNCHANGED <<content, cache, result, req, call, key, cacheKey, flight, parsed, calls, replaced>>
    BY DEF Await, Turn
<1>2. /\ \A s \in Threads \ {t} : pc'[s] = pc[s]
      /\ pc'[t] = "idle" /\ pc'[t] \notin Owning /\ pc[t] \notin Owning /\ pc'[t] \notin Given
    BY <1>1 DEF CacheInv, FlightTypeOK, Owning, Given
<1>3. ContentTypeOK' /\ CacheIsBounded'
    BY <1>1, <1>2 DEF ContentInv, ContentTypeOK, CacheIsBounded
<1>4. FlightsAreOpen' /\ WaitersShareKeys' /\ (WaitersAreTold => WaitersAreTold')
    BY <1>1, <1>2, FlightsStay
<1>5. SourcesAreKnown'
    <2> SUFFICES ASSUME ~replaced
                 PROVE  (\A s \in Threads : KnowsItsSource(s)') /\ EntriesTell' /\ WaitersAreTold'
        BY <1>1 DEF SourcesAreKnown
    <2>1. (\A s \in Threads : KnowsItsSource(s)) /\ EntriesTell /\ WaitersAreTold
        BY DEF ContentInv, SourcesAreKnown
    <2>2. KnowsItsSource(t)'
        BY <1>2 DEF KnowsItsSource
    <2>3. \A s \in Threads \ {t} : KnowsItsSource(s)'
        BY <1>1, <1>2, <2>1, OthersKnow
    <2> QED
        BY <1>1, <1>4, <2>1, <2>2, <2>3 DEF EntriesTell
<1> QED
    BY <1>3, <1>4, <1>5 DEF ContentInv

\* What is parsed is of the bytes that are read.
LEMMA ParseTells == ASSUME CacheInv, ContentInv, NEW t \in Threads, Parse(t) PROVE ContentInv'
<1>1. /\ pc[t] = "parse"
      /\ \/ pc' = [pc EXCEPT ![t] = "hashToStore"] /\ parsed' = [parsed EXCEPT ![t] = {Source(t)}]
         \/ pc' = [pc EXCEPT ![t] = "fail"] /\ parsed' = parsed
      /\ UNCHANGED <<content, cache, result, req, call, key, cacheKey, flight, calls, replaced>>
    BY DEF Parse, Turn
<1>2. /\ \A s \in Threads \ {t} : pc'[s] = pc[s] /\ parsed'[s] = parsed[s]
      /\ pc'[t] \in Owning /\ pc[t] \in Owning /\ pc'[t] \notin {"idle", "hash", "await"}
      /\ pc'[t] \in Given => parsed'[t] = {Source(t)}
    BY <1>1 DEF CacheInv, FlightTypeOK, ContentInv, ContentTypeOK, Owning, Given
<1>3. Source(t) \in Keys
    BY DEF CacheInv, FlightTypeOK, Source, Keys
<1>4. ContentTypeOK' /\ CacheIsBounded'
    <2>1. {Source(t)} \in Blocks
        BY <1>3 DEF Blocks
    <2>2. parsed' \in [Threads -> Blocks]
        BY <1>1, <2>1 DEF ContentInv, ContentTypeOK
    <2>3. \A s \in Threads : pc'[s] \in Given => parsed'[s] # {}
        BY <1>2 DEF ContentInv, ContentTypeOK
    <2> QED
        BY <1>1, <2>2, <2>3 DEF ContentInv, ContentTypeOK, CacheIsBounded
<1>5. FlightsAreOpen' /\ WaitersShareKeys' /\ (WaitersAreTold => WaitersAreTold')
    BY <1>1, <1>2, FlightsStay
<1>6. SourcesAreKnown'
    <2> SUFFICES ASSUME ~replaced
                 PROVE  (\A s \in Threads : KnowsItsSource(s)') /\ EntriesTell' /\ WaitersAreTold'
        BY <1>1 DEF SourcesAreKnown
    <2>1. (\A s \in Threads : KnowsItsSource(s)) /\ EntriesTell /\ WaitersAreTold
        BY DEF ContentInv, SourcesAreKnown
    <2>2. KnowsItsSource(t)'
        BY <1>1, <1>2, <2>1 DEF KnowsItsSource, Source
    <2>3. \A s \in Threads \ {t} : KnowsItsSource(s)'
        BY <1>1, <1>2, <2>1, OthersKnow
    <2> QED
        BY <1>1, <1>5, <2>1, <2>2, <2>3 DEF EntriesTell
<1> QED
    BY <1>4, <1>5, <1>6 DEF ContentInv

\* It is stored under the key of those bytes, and the cache is trimmed.
LEMMA StoreTells == ASSUME CacheInv, ContentInv, NEW t \in Threads, Store(t) PROVE ContentInv'
<1> DEFINE k == key[t]
           e == [key |-> k, blocks |-> parsed[t]]
           o == Others(k)
<1>1. /\ pc[t] = "store" /\ pc' = [pc EXCEPT ![t] = "publish"] /\ cache' = Trim(Append(o, e))
      /\ UNCHANGED <<content, result, req, call, key, cacheKey, flight, parsed, calls, replaced>>
    BY DEF Store, Turn
<1>2. /\ \A s \in Threads \ {t} : pc'[s] = pc[s]
      /\ pc'[t] = "publish" /\ pc'[t] \in Owning /\ pc[t] \in Owning /\ pc'[t] \in Given /\ pc[t] \in Given
    BY <1>1 DEF CacheInv, FlightTypeOK, Owning, Given
<1>3. cache \in Seq(Entry) /\ OneEach(cache) /\ Len(cache) =< MaxEntries /\ Len(cache) \in Nat
    BY DEF ContentInv, ContentTypeOK, CacheIsBounded, OneEach
<1>4. e \in Entry /\ e.key = k /\ e.blocks = parsed[t]
    <2>1. k \in Keys /\ parsed[t] \in {{q} : q \in Keys}
        BY <1>2 DEF CacheInv, FlightTypeOK, ContentInv, ContentTypeOK, Blocks
    <2> QED
        BY <2>1 DEF Entry
<1>5. /\ o \in Seq(Entry) /\ OneEach(o) /\ Range(o) \subseteq Range(cache)
      /\ \A i \in DOMAIN o : o[i].key # k
      /\ Len(o) =< Len(cache)
    <2>1. /\ o \in Seq(Entry) /\ OneEach(o) /\ Range(o) \subseteq Range(cache)
          /\ \A i \in DOMAIN o : o[i].key # k
          /\ Len(o) = IF Cached(k) THEN Len(cache) - 1 ELSE Len(cache)
        BY <1>3, OthersAreOther
    <2> QED
        BY <1>3, <2>1
<1> HIDE DEF e, o
<1>6. /\ Append(o, e) \in Seq(Entry) /\ OneEach(Append(o, e)) /\ Len(Append(o, e)) = Len(o) + 1
      /\ Range(Append(o, e)) \subseteq Range(o) \cup {e}
    BY <1>4, <1>5, EntryAdded
<1>7. Len(Append(o, e)) =< MaxEntries + 1
    <2>1. Len(o) \in Nat /\ MaxEntries \in Nat
        BY <1>5, EntriesAssumption
    <2> QED
        BY <1>3, <1>5, <1>6, <2>1
<1>8. /\ cache' \in Seq(Entry) /\ OneEach(cache') /\ Len(cache') =< MaxEntries
      /\ Range(cache') \subseteq Range(cache) \cup {e}
    BY <1>1, <1>5, <1>6, <1>7, Trimmed
<1>9. ContentTypeOK'
    BY <1>1, <1>2, <1>8 DEF ContentInv, ContentTypeOK
<1>10. CacheIsBounded'
    BY <1>8 DEF CacheIsBounded, OneEach
<1>11. FlightsAreOpen' /\ WaitersShareKeys' /\ (WaitersAreTold => WaitersAreTold')
    BY <1>1, <1>2, FlightsStay
<1>12. SourcesAreKnown'
    <2> SUFFICES ASSUME ~replaced
                 PROVE  (\A s \in Threads : KnowsItsSource(s)') /\ EntriesTell' /\ WaitersAreTold'
        BY <1>1 DEF SourcesAreKnown
    <2>1. (\A s \in Threads : KnowsItsSource(s)) /\ EntriesTell /\ WaitersAreTold
        BY DEF ContentInv, SourcesAreKnown
    <2>2. k = Source(t) /\ parsed[t] = {Source(t)}
        BY <1>1, <1>2, <2>1 DEF KnowsItsSource
    <2>3. KnowsItsSource(t)'
        BY <1>1, <1>2, <2>1 DEF KnowsItsSource, Source
    <2>4. \A s \in Threads \ {t} : KnowsItsSource(s)'
        BY <1>1, <1>2, <2>1, OthersKnow
    <2>5. \A x \in Range(cache) \cup {e} : x.blocks = {x.key}
        BY <1>4, <2>1, <2>2 DEF EntriesTell, Range
    <2>6. EntriesTell'
        BY <1>8, <2>5 DEF EntriesTell, Range
    <2> QED
        BY <1>11, <2>1, <2>3, <2>4, <2>6
<1> QED
    BY <1>9, <1>10, <1>11, <1>12 DEF ContentInv

\* Those who wait are given what was parsed for the key that they share.
LEMMA FinishTells == ASSUME CacheInv, ContentInv, NEW t \in Threads, FinishFlight(t) PROVE ContentInv'
<1> DEFINE f == flight[t]
           out == [st |-> IF pc[t] = "fail" THEN "error" ELSE "done", blocks |-> parsed[t]]
<1>1. /\ pc[t] \in {"publish", "fail"} /\ pc' = [pc EXCEPT ![t] = "idle"]
      /\ parsed' = [parsed EXCEPT ![t] = {}]
      /\ UNCHANGED <<content, cache, req, call, key, cacheKey, flight, calls, replaced>>
    BY DEF FinishFlight, Turn
<1>2. pc[t] \in Owning /\ pc[t] # "idle"
    BY <1>1 DEF Owning
<1>3. f = call[t] /\ f \in Flights /\ inflight[cacheKey[t]] = f
    BY <1>2, CallsAreFlights DEF CacheInv, OwnersOwn
<1>4. result' = [result EXCEPT ![f] = out]
    BY <1>3 DEF FinishFlight
<1>5. out \in Results
    BY DEF ContentInv, ContentTypeOK, Results
<1> HIDE DEF out
<1>6. /\ \A s \in Threads \ {t} : pc'[s] = pc[s] /\ parsed'[s] = parsed[s]
      /\ pc'[t] = "idle" /\ pc'[t] \notin Owning \cup Given \cup {"await"}
    BY <1>1 DEF CacheInv, FlightTypeOK, ContentInv, ContentTypeOK, Owning, Given
<1>7. result'[f] = out /\ \A g \in Flights \ {f} : result'[g] = result[g]
    BY <1>3, <1>4 DEF ContentInv, ContentTypeOK
<1>8. ContentTypeOK' /\ CacheIsBounded'
    <2>1. parsed' \in [Threads -> Blocks] /\ result' \in [Flights -> Results]
        BY <1>1, <1>4, <1>5 DEF ContentInv, ContentTypeOK, Blocks
    <2>2. \A s \in Threads : pc'[s] \in Given => parsed'[s] # {}
        BY <1>6 DEF ContentInv, ContentTypeOK
    <2> QED
        BY <1>1, <2>1, <2>2 DEF ContentInv, ContentTypeOK, CacheIsBounded
<1>9. FlightsAreOpen'
    <2>1. ASSUME NEW s \in Threads, pc'[s] # "idle" PROVE result'[call'[s]].st = "open"
        <3>1. s # t /\ pc[s] # "idle" /\ call[s] \in Flights
            BY <1>6, <2>1, CallsAreFlights
        <3>2. call[s] # f
            BY <1>3, <3>1 DEF CacheInv, CallsDiffer
        <3> QED
            BY <1>1, <1>7, <3>1, <3>2 DEF ContentInv, FlightsAreOpen
    <2>2. ASSUME NEW g \in Flights, g > calls PROVE result'[g].st = "open"
        <3>1. f <= calls /\ f \in Nat /\ calls \in Nat /\ g \in Nat
            BY <1>3 DEF CacheInv, FlightTypeOK, CallsDiffer, Flights
        <3>2. g # f
            BY <2>2, <3>1
        <3> QED
            BY <1>7, <2>2, <3>2 DEF ContentInv, FlightsAreOpen
    <2> QED
        BY <1>1, <2>1, <2>2 DEF FlightsAreOpen
<1>10. WaitersShareKeys'
    BY <1>1, <1>6 DEF ContentInv, WaitersShareKeys
<1>11. SourcesAreKnown'
    <2> SUFFICES ASSUME ~replaced
                 PROVE  (\A s \in Threads : KnowsItsSource(s)') /\ EntriesTell' /\ WaitersAreTold'
        BY <1>1 DEF SourcesAreKnown
    <2>1. (\A s \in Threads : KnowsItsSource(s)) /\ EntriesTell /\ WaitersAreTold
        BY DEF ContentInv, SourcesAreKnown
    <2>2. KnowsItsSource(t)'
        BY <1>6 DEF KnowsItsSource
    <2>3. \A s \in Threads \ {t} : KnowsItsSource(s)'
        BY <1>1, <1>6, <2>1, OthersKnow
    <2>4. ASSUME NEW w \in Threads, pc'[w] = "await", result'[flight[w]].st = "done"
          PROVE  result'[flight[w]].blocks = {cacheKey[w]}
        <3>1. w # t /\ pc[w] = "await" /\ flight[w] \in Flights
            BY <1>6, <2>4 DEF CacheInv, WaitersWait
        <3>2. CASE flight[w] = f
            <4>1. cacheKey[w] = cacheKey[t]
                BY <1>2, <3>1, <3>2 DEF ContentInv, WaitersShareKeys
            <4>2. pc[t] = "publish" /\ out.blocks = parsed[t]
                BY <1>1, <1>7, <2>4, <3>2 DEF out
            <4>3. parsed[t] = {Source(t)} /\ cacheKey[t] = Source(t)
                BY <1>2, <2>1, <4>2 DEF KnowsItsSource, Given
            <4> QED
                BY <1>7, <3>2, <4>1, <4>2, <4>3
        <3>3. CASE flight[w] # f
            BY <1>7, <2>1, <2>4, <3>1, <3>3 DEF WaitersAreTold
        <3> QED
            BY <3>2, <3>3
    <2>5. WaitersAreTold' /\ EntriesTell'
        BY <1>1, <2>1, <2>4 DEF WaitersAreTold, EntriesTell
    <2> QED
        BY <2>2, <2>3, <2>5
<1> QED
    BY <1>8, <1>9, <1>10, <1>11 DEF ContentInv

\* Replacing a file that no call reads changes nothing of what calls know.
LEMMA ReplaceTells == ASSUME CacheInv, ContentInv, NEW g \in Files, Replace(g) PROVE ContentInv'
<1>1. PICK v \in Versions : content' = [content EXCEPT ![g] = v]
    BY DEF Replace
<1>2. /\ replaced' = (replaced \/ \E t \in Threads : pc[t] # "idle" /\ req[t][1] = g)
      /\ UNCHANGED <<cache, inflight, result, pc, req, call, key, cacheKey, flight, parsed, calls>>
    BY DEF Replace, locals
<1>3. replaced' \in BOOLEAN
    BY <1>2, Zenon DEF ContentInv, ContentTypeOK
<1>4. ContentTypeOK' /\ CacheIsBounded' /\ FlightsAreOpen' /\ WaitersShareKeys'
    BY <1>2, <1>3 DEF ContentInv, ContentTypeOK, CacheIsBounded, FlightsAreOpen, WaitersShareKeys
<1>5. SourcesAreKnown'
    <2> SUFFICES ASSUME ~replaced'
                 PROVE  (\A s \in Threads : KnowsItsSource(s)') /\ EntriesTell' /\ WaitersAreTold'
        BY DEF SourcesAreKnown
    <2>1. ~replaced /\ \A t \in Threads : pc[t] # "idle" => req[t][1] # g
        BY <1>2, Zenon
    <2>2. (\A s \in Threads : KnowsItsSource(s)) /\ EntriesTell /\ WaitersAreTold
        BY <2>1 DEF ContentInv, SourcesAreKnown
    <2>3. ASSUME NEW s \in Threads PROVE KnowsItsSource(s)'
        <3>1. CASE pc[s] = "idle"
            BY <1>2, <3>1 DEF KnowsItsSource, Owning, Given
        <3>2. CASE pc[s] # "idle"
            <4>1. Source(s)' = Source(s)
                BY <1>1, <1>2, <2>1, <3>2 DEF Source, CacheInv, FlightTypeOK
            <4> QED
                BY <1>2, <2>2, <4>1 DEF KnowsItsSource
        <3> QED
            BY <3>1, <3>2
    <2>4. EntriesTell' /\ WaitersAreTold'
        BY <1>2, <2>2 DEF EntriesTell, WaitersAreTold
    <2> QED
        BY <2>3, <2>4
<1> QED
    BY <1>4, <1>5 DEF ContentInv

-----------------------------------------------------------------------------
\* BasicPDFParser.parse, whoever asks for what at the same time: every value has its
\* type; the cache never holds more than parse_cache_max_entries entries, and one of a
\* key; and as long as no file is replaced under a request, an entry holds what was
\* parsed from the bytes and the options of its key, and so does what a waiting thread
\* is given by another one's parse.
THEOREM CacheTells == Spec => [](TypeOK /\ EntriesAreTrue)
<1>1. Init => CacheInv /\ ContentInv
    BY CacheStarts, ContentStarts
<1>2. CacheInv /\ ContentInv /\ [Next]_vars => (CacheInv /\ ContentInv)'
    <2> SUFFICES ASSUME CacheInv, ContentInv, [Next]_vars PROVE ContentInv'
        BY CacheGoesOn
    <2>1. CASE UNCHANGED vars
        BY <2>1 DEF vars, locals, ContentInv, ContentTypeOK, CacheIsBounded, FlightsAreOpen, WaitersShareKeys,
                    SourcesAreKnown, KnowsItsSource, Source, EntriesTell, WaitersAreTold
    <2>2. ASSUME NEW t \in Threads, Begin(t) PROVE ContentInv'
        BY <2>2, BeginTells
    <2>3. ASSUME NEW t \in Threads, Proceed(t) PROVE ContentInv'
        BY <2>3, HashTells, GetTells, AcquireTells, AwaitTells, ParseTells, StoreTells, FinishTells DEF Proceed
    <2>4. ASSUME NEW g \in Files, Replace(g) PROVE ContentInv'
        BY <2>4, ReplaceTells
    <2> QED
        BY <2>1, <2>2, <2>3, <2>4 DEF Next
<1>3. CacheInv /\ ContentInv => TypeOK
    <2> SUFFICES ASSUME CacheInv, ContentInv PROVE TypeOK
        OBVIOUS
    <2>1. call \in [Threads -> Flights \cup {NoFlight}]
        <3>1. \A t \in Threads : call[t] \in Nat /\ call[t] <= calls /\ calls \in 0..MaxCalls
            BY DEF CacheInv, FlightTypeOK, CallsDiffer
        <3>2. \A t \in Threads : call[t] \in Flights \cup {NoFlight}
            BY <3>1, CallsAssumption DEF Flights, NoFlight
        <3> QED
            BY <3>2 DEF CacheInv, FlightTypeOK
    <2>2. inflight \in [Keys -> Flights \cup {NoFlight}]
        <3>1. ASSUME NEW k \in Keys PROVE inflight[k] \in Flights \cup {NoFlight}
            <4>1. CASE inflight[k] # NoFlight
                <5>1. PICK s \in Threads : pc[s] \in Owning /\ flight[s] = inflight[k]
                    BY <4>1 DEF CacheInv, FlightsHaveOwners
                <5> QED
                    BY <5>1 DEF ContentInv, ContentTypeOK
            <4> QED
                BY <4>1
        <3> QED
            BY <3>1 DEF CacheInv, FlightTypeOK
    <2> QED
        BY <2>1, <2>2 DEF CacheInv, FlightTypeOK, ContentInv, ContentTypeOK, Entry, TypeOK
<1>4. ContentInv => EntriesAreTrue
    BY DEF ContentInv, EntriesAreTrue, SourcesAreKnown, EntriesTell, WaitersAreTold, CacheIsTrue
<1> QED
    BY <1>1, <1>2, <1>3, <1>4, PTL DEF Spec
=============================================================================
