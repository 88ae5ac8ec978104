------------------------------ MODULE Geocoding ------------------------------
(***************************************************************************)
(* Looking places up (core/geocoding.ts, core/enrichment.ts): locations    *)
(* walk their names from the area down to the settlement until one has a   *)
(* point, users' points are looked up in reverse, and all of them share    *)
(* one isolate's slot chain per provider and the D1 cache.  Time is        *)
(* counted in units, by timers that say how much is left.                  *)
(***************************************************************************)
EXTENDS Faults, SequencesExt

CONSTANTS
  Places,             \* locations being enriched
  Users,              \* users whose point is being looked up
  LOCATION,           \* the names of each location: area, streets, settlement
  Budget,             \* how long each caller may take, Unbounded if it has no deadline
  MIN_SPACING,        \* MIN_SPACING_MS, in units
  ROOM,               \* what a request must have left once its slot comes
  REQUEST_TIMEOUT,    \* REQUEST_TIMEOUT_MS
  MAX_STREETS,        \* streets of one location that are tried
  Absent, NoPoint, NotCached

Unbounded == -1

Callers == Places \cup Users
Providers == {"nominatim", "photon"}
(* What a provider may know of a name: a point near its settlement, or a   *)
(* like-named place elsewhere.                                             *)
Points == {"near", "far"}
Names == UNION {{LOCATION[w].area, LOCATION[w].settlement} \cup ToSet(LOCATION[w].streets)
                : w \in Places} \ {Absent}

ASSUME GeocodingConstants ==
  /\ Places \cap Users = {}
  /\ LOCATION \in [Places -> [area : Names \cup {Absent}, streets : Seq(Names),
                              settlement : Names \cup {Absent}]]
  /\ Absent \notin Names /\ NoPoint \notin Points
  /\ MIN_SPACING \in Nat \ {0} /\ ROOM \in Nat \ {0} /\ REQUEST_TIMEOUT \in Nat \ {0}
  /\ MAX_STREETS \in Nat /\ MaxFaults \in Nat
  /\ Budget \in [Callers -> Nat \cup {Unbounded}]

VARIABLES
  seeded,    \* names whose reference row has coordinates
  cache,     \* geocode_cache: the answer kept for a name, NotCached without one
  queue,     \* per provider, the callers in its slot chain
  since,     \* per provider, the time since lastCallAt, up to MIN_SPACING
  at,        \* where each caller is
  asking,    \* the provider a caller is at
  left,      \* what is left of its budget
  timer,     \* what is left of its sleep or of its request
  todo,      \* the names a location has still to try
  pin,       \* what a caller came back with
  heard,     \* history: every answer a provider gave on a name
  idle,      \* history: the time since a provider's last request, up to MIN_SPACING
  spaced     \* history: whether a provider's requests kept their distance

chains == <<queue, since>>
ghosts == <<heard, idle, spaced>>
vars == <<seeded, cache, chains, at, asking, left, timer, todo, pin, faults, ghosts>>

Answer(p, x) == [provider |-> p, point |-> x]
Answers == {Answer(p, x) : p \in Providers, x \in Points \cup {NoPoint}}
Pin(n, x, s) == [name |-> n, point |-> x, source |-> s]
NoPin == Pin(Absent, NoPoint, "none")

(* resolveCoordinates: the area, the first streets, the settlement.        *)
Stated(n) == IF n = Absent THEN <<>> ELSE <<n>>

Candidates(w) ==
  LET streets == LOCATION[w].streets
  IN Stated(LOCATION[w].area)
     \o SubSeq(streets, 1, IF Len(streets) < MAX_STREETS THEN Len(streets) ELSE MAX_STREETS)
     \o Stated(LOCATION[w].settlement)

Init ==
  /\ seeded \in SUBSET Names
  /\ cache = [n \in Names |-> NotCached]
  /\ queue = [p \in Providers |-> <<>>]
  /\ since = [p \in Providers |-> MIN_SPACING]
  /\ at = [c \in Callers |-> "start"]
  /\ asking = [c \in Callers |-> "nominatim"]
  /\ left = Budget
  /\ timer = [c \in Callers |-> 0]
  /\ todo = [w \in Places |-> Candidates(w)]
  /\ pin = [c \in Callers |-> NoPin]
  /\ faults = 0
  /\ heard = [n \in Names |-> {}]
  /\ idle = since
  /\ spaced = [p \in Providers |-> TRUE]

TypeOK ==
  /\ seeded \subseteq Names
  /\ cache \in [Names -> Answers \cup {NotCached}]
  /\ queue \in [Providers -> Seq(Callers)]
  /\ since \in [Providers -> 0..MIN_SPACING]
  /\ at \in [Callers -> {"start", "chain", "sleep", "sent", "done"}]
  /\ asking \in [Callers -> Providers]
  /\ left \in [Callers -> Nat \cup {Unbounded}]
  /\ timer \in [Callers -> Nat]
  /\ todo \in [Places -> Seq(Names)]
  /\ pin \in [Callers -> [name : Names \cup {Absent}, point : Points \cup {NoPoint},
                          source : Providers \cup {"seed", "settlement", "none", "address"}]]
  /\ faults \in 0..MaxFaults
  /\ heard \in [Names -> SUBSET Answers]
  /\ idle \in [Providers -> 0..MIN_SPACING] /\ spaced \in [Providers -> BOOLEAN]

HasLeft(c, n) == left[c] = Unbounded \/ left[c] >= n

(* -------------------------- the slot chains ----------------------------- *)

(* reserve: a link at the tail of the provider's chain.  The link at the   *)
(* head is the one that resolves, and the next one goes on.                *)
Join(c, p) ==
  /\ queue' = [queue EXCEPT ![p] = Append(@, c)]
  /\ asking' = [asking EXCEPT ![c] = p]
  /\ at' = [at EXCEPT ![c] = "chain"]

Leave(c) == queue' = [queue EXCEPT ![asking[c]] = Tail(@)]

Wait(p) == MIN_SPACING - since[p]

(* Mutant: every caller looks at the shared timestamp for itself.          *)
ItsTurnAlways(c) == at[c] = "chain"

ItsTurn(c) == at[c] = "chain" /\ Head(queue[asking[c]]) = c

(* Mutant: the room for the request is forgotten.                          *)
FitsWaitOnly(c) == HasLeft(c, Wait(asking[c]))

Fits(c) == HasLeft(c, Wait(asking[c]) + ROOM)

StartSleep(c) ==
  /\ ItsTurn(c) /\ Fits(c)
  /\ at' = [at EXCEPT ![c] = "sleep"]
  /\ timer' = [timer EXCEPT ![c] = Wait(asking[c])]
  /\ UNCHANGED <<seeded, cache, chains, asking, left, todo, pin, faults, ghosts>>

(* The slot is granted, and the request leaves with its abort signal set.  *)
Send(c) ==
  /\ at[c] = "sleep" /\ timer[c] = 0
  /\ LET p == asking[c]
     IN /\ since' = [since EXCEPT ![p] = 0]
        /\ spaced' = [spaced EXCEPT ![p] = @ /\ idle[p] = MIN_SPACING]
        /\ idle' = [idle EXCEPT ![p] = 0]
  /\ Leave(c)
  /\ at' = [at EXCEPT ![c] = "sent"]
  /\ timer' = [timer EXCEPT ![c] = IF HasLeft(c, REQUEST_TIMEOUT) THEN REQUEST_TIMEOUT
                                   ELSE left[c]]
  /\ UNCHANGED <<seeded, cache, asking, left, todo, pin, faults, heard>>

(* ------------------------ locations: forward ---------------------------- *)

Name(w) == Head(todo[w])
AtSettlement(w) == Len(todo[w]) = 1 /\ Name(w) = LOCATION[w].settlement

(* plausible: measured against the settlement the message states, when its *)
(* row has coordinates; never asked of the settlement's own point.         *)
Plausible(w, x) ==
  x # "far" \/ LOCATION[w].settlement \notin seeded \/ AtSettlement(w)

Done(w, result) ==
  /\ at' = [at EXCEPT ![w] = "done"]
  /\ todo' = [todo EXCEPT ![w] = <<>>]
  /\ pin' = [pin EXCEPT ![w] = result]

NextName(w) ==
  /\ todo' = [todo EXCEPT ![w] = Tail(@)]
  /\ at' = [at EXCEPT ![w] = "start"]
  /\ UNCHANGED pin

(* Mutant: the answer is not measured against the settlement.              *)
GotAnywhere(w, answer) ==
  IF answer.point # NoPoint
  THEN Done(w, Pin(Name(w), answer.point,
                   IF AtSettlement(w) THEN "settlement" ELSE answer.provider))
  ELSE NextName(w)

(* What geocode returned: the pin, or on to the next name.                 *)
Got(w, answer) ==
  IF answer.point # NoPoint /\ Plausible(w, answer.point)
  THEN Done(w, Pin(Name(w), answer.point,
                   IF AtSettlement(w) THEN "settlement" ELSE answer.provider))
  ELSE NextName(w)

PinSeeded(w) ==
  /\ at[w] = "start" /\ todo[w] # <<>> /\ Name(w) \in seeded
  /\ Done(w, Pin(Name(w), "near", IF AtSettlement(w) THEN "settlement" ELSE "seed"))
  /\ UNCHANGED <<seeded, cache, chains, asking, left, timer, faults, ghosts>>

NoneLeft(w) ==
  /\ at[w] = "start" /\ todo[w] = <<>>
  /\ Done(w, NoPin)
  /\ UNCHANGED <<seeded, cache, chains, asking, left, timer, faults, ghosts>>

(* geocode: the cache first, misses included; its failure is caught.       *)
ReadCache(w, ok) ==
  /\ at[w] = "start" /\ todo[w] # <<>> /\ Name(w) \notin seeded
  /\ D1(ok)
  /\ LET kept == cache[Name(w)]
     IN CASE ~ok -> NextName(w) /\ UNCHANGED <<queue, asking>>
          [] ok /\ kept # NotCached -> Got(w, kept) /\ UNCHANGED <<queue, asking>>
          [] OTHER -> Join(w, "nominatim") /\ UNCHANGED <<todo, pin>>
  /\ UNCHANGED <<seeded, cache, since, left, timer, ghosts>>

(* Mutant: the fallback's "no such place" is kept as well.                 *)
KeepsAny(answer) == TRUE

(* A miss is kept only when the primary said so.                           *)
Keeps(answer) == answer.point # NoPoint \/ answer.provider = "nominatim"

(* A provider answers; a put that fails loses the answer it was keeping.   *)
Answered(w, answer, ok) ==
  /\ at[w] = "sent" /\ answer.provider = asking[w]
  /\ heard' = [heard EXCEPT ![Name(w)] = @ \cup {answer}]
  /\ IF Keeps(answer)
     THEN /\ D1(ok)
          /\ cache' = [cache EXCEPT ![Name(w)] = IF ok THEN answer ELSE @]
          /\ IF ok THEN Got(w, answer) ELSE NextName(w)
     ELSE ok /\ Got(w, answer) /\ UNCHANGED <<cache, faults>>
  /\ UNCHANGED <<seeded, chains, asking, left, timer, idle, spaced>>

(* An outage, a 429 or a timeout: only then is the fallback asked.         *)
Transient(w) ==
  /\ at[w] = "sent"
  /\ IF asking[w] = "nominatim"
     THEN Join(w, "photon") /\ UNCHANGED <<todo, pin>>
     ELSE NextName(w) /\ UNCHANGED <<queue, asking>>
  /\ UNCHANGED <<seeded, cache, since, left, timer, faults, ghosts>>

(* The provider refuses the query for what it is.                          *)
Refused(w) ==
  /\ at[w] = "sent" /\ asking[w] = "nominatim"
  /\ NextName(w)
  /\ UNCHANGED <<seeded, cache, chains, asking, left, timer, faults, ghosts>>

(* -------------------------- users: reverse ------------------------------ *)

StartReverse(u) ==
  /\ at[u] = "start"
  /\ Join(u, "nominatim")
  /\ UNCHANGED <<seeded, cache, since, left, timer, todo, pin, faults, ghosts>>

(* reverseGeocode answers, or fails without a fallback.                    *)
ReverseEnds(u, ok) ==
  /\ at[u] = "sent"
  /\ at' = [at EXCEPT ![u] = "done"]
  /\ pin' = [pin EXCEPT ![u].source = IF ok THEN "address" ELSE "none"]
  /\ UNCHANGED <<seeded, cache, chains, asking, left, timer, todo, faults, ghosts>>

(* ------------------------- both, and the clock -------------------------- *)

(* Mutant: a refused link does not hand the chain on.                      *)
NoSlotStalls(c) ==
  /\ ItsTurn(c) /\ ~Fits(c)
  /\ IF c \in Users THEN at' = [at EXCEPT ![c] = "done"] /\ UNCHANGED <<todo, pin>>
                    ELSE NextName(c)
  /\ UNCHANGED <<seeded, cache, chains, asking, left, timer, faults, ghosts>>

(* reserve resolves false: no request, and the chain goes on.              *)
NoSlot(c) ==
  /\ ItsTurn(c) /\ ~Fits(c)
  /\ Leave(c)
  /\ IF c \in Users THEN at' = [at EXCEPT ![c] = "done"] /\ UNCHANGED <<todo, pin>>
                    ELSE NextName(c)
  /\ UNCHANGED <<seeded, cache, since, asking, left, timer, faults, ghosts>>

(* A sleep that is over and a request past its abort end before time goes  *)
(* on; so does a link that has come to the head of its chain.              *)
Due(c) == (at[c] \in {"sleep", "sent"} /\ timer[c] = 0) \/ ItsTurn(c)

Less(n) == IF n = 0 THEN 0 ELSE n - 1

More(n) == IF n = MIN_SPACING THEN n ELSE n + 1

Tick ==
  /\ \E c \in Callers : at[c] # "done"
  /\ ~\E c \in Callers : Due(c)
  /\ since' = [p \in Providers |-> More(since[p])]
  /\ idle' = [p \in Providers |-> More(idle[p])]
  /\ left' = [c \in Callers |-> IF left[c] = Unbounded \/ (c \in Users /\ at[c] = "start")
                                THEN left[c] ELSE Less(left[c])]
  /\ timer' = [c \in Callers |-> Less(timer[c])]
  /\ UNCHANGED <<seeded, cache, queue, at, asking, todo, pin, faults, heard, spaced>>

Chain(c) == StartSleep(c) \/ Send(c) \/ NoSlot(c)

Forward(w) ==
  \/ PinSeeded(w) \/ NoneLeft(w) \/ Transient(w) \/ Refused(w)
  \/ \E ok \in BOOLEAN : ReadCache(w, ok) \/ \E answer \in Answers : Answered(w, answer, ok)

ReverseLookup(u) == StartReverse(u) \/ \E ok \in BOOLEAN : ReverseEnds(u, ok)

Next ==
  \/ \E c \in Callers : Chain(c)
  \/ \E w \in Places : Forward(w)
  \/ \E u \in Users : ReverseLookup(u)
  \/ Tick

(* Timers fire, an aborted request rejects, a caller goes on to its next   *)
(* step; a provider need not answer.                                       *)
Fairness ==
  /\ WF_vars(Tick)
  /\ \A c \in Callers : WF_vars(Chain(c))
  /\ \A w \in Places : /\ WF_vars(PinSeeded(w) \/ NoneLeft(w) \/ ReadCache(w, TRUE))
                       /\ WF_vars(timer[w] = 0 /\ Transient(w))
  /\ \A u \in Users : WF_vars(timer[u] = 0 /\ ReverseEnds(u, FALSE))

Spec == Init /\ [][Next]_vars /\ Fairness

(* ----------------------------- properties ------------------------------- *)

(* However many lookups run at once, a provider gets its requests at least *)
(* MIN_SPACING apart (geocoding.ts:106-115, OSMF's one request a second).  *)
Spaced == \A p \in Providers : spaced[p]

(* A lookup that is sleeping or has just sent has the room its request     *)
(* needs before its own deadline (geocoding.ts:130-134).                   *)
RoomToAnswer ==
  \A c \in Callers : at[c] = "sleep" => HasLeft(c, timer[c] + ROOM)

(* The cache says what a provider said of that name, and that a name has   *)
(* no place only when the primary said so (geocoding.ts:238-243).          *)
CacheIsHonest ==
  \A n \in Names : cache[n] # NotCached =>
    /\ cache[n] \in heard[n]
    /\ cache[n].point = NoPoint => cache[n].provider = "nominatim"

(* A pin's source names who answered for that very name, in this lookup or *)
(* an earlier one, and no pin of a location with a known settlement is one *)
(* its settlement does not reach (enrichment.ts:172-186, locations.ts:62). *)
PinIsHonest ==
  \A w \in Places : LET k == pin[w] IN
    /\ k.source \in Providers => Answer(k.source, k.point) \in heard[k.name]
    /\ LOCATION[w].settlement \in seeded => k.point # "far"

(* The throttle: clocks and callers of their types, and requests spaced    *)
(* (takeSlot).                                                             *)
ThrottleSafe ==
  /\ TypeOK
  /\ Spaced

(* What is believed of a name afterwards, in the cache or in a pin, is     *)
(* what a provider said of it (geocodeLocation, placeLocation).            *)
AnswersHonest ==
  /\ CacheIsHonest
  /\ PinIsHonest

(* What makes them inductive.  A chain holds who waits in it, once each,   *)
(* and only its head sleeps (slotChain).                                   *)
Waiting(c) == at[c] \in {"chain", "sleep"}

ChainInv ==
  /\ \A c \in Callers : Waiting(c) => \E i \in DOMAIN queue[asking[c]] : queue[asking[c]][i] = c
  /\ \A p \in Providers : \A i \in DOMAIN queue[p] :
       /\ Waiting(queue[p][i]) /\ asking[queue[p][i]] = p
       /\ \A j \in DOMAIN queue[p] : queue[p][i] = queue[p][j] => i = j
  /\ \A c \in Callers : at[c] = "sleep" => queue[asking[c]][1] = c

(* A sleep ends when the spacing does, and the clock that code and history *)
(* measure by is the same.                                                 *)
SpacingInv ==
  /\ \A c \in Callers : at[c] = "sleep" => timer[c] = Wait(asking[c])
  /\ idle = since

(* A location that is looked up is at a name no reference row answers, and *)
(* a provider's pin is that of a name.                                     *)
LookupInv ==
  \A w \in Places :
    /\ Waiting(w) \/ at[w] = "sent" => todo[w] # <<>> /\ Name(w) \notin seeded
    /\ pin[w].source \in Providers => pin[w].name \in Names

IInv ==
  /\ ThrottleSafe /\ RoomToAnswer /\ AnswersHonest
  /\ ChainInv /\ SpacingInv /\ LookupInv

(* Every lookup ends, those behind a refused link included.                *)
LookupsEnd == []<>(\A c \in Callers : at[c] \notin {"chain", "sleep", "sent"})
=============================================================================
