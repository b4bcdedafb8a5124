------------------------------ MODULE Screening ------------------------------
(***************************************************************************)
(* SanctionsScreener (agent2_rag/sanctions.py) and retrieve_context of     *)
(* RAGAgent (agent2_rag/agent.py), against the list that the seed script   *)
(* (data/scripts/seed_qdrant.py) drops, creates and fills while they run.  *)
(* A call suspends at the user's details and at every search, and the      *)
(* calls of one process share the two caches.  Every error counts as no    *)
(* match.  An identifier matches or does not: scores are not modelled.     *)
(***************************************************************************)
EXTENDS Integers, Sequences, FiniteSets

CONSTANTS
  Users,
  IdsOf,        \* the identifiers of each user, the name first, if there are any
  Bulk,         \* the calls of screen_user by bulk_screen
  Single,       \* the calls of screen_user by others
  Checks,       \* the calls of retrieve_context, with their _check_sanctions
  UserOf,       \* the user of each call
  Permits,      \* the semaphore of bulk_screen
  MaxSeeds,     \* bound: runs of the seed script
  MaxClears     \* bound: calls of clear_cache

Calls       == Bulk \cup Single \cup Checks
Elements(s)    == {s[k] : k \in 1 .. Len(s)}
Identifiers == UNION {Elements(IdsOf[u]) : u \in Users}

ASSUME ScreeningAssumption ==
  /\ UserOf \in [Calls -> Users]
  /\ \A u \in Users : IdsOf[u] \in Seq(Identifiers)
  /\ "missing" \notin Identifiers
  /\ Permits \in Nat \ {0} /\ MaxSeeds \in Nat /\ MaxClears \in Nat
  /\ (Bulk \cup Single) \cap Checks = {} /\ Bulk \cap Single = {}

VARIABLES
  collection,  \* sanctions_list: Missing, or the identifiers that it matches
  seed,        \* where the seed script is
  cpc,         \* where each call is
  left,        \* the identifiers that a call has yet to search for
  answer,      \* what it returned
  cache,       \* _match_cache of the screener: nothing, clear or match
  matched,     \* sanctions_cache of the agent: the users it found
  bulkDone,    \* bulk_screen returned
  others,      \* the calls whose rules, profile and news are in, or given up
  context,     \* whether the context that a call returned has a match
  steady,      \* history: what was in the collection ever since a call began
  why,         \* history: why a call did not search for everything in earnest
  indexed,     \* history: what was ever in the collection
  seeds,       \* bound
  clears       \* bound

callVars == <<cpc, left, answer, cache, matched, bulkDone, others, context, why>>
listVars == <<collection, seed, seeds, indexed>>
gatherVars == <<others, context>>
vars == <<collection, seed, cpc, left, answer, cache, matched, bulkDone,
          others, context, steady, why, indexed, seeds, clears>>

-----------------------------------------------------------------------------
Missing == {"missing"}
Searchable == IF collection = Missing THEN {} ELSE collection
Running(c) == cpc[c] \in {"details", "search"}

ScreeningTypeOK ==
  /\ collection = Missing \/ collection \subseteq Identifiers
  /\ seed \in {"idle", "dropped", "created"}
  /\ cpc \in [Calls -> {"waiting", "details", "search", "done"}]
  /\ left \in [Calls -> Seq(Identifiers)]
  /\ answer \in [Calls -> {"none", "clear", "blocked"}]
  /\ cache \in [Users -> {"nothing", "clear", "match"}]
  /\ matched \subseteq Users
  /\ bulkDone \in BOOLEAN
  /\ others \subseteq Checks
  /\ context \in [Checks -> {"none", "clear", "match"}]
  /\ steady \in [Calls -> SUBSET Identifiers]
  /\ why \in [Calls -> SUBSET {"cached", "details", "search"}]
  /\ indexed \subseteq Identifiers
  /\ seeds \in 0 .. MaxSeeds /\ clears \in 0 .. MaxClears

Init ==
  /\ collection \in {Missing} \cup SUBSET Identifiers /\ seed = "idle"
  /\ cpc = [c \in Calls |-> "waiting"] /\ left = [c \in Calls |-> <<>>]
  /\ answer = [c \in Calls |-> "none"]
  /\ cache = [u \in Users |-> "nothing"] /\ matched = {}
  /\ bulkDone = FALSE
  /\ others = {} /\ context = [c \in Checks |-> "none"]
  /\ steady = [c \in Calls |-> {}] /\ why = [c \in Calls |-> {}]
  /\ indexed = Searchable
  /\ seeds = 0 /\ clears = 0

-----------------------------------------------------------------------------
(* The seed script. *)

(* The collection changes: what calls have seen of it is less certain. *)
SetCollection(to) ==
  /\ collection' = to
  /\ steady' = [c \in Calls |-> IF Running(c) THEN steady[c] \cap to ELSE steady[c]]
  /\ indexed' = IF to = Missing THEN indexed ELSE indexed \cup to

SeedDrop ==
  /\ seed = "idle" /\ seeds < MaxSeeds
  /\ seed' = "dropped" /\ seeds' = seeds + 1
  /\ SetCollection(Missing)
  /\ UNCHANGED <<callVars, clears>>

SeedCreate ==
  /\ seed = "dropped" /\ seed' = "created"
  /\ SetCollection({})
  /\ UNCHANGED <<seeds, callVars, clears>>

(* One upsert loads the whole list, as it is by then. *)
SeedFill ==
  /\ seed = "created" /\ seed' = "idle"
  /\ \E list \in SUBSET Identifiers : SetCollection(list)
  /\ UNCHANGED <<seeds, callVars, clears>>

(* The script raises, on a file that is not there for instance. *)
SeedStops ==
  /\ seed # "idle" /\ seed' = "idle"
  /\ UNCHANGED <<collection, steady, indexed, seeds, callVars, clears>>

-----------------------------------------------------------------------------
Returns(c, what) ==
  /\ cpc' = [cpc EXCEPT ![c] = "done"]
  /\ answer' = [answer EXCEPT ![c] = what]

CachedClear(c)   == c \notin Checks /\ cache[UserOf[c]] = "clear"
CachedBlocked(c) == c \in Checks /\ UserOf[c] \in matched

(* Mutant: a permit is not given back. *)
HasPermitOnce(c) == c \in Bulk => Cardinality({d \in Bulk : cpc[d] # "waiting"}) < Permits

HasPermit(c) == c \in Bulk => Cardinality({d \in Bulk : Running(d)}) < Permits

(* What of a user is searched for: everything known, or the name. *)
SearchedFor(c) ==
  LET ids == IdsOf[UserOf[c]] IN
  IF c \in Checks /\ ids # <<>> THEN <<Head(ids)>> ELSE ids
SearchesOf(c) == Elements(SearchedFor(c))

(* The cache first: the screener's is used when it says that the user is   *)
(* clear, the agent's when it says that he is not.                         *)
Begin(c) ==
  /\ cpc[c] = "waiting" /\ HasPermit(c)
  /\ steady' = [steady EXCEPT ![c] = Searchable \cap SearchesOf(c)]
  /\ CASE CachedClear(c) ->
            Returns(c, "clear") /\ why' = [why EXCEPT ![c] = @ \cup {"cached"}]
       [] CachedBlocked(c) -> Returns(c, "blocked") /\ why' = why
       [] OTHER ->
            /\ cpc' = [cpc EXCEPT ![c] = "details"]
            /\ UNCHANGED <<answer, why>>
  /\ UNCHANGED <<left, cache, matched, bulkDone, gatherVars, listVars, clears>>

(* Nothing to search for is a negative result, and the screener keeps it. *)
Details(c) ==
  LET u   == UserOf[c]
      ids == SearchedFor(c) IN
  /\ cpc[c] = "details"
  /\ left' = [left EXCEPT ![c] = ids]
  /\ IF ids = <<>>
     THEN /\ Returns(c, "clear")
          /\ cache' = IF c \in Checks THEN cache ELSE [cache EXCEPT ![u] = "clear"]
     ELSE cpc' = [cpc EXCEPT ![c] = "search"] /\ UNCHANGED <<answer, cache>>
  /\ UNCHANGED <<matched, bulkDone, gatherVars, steady, why, listVars, clears>>

(* The details are not to be had: no match, and nothing is cached. *)
NoDetails(c) ==
  /\ cpc[c] = "details"
  /\ Returns(c, "clear")
  /\ why' = [why EXCEPT ![c] = @ \cup {"details"}]
  /\ UNCHANGED <<left, cache, matched, bulkDone, gatherVars, steady, listVars, clears>>

(* Mutant: an empty result is a match as well. *)
FoundAnything(c) ==
  /\ cpc[c] = "search" /\ collection # Missing
  /\ Returns(c, "blocked")
  /\ IF c \in Checks
     THEN matched' = matched \cup {UserOf[c]} /\ cache' = cache
     ELSE cache' = [cache EXCEPT ![UserOf[c]] = "match"] /\ matched' = matched
  /\ left' = [left EXCEPT ![c] = <<>>]
  /\ UNCHANGED <<bulkDone, gatherVars, steady, why, listVars, clears>>

Found(c) ==
  LET u == UserOf[c] IN
  /\ cpc[c] = "search" /\ Head(left[c]) \in Searchable
  /\ Returns(c, "blocked")
  /\ IF c \in Checks
     THEN matched' = matched \cup {u} /\ cache' = cache
     ELSE cache' = [cache EXCEPT ![u] = "match"] /\ matched' = matched
  /\ left' = [left EXCEPT ![c] = <<>>]
  /\ UNCHANGED <<bulkDone, gatherVars, steady, why, listVars, clears>>

(* Mutant: the first identifier decides. *)
NextIdentifierNone(c) ==
  /\ left' = [left EXCEPT ![c] = Tail(@)]
  /\ Returns(c, "clear")
  /\ cache' = IF c \in Checks THEN cache ELSE [cache EXCEPT ![UserOf[c]] = "clear"]

(* No match: the next identifier, and after the last one a negative result *)
(* that the screener keeps, whatever the cache says by now.                *)
NextIdentifier(c) ==
  /\ left' = [left EXCEPT ![c] = Tail(@)]
  /\ IF Tail(left[c]) = <<>>
     THEN /\ Returns(c, "clear")
          /\ cache' = IF c \in Checks THEN cache ELSE [cache EXCEPT ![UserOf[c]] = "clear"]
     ELSE UNCHANGED <<cpc, answer, cache>>

NotFound(c) ==
  /\ cpc[c] = "search" /\ collection # Missing /\ Head(left[c]) \notin collection
  /\ NextIdentifier(c)
  /\ UNCHANGED <<matched, bulkDone, gatherVars, steady, why, listVars, clears>>

(* A search raises, as all do while there is no collection; _screen_       *)
(* identifier makes it a None like any other.                              *)
SearchFails(c) ==
  /\ cpc[c] = "search"
  /\ why' = [why EXCEPT ![c] = @ \cup {"search"}]
  /\ NextIdentifier(c)
  /\ UNCHANGED <<matched, bulkDone, gatherVars, steady, listVars, clears>>

ClearCache ==
  /\ clears < MaxClears /\ clears' = clears + 1
  /\ \E us \in {Users} \cup {{u} : u \in Users} :
       cache' = [u \in Users |-> IF u \in us THEN "nothing" ELSE cache[u]]
  /\ UNCHANGED <<cpc, left, answer, matched, bulkDone, gatherVars, steady, why, listVars>>

BulkReturn ==
  /\ ~bulkDone /\ \A c \in Bulk : cpc[c] = "done"
  /\ bulkDone' = TRUE
  /\ UNCHANGED <<cpc, left, answer, cache, matched, gatherVars, steady, why, listVars, clears>>

-----------------------------------------------------------------------------
(* retrieve_context gathers.  Each of the three other retrievals suspends  *)
(* once and ends with a result or without; they share nothing, so only     *)
(* that all of them have ended is kept.                                    *)
OthersEnd(c) ==
  /\ cpc[c] # "waiting" /\ c \notin others
  /\ others' = others \cup {c}
  /\ UNCHANGED <<cpc, left, answer, cache, matched, bulkDone, context, steady, why,
                 listVars, clears>>

ContextReturns(c) ==
  /\ cpc[c] = "done" /\ c \in others /\ context[c] = "none"
  /\ context' = [context EXCEPT ![c] = IF answer[c] = "blocked" THEN "match" ELSE "clear"]
  /\ UNCHANGED <<cpc, left, answer, cache, matched, bulkDone, others, steady, why,
                 listVars, clears>>

Idle ==
  /\ bulkDone /\ \A c \in Calls : cpc[c] = "done"
  /\ \A c \in Checks : context[c] # "none"
  /\ UNCHANGED vars

CallStep(c) == Begin(c) \/ Details(c) \/ NoDetails(c) \/ Found(c) \/ NotFound(c) \/ SearchFails(c)

(* The event loop goes on as long as there is something to resume; the     *)
(* clients answer or raise.  Which coroutine is next is not assumed.       *)
LoopStep ==
  \/ \E c \in Calls : CallStep(c)
  \/ \E c \in Checks : OthersEnd(c) \/ ContextReturns(c)
  \/ BulkReturn

Next == LoopStep \/ ClearCache \/ SeedDrop \/ SeedCreate \/ SeedFill \/ SeedStops \/ Idle

Spec == Init /\ [][Next]_vars /\ WF_vars(LoopStep)

-----------------------------------------------------------------------------
(* A call that is searching has gone past what is no longer left without a *)
(* match, in earnest unless a search failed.                               *)
CallOK(c) ==
  /\ cpc[c] = "waiting" => why[c] = {}
  /\ cpc[c] # "done" => answer[c] = "none" /\ why[c] \subseteq {"search"}
  /\ Running(c) => steady[c] \subseteq Searchable
  /\ cpc[c] = "search" =>
       /\ left[c] # <<>> /\ Elements(left[c]) \subseteq SearchesOf(c)
       /\ why[c] = {} => steady[c] \cap (SearchesOf(c) \ Elements(left[c])) = {}

(* The inductive invariant, together with the two properties below. *)
ScreeningInd ==
  /\ ScreeningTypeOK
  /\ Searchable \subseteq indexed
  /\ \A c \in Calls : CallOK(c)
  /\ \A u \in matched : IdsOf[u] # <<>> /\ Head(IdsOf[u]) \in indexed

(* A user who is let through although an identifier of his was in the      *)
(* collection from the beginning of the call to its end was found clear    *)
(* by an earlier call, or has no details, or a search failed; and an       *)
(* earlier call that left its result in the cache had searched, for this   *)
(* user.                                                                   *)
Earned(u) ==
  \E c \in Calls \ Checks :
    UserOf[c] = u /\ answer[c] = "clear" /\ why[c] \cap {"cached", "details"} = {}

ClearedHasACause ==
  /\ \A c \in Calls : answer[c] = "clear" /\ SearchesOf(c) \cap steady[c] # {} => why[c] # {}
  /\ \A c \in Calls : "cached" \in why[c] => Earned(UserOf[c])
  /\ \A u \in Users : cache[u] = "clear" => Earned(u)

(* Nobody is blocked, and nobody is kept as a match in either cache, whose *)
(* own identifiers never were in the collection.                           *)
MatchesWereIndexed ==
  /\ \A c \in Calls : answer[c] = "blocked" => SearchesOf(c) \cap indexed # {}
  /\ \A u \in Users :
       cache[u] = "match" \/ u \in matched => Elements(IdsOf[u]) \cap indexed # {}

(* bulk_screen returns, with more users than permits and whatever fails,   *)
(* and so does every retrieve_context.                                     *)
GathersReturn == <>(bulkDone /\ \A c \in Checks : context[c] # "none")

=============================================================================
