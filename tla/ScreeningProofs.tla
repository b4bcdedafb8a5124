--------------------------- MODULE ScreeningProofs ---------------------------
(***************************************************************************)
(* The inductive invariant of Screening and the two safety properties it   *)
(* makes inductive, for any users, identifiers and calls.                  *)
(***************************************************************************)
EXTENDS Screening, SequenceTheorems, TLAPS

AllInd == ScreeningInd /\ ClearedHasACause /\ MatchesWereIndexed

-----------------------------------------------------------------------------
LEMMA ElementsOfTail ==
  ASSUME NEW s \in Seq(Identifiers), s # <<>>
  PROVE  /\ Tail(s) \in Seq(Identifiers)
         /\ Head(s) \in Identifiers
         /\ Elements(s) = {Head(s)} \cup Elements(Tail(s))
         /\ Head(s) \in Elements(s)
<1>1. /\ Len(s) \in Nat /\ Len(s) > 0 /\ Head(s) = s[1]
      /\ Tail(s) \in Seq(Identifiers) /\ Len(Tail(s)) = Len(s) - 1
      /\ \A k \in 1 .. Len(s) - 1 : Tail(s)[k] = s[k + 1]
  BY HeadTailProperties
<1>2. s[1] \in Elements(s) /\ s[1] \in Identifiers
  BY <1>1 DEF Elements
<1>3. Elements(Tail(s)) \subseteq Elements(s)
  BY <1>1 DEF Elements
<1>4. ASSUME NEW k \in 1 .. Len(s), k # 1 PROVE s[k] \in Elements(Tail(s))
  <2>1. k - 1 \in 1 .. Len(s) - 1 /\ (k - 1) + 1 = k
    BY <1>1, <1>4
  <2>2. Tail(s)[k - 1] = s[(k - 1) + 1]
    BY <1>1, <2>1
  <2>. QED BY <1>1, <2>1, <2>2 DEF Elements
<1>5. Elements(s) \subseteq {s[1]} \cup Elements(Tail(s))
  BY <1>4 DEF Elements
<1>. QED BY <1>1, <1>2, <1>3, <1>5

LEMMA SearchFacts ==
  ASSUME NEW c \in Calls
  PROVE  /\ UserOf[c] \in Users
         /\ IdsOf[UserOf[c]] \in Seq(Identifiers)
         /\ SearchedFor(c) \in Seq(Identifiers)
         /\ SearchesOf(c) = Elements(SearchedFor(c))
         /\ SearchedFor(c) = <<>> => SearchesOf(c) = {}
         /\ SearchesOf(c) \subseteq Elements(IdsOf[UserOf[c]])
         /\ c \in Checks /\ SearchesOf(c) # {} =>
              IdsOf[UserOf[c]] # <<>> /\ SearchesOf(c) = {Head(IdsOf[UserOf[c]])}
         /\ c \in Checks /\ IdsOf[UserOf[c]] # <<>> =>
              SearchesOf(c) = {Head(IdsOf[UserOf[c]])}
<1>. DEFINE ids == IdsOf[UserOf[c]]
<1>1. UserOf[c] \in Users /\ ids \in Seq(Identifiers)
  BY ScreeningAssumption
<1>2. Elements(<<>>) = {}
  BY DEF Elements
<1>3. CASE ~(c \in Checks /\ ids # <<>>)
  BY <1>1, <1>2, <1>3 DEF SearchedFor, SearchesOf
<1>4. CASE c \in Checks /\ ids # <<>>
  <2>1. SearchedFor(c) = <<Head(ids)>>
    BY <1>4 DEF SearchedFor
  <2>2. Elements(<<Head(ids)>>) = {Head(ids)}
    BY DEF Elements
  <2>3. Head(ids) \in Identifiers /\ Head(ids) \in Elements(ids)
    BY <1>1, <1>4, ElementsOfTail
  <2>4. SearchedFor(c) \in Seq(Identifiers)
    BY <2>1, <2>3
  <2>. QED BY <1>1, <1>4, <2>1, <2>2, <2>3, <2>4 DEF SearchesOf
<1>. QED BY <1>3, <1>4

-----------------------------------------------------------------------------
LEMMA InitEstablishes == Init => AllInd
<1>. SUFFICES ASSUME Init PROVE AllInd
  OBVIOUS
<1>1. indexed \subseteq Identifiers /\ Searchable \subseteq indexed
  BY DEF Init, Searchable
<1>2. ScreeningTypeOK
  <2>1. left \in [Calls -> Seq(Identifiers)]
    BY DEF Init
  <2>2. collection = Missing \/ collection \subseteq Identifiers
    BY DEF Init
  <2>3. /\ steady \in [Calls -> SUBSET Identifiers]
        /\ why \in [Calls -> SUBSET {"cached", "details", "search"}]
        /\ cpc \in [Calls -> {"waiting", "details", "search", "done"}]
        /\ answer \in [Calls -> {"none", "clear", "blocked"}]
    BY DEF Init
  <2>4. /\ cache \in [Users -> {"nothing", "clear", "match"}]
        /\ context \in [Checks -> {"none", "clear", "match"}]
        /\ seeds \in 0 .. MaxSeeds /\ clears \in 0 .. MaxClears
    BY ScreeningAssumption DEF Init
  <2>. QED BY <1>1, <2>1, <2>2, <2>3, <2>4 DEF Init, ScreeningTypeOK
<1>3. \A c \in Calls : CallOK(c)
  BY DEF Init, CallOK, Running
<1>4. ClearedHasACause /\ MatchesWereIndexed
  BY ScreeningAssumption DEF Init, ClearedHasACause, MatchesWereIndexed
<1>. QED BY <1>1, <1>2, <1>3, <1>4 DEF Init, AllInd, ScreeningInd

(* A step of one call: what it has to leave behind. *)
LEMMA CallKeeps ==
  ASSUME AllInd, NEW c \in Calls, cpc[c] # "done",
         UNCHANGED <<collection, indexed>>,
         ScreeningTypeOK',
         \A d \in Calls \ {c} : /\ cpc'[d] = cpc[d] /\ left'[d] = left[d]
                                /\ answer'[d] = answer[d] /\ steady'[d] = steady[d]
                                /\ why'[d] = why[d],
         CallOK(c)',
         answer'[c] = "clear" /\ SearchesOf(c) \cap steady'[c] # {} => why'[c] # {},
         "cached" \in why'[c] => cache[UserOf[c]] = "clear",
         \A u \in Users : cache'[u] = "clear" =>
            \/ cache[u] = "clear"
            \/ /\ u = UserOf[c] /\ c \notin Checks /\ answer'[c] = "clear"
               /\ why'[c] \cap {"cached", "details"} = {},
         answer'[c] = "blocked" => SearchesOf(c) \cap indexed # {},
         \A u \in Users : cache'[u] = "match" =>
            cache[u] = "match" \/ Elements(IdsOf[u]) \cap indexed # {},
         \A u \in matched' : u \in matched \/ (IdsOf[u] # <<>> /\ Head(IdsOf[u]) \in indexed)
  PROVE  AllInd'
<1>1. ASSUME NEW u, Earned(u) PROVE Earned(u)'
  <2>1. PICK d \in Calls \ Checks :
          UserOf[d] = u /\ answer[d] = "clear" /\ why[d] \cap {"cached", "details"} = {}
    BY <1>1 DEF Earned
  <2>2. d # c
    BY <2>1 DEF AllInd, ScreeningInd, CallOK
  <2>. QED BY <2>1, <2>2 DEF Earned
<1>2. \A d \in Calls : CallOK(d)'
  <2>. SUFFICES ASSUME NEW d \in Calls, d # c PROVE CallOK(d)'
    OBVIOUS
  <2>. QED BY DEF AllInd, ScreeningInd, CallOK, Running, Searchable
<1>3. Searchable' \subseteq indexed'
  BY DEF AllInd, ScreeningInd, Searchable
<1>4. \A u \in matched' : IdsOf[u] # <<>> /\ Head(IdsOf[u]) \in indexed'
  BY DEF AllInd, ScreeningInd
<1>5. ClearedHasACause'
  <2>1. \A d \in Calls : answer'[d] = "clear" /\ SearchesOf(d) \cap steady'[d] # {}
                           => why'[d] # {}
    BY DEF AllInd, ClearedHasACause
  <2>2. \A d \in Calls : "cached" \in why'[d] => Earned(UserOf[d])'
    <3>. SUFFICES ASSUME NEW d \in Calls, "cached" \in why'[d] PROVE Earned(UserOf[d])'
      OBVIOUS
    <3>1. Earned(UserOf[d])
      BY SearchFacts DEF AllInd, ClearedHasACause
    <3>. QED BY <1>1, <3>1
  <2>3. \A u \in Users : cache'[u] = "clear" => Earned(u)'
    <3>. SUFFICES ASSUME NEW u \in Users, cache'[u] = "clear" PROVE Earned(u)'
      OBVIOUS
    <3>1. CASE cache[u] = "clear"
      BY <1>1, <3>1 DEF AllInd, ClearedHasACause
    <3>2. CASE cache[u] # "clear"
      BY <3>2 DEF Earned
    <3>. QED BY <3>1, <3>2
  <2>. QED BY <2>1, <2>2, <2>3 DEF ClearedHasACause
<1>6. MatchesWereIndexed'
  <2>1. \A d \in Calls : answer'[d] = "blocked" => SearchesOf(d) \cap indexed' # {}
    BY DEF AllInd, MatchesWereIndexed
  <2>2. \A u \in Users : cache'[u] = "match" => Elements(IdsOf[u]) \cap indexed' # {}
    BY DEF AllInd, MatchesWereIndexed
  <2>3. \A u \in Users : u \in matched' => Elements(IdsOf[u]) \cap indexed' # {}
    BY <1>4, ElementsOfTail, ScreeningAssumption
  <2>. QED BY <2>1, <2>2, <2>3 DEF MatchesWereIndexed
<1>. QED BY <1>2, <1>3, <1>4, <1>5, <1>6 DEF AllInd, ScreeningInd

LEMMA BeginKeeps == ASSUME AllInd, NEW c \in Calls, Begin(c) PROVE AllInd'
<1>0. /\ cpc[c] = "waiting" /\ answer[c] = "none" /\ why[c] = {}
      /\ steady' = [steady EXCEPT ![c] = Searchable \cap SearchesOf(c)]
      /\ UNCHANGED <<left, cache, matched, bulkDone, others, context,
                     collection, seed, seeds, indexed, clears>>
      /\ UserOf[c] \in Users
  BY SearchFacts DEF AllInd, ScreeningInd, CallOK, Begin, gatherVars, listVars
<1>1. /\ steady' \in [Calls -> SUBSET Identifiers]
      /\ steady'[c] = Searchable \cap SearchesOf(c)
      /\ \A d \in Calls \ {c} : steady'[d] = steady[d]
  BY <1>0 DEF AllInd, ScreeningInd, ScreeningTypeOK, Searchable
<1>2. CASE CachedClear(c)
  <2>1. /\ cpc' = [cpc EXCEPT ![c] = "done"] /\ answer' = [answer EXCEPT ![c] = "clear"]
        /\ why' = [why EXCEPT ![c] = why[c] \cup {"cached"}]
        /\ c \notin Checks /\ cache[UserOf[c]] = "clear"
    BY <1>2 DEF Begin, Returns, CachedClear, CachedBlocked
  <2>2. /\ cpc'[c] = "done" /\ answer'[c] = "clear" /\ why'[c] = {"cached"}
        /\ \A d \in Calls \ {c} : cpc'[d] = cpc[d] /\ answer'[d] = answer[d] /\ why'[d] = why[d]
    BY <1>0, <2>1 DEF AllInd, ScreeningInd, ScreeningTypeOK
  <2>3. ScreeningTypeOK'
    BY <1>0, <1>1, <2>1 DEF AllInd, ScreeningInd, ScreeningTypeOK
  <2>4. CallOK(c)'
    BY <2>2 DEF CallOK, Running
  <2>. QED BY <1>0, <1>1, <2>1, <2>2, <2>3, <2>4, CallKeeps
<1>3. CASE ~CachedClear(c) /\ CachedBlocked(c)
  <2>1. /\ cpc' = [cpc EXCEPT ![c] = "done"] /\ answer' = [answer EXCEPT ![c] = "blocked"]
        /\ why' = why /\ c \in Checks /\ UserOf[c] \in matched
    BY <1>3 DEF Begin, Returns, CachedClear, CachedBlocked
  <2>2. /\ cpc'[c] = "done" /\ answer'[c] = "blocked"
        /\ \A d \in Calls \ {c} : cpc'[d] = cpc[d] /\ answer'[d] = answer[d] /\ why'[d] = why[d]
    BY <1>0, <2>1 DEF AllInd, ScreeningInd, ScreeningTypeOK
  <2>3. ScreeningTypeOK'
    BY <1>0, <1>1, <2>1 DEF AllInd, ScreeningInd, ScreeningTypeOK
  <2>4. CallOK(c)'
    BY <2>2 DEF CallOK, Running
  <2>5. SearchesOf(c) \cap indexed # {}
    BY <2>1, SearchFacts DEF AllInd, ScreeningInd
  <2>. QED BY <1>0, <1>1, <2>1, <2>2, <2>3, <2>4, <2>5, CallKeeps
<1>4. CASE ~CachedClear(c) /\ ~CachedBlocked(c)
  <2>1. /\ cpc' = [cpc EXCEPT ![c] = "details"] /\ answer' = answer /\ why' = why
    BY <1>4 DEF Begin
  <2>2. /\ cpc'[c] = "details"
        /\ \A d \in Calls \ {c} : cpc'[d] = cpc[d]
    BY <1>0, <2>1 DEF AllInd, ScreeningInd, ScreeningTypeOK
  <2>3. ScreeningTypeOK'
    BY <1>0, <1>1, <2>1 DEF AllInd, ScreeningInd, ScreeningTypeOK
  <2>4. CallOK(c)'
    BY <1>0, <1>1, <2>1, <2>2 DEF CallOK, Running, Searchable
  <2>. QED BY <1>0, <1>1, <2>1, <2>2, <2>3, <2>4, CallKeeps
<1>. QED BY <1>2, <1>3, <1>4

LEMMA DetailsKeeps == ASSUME AllInd, NEW c \in Calls, Details(c) PROVE AllInd'
<1>. DEFINE u == UserOf[c]
            ids == SearchedFor(c)
<1>0. /\ cpc[c] = "details" /\ answer[c] = "none" /\ why[c] \subseteq {"search"}
      /\ left' = [left EXCEPT ![c] = ids] /\ ids \in Seq(Identifiers) /\ u \in Users
      /\ UNCHANGED <<matched, bulkDone, others, context, steady, why,
                     collection, seed, seeds, indexed, clears>>
      /\ steady[c] \subseteq Searchable
  BY SearchFacts DEF AllInd, ScreeningInd, CallOK, Running, Details, gatherVars, listVars
<1>1. /\ left' \in [Calls -> Seq(Identifiers)] /\ left'[c] = ids
      /\ \A d \in Calls \ {c} : left'[d] = left[d]
  BY <1>0 DEF AllInd, ScreeningInd, ScreeningTypeOK
<1>2. CASE ids = <<>>
  <2>1. /\ cpc' = [cpc EXCEPT ![c] = "done"] /\ answer' = [answer EXCEPT ![c] = "clear"]
        /\ cache' = IF c \in Checks THEN cache ELSE [cache EXCEPT ![u] = "clear"]
    BY <1>2 DEF Details, Returns
  <2>2. /\ cpc'[c] = "done" /\ answer'[c] = "clear"
        /\ \A d \in Calls \ {c} : cpc'[d] = cpc[d] /\ answer'[d] = answer[d]
        /\ \A v \in Users : cache'[v] = cache[v]
                            \/ (v = u /\ c \notin Checks /\ cache'[v] = "clear")
    BY <1>0, <2>1 DEF AllInd, ScreeningInd, ScreeningTypeOK
  <2>3. ScreeningTypeOK'
    BY <1>0, <1>1, <2>1 DEF AllInd, ScreeningInd, ScreeningTypeOK
  <2>4. CallOK(c)'
    BY <2>2 DEF CallOK, Running
  <2>5. SearchesOf(c) = {}
    BY <1>2, SearchFacts
  <2>. QED BY <1>0, <1>1, <2>2, <2>3, <2>4, <2>5, CallKeeps
<1>3. CASE ids # <<>>
  <2>1. cpc' = [cpc EXCEPT ![c] = "search"] /\ UNCHANGED <<answer, cache>>
    BY <1>3 DEF Details
  <2>2. cpc'[c] = "search" /\ \A d \in Calls \ {c} : cpc'[d] = cpc[d]
    BY <1>0, <2>1 DEF AllInd, ScreeningInd, ScreeningTypeOK
  <2>3. ScreeningTypeOK'
    BY <1>0, <1>1, <2>1 DEF AllInd, ScreeningInd, ScreeningTypeOK
  <2>4. CallOK(c)'
    BY <1>0, <1>1, <1>3, <2>1, <2>2, SearchFacts DEF CallOK, Running, Searchable
  <2>. QED BY <1>0, <1>1, <2>1, <2>2, <2>3, <2>4, CallKeeps
<1>. QED BY <1>2, <1>3

LEMMA NoDetailsKeeps == ASSUME AllInd, NEW c \in Calls, NoDetails(c) PROVE AllInd'
<1>0. /\ cpc[c] = "details" /\ answer[c] = "none" /\ why[c] \subseteq {"search"}
      /\ cpc' = [cpc EXCEPT ![c] = "done"] /\ answer' = [answer EXCEPT ![c] = "clear"]
      /\ why' = [why EXCEPT ![c] = why[c] \cup {"details"}]
      /\ UNCHANGED <<left, cache, matched, bulkDone, others, context, steady,
                     collection, seed, seeds, indexed, clears>>
  BY DEF AllInd, ScreeningInd, CallOK, NoDetails, Returns, gatherVars, listVars
<1>1. /\ cpc'[c] = "done" /\ answer'[c] = "clear" /\ why'[c] = why[c] \cup {"details"}
      /\ \A d \in Calls \ {c} : cpc'[d] = cpc[d] /\ answer'[d] = answer[d] /\ why'[d] = why[d]
  BY <1>0 DEF AllInd, ScreeningInd, ScreeningTypeOK
<1>2. ScreeningTypeOK'
  BY <1>0 DEF AllInd, ScreeningInd, ScreeningTypeOK
<1>3. CallOK(c)'
  BY <1>1 DEF CallOK, Running
<1>. QED BY <1>0, <1>1, <1>2, <1>3, CallKeeps

LEMMA FoundKeeps == ASSUME AllInd, NEW c \in Calls, Found(c) PROVE AllInd'
<1>. DEFINE u == UserOf[c]
<1>0. /\ cpc[c] = "search" /\ answer[c] = "none" /\ why[c] \subseteq {"search"}
      /\ cpc' = [cpc EXCEPT ![c] = "done"] /\ answer' = [answer EXCEPT ![c] = "blocked"]
      /\ left' = [left EXCEPT ![c] = <<>>] /\ u \in Users
      /\ IF c \in Checks THEN matched' = matched \cup {u} /\ cache' = cache
         ELSE cache' = [cache EXCEPT ![u] = "match"] /\ matched' = matched
      /\ UNCHANGED <<bulkDone, others, context, steady, why,
                     collection, seed, seeds, indexed, clears>>
  BY SearchFacts DEF AllInd, ScreeningInd, CallOK, Found, Returns, gatherVars, listVars
<1>1. /\ cpc'[c] = "done" /\ answer'[c] = "blocked"
      /\ \A d \in Calls \ {c} : cpc'[d] = cpc[d] /\ answer'[d] = answer[d] /\ left'[d] = left[d]
      /\ \A v \in Users : cache'[v] = cache[v]
                          \/ (v = u /\ c \notin Checks /\ cache'[v] = "match")
  BY <1>0 DEF AllInd, ScreeningInd, ScreeningTypeOK
<1>2. ScreeningTypeOK'
  <2>1. left' \in [Calls -> Seq(Identifiers)]
    BY <1>0 DEF AllInd, ScreeningInd, ScreeningTypeOK
  <2>. QED BY <1>0, <2>1 DEF AllInd, ScreeningInd, ScreeningTypeOK
<1>3. CallOK(c)'
  BY <1>1 DEF CallOK, Running
<1>4. /\ left[c] \in Seq(Identifiers) /\ left[c] # <<>>
      /\ Elements(left[c]) \subseteq SearchesOf(c)
      /\ Head(left[c]) \in indexed
  BY <1>0 DEF AllInd, ScreeningInd, ScreeningTypeOK, CallOK, Found
<1>5. Head(left[c]) \in SearchesOf(c)
  BY <1>4, ElementsOfTail
<1>6. /\ SearchesOf(c) \cap indexed # {} /\ Elements(IdsOf[u]) \cap indexed # {}
      /\ c \in Checks => IdsOf[u] # <<>> /\ Head(IdsOf[u]) \in indexed
  BY <1>4, <1>5, SearchFacts
<1>. QED BY <1>0, <1>1, <1>2, <1>3, <1>6, CallKeeps

(* No match at an identifier: found so, or because the search failed. *)
LEMMA NextKeeps ==
  ASSUME AllInd, NEW c \in Calls, NotFound(c) \/ SearchFails(c)
  PROVE  AllInd'
<1>. DEFINE u == UserOf[c]
<1>0. /\ cpc[c] = "search" /\ answer[c] = "none" /\ why[c] \subseteq {"search"}
      /\ left[c] \in Seq(Identifiers) /\ left[c] # <<>>
      /\ Elements(left[c]) \subseteq SearchesOf(c)
      /\ why[c] = {} => steady[c] \cap (SearchesOf(c) \ Elements(left[c])) = {}
      /\ steady[c] \subseteq Searchable
      /\ left' = [left EXCEPT ![c] = Tail(left[c])] /\ u \in Users
      /\ UNCHANGED <<matched, bulkDone, others, context, steady,
                     collection, seed, seeds, indexed, clears>>
  BY SearchFacts DEF AllInd, ScreeningInd, ScreeningTypeOK, CallOK, Running, NotFound,
                     SearchFails, NextIdentifier, gatherVars, listVars
<1>1. /\ Tail(left[c]) \in Seq(Identifiers)
      /\ Elements(left[c]) = {Head(left[c])} \cup Elements(Tail(left[c]))
  BY <1>0, ElementsOfTail
<1>2. /\ left' \in [Calls -> Seq(Identifiers)] /\ left'[c] = Tail(left[c])
      /\ \A d \in Calls \ {c} : left'[d] = left[d]
  BY <1>0, <1>1 DEF AllInd, ScreeningInd, ScreeningTypeOK
<1>3. /\ why' \in [Calls -> SUBSET {"cached", "details", "search"}]
      /\ why'[c] \subseteq {"search"}
      /\ \A d \in Calls \ {c} : why'[d] = why[d]
      /\ why'[c] = {} => why[c] = {} /\ Head(left[c]) \notin Searchable
  <2>1. CASE NotFound(c)
    BY <1>0, <2>1 DEF NotFound, Searchable, AllInd, ScreeningInd, ScreeningTypeOK
  <2>2. CASE SearchFails(c)
    BY <1>0, <2>2 DEF SearchFails, AllInd, ScreeningInd, ScreeningTypeOK
  <2>. QED BY <2>1, <2>2
<1>4. why'[c] = {} => steady[c] \cap (SearchesOf(c) \ Elements(Tail(left[c]))) = {}
  BY <1>0, <1>1, <1>3
<1>5. CASE Tail(left[c]) = <<>>
  <2>1. /\ cpc' = [cpc EXCEPT ![c] = "done"] /\ answer' = [answer EXCEPT ![c] = "clear"]
        /\ cache' = IF c \in Checks THEN cache ELSE [cache EXCEPT ![u] = "clear"]
    BY <1>5 DEF NotFound, SearchFails, NextIdentifier, Returns
  <2>2. /\ cpc'[c] = "done" /\ answer'[c] = "clear"
        /\ \A d \in Calls \ {c} : cpc'[d] = cpc[d] /\ answer'[d] = answer[d]
        /\ \A v \in Users : cache'[v] = cache[v]
                            \/ (v = u /\ c \notin Checks /\ cache'[v] = "clear")
    BY <1>0, <2>1 DEF AllInd, ScreeningInd, ScreeningTypeOK
  <2>3. ScreeningTypeOK'
    BY <1>0, <1>2, <1>3, <2>1 DEF AllInd, ScreeningInd, ScreeningTypeOK
  <2>4. CallOK(c)'
    BY <2>2 DEF CallOK, Running
  <2>5. Elements(Tail(left[c])) = {}
    <3>1. Elements(<<>>) = {}
      BY DEF Elements
    <3>. QED BY <1>5, <3>1
  <2>6. why'[c] \cap {"cached", "details"} = {} /\ "cached" \notin why'[c]
    BY <1>3
  <2>7. SearchesOf(c) \cap steady'[c] # {} => why'[c] # {}
    BY <1>0, <1>4, <2>5
  <2>. QED BY <1>0, <1>2, <1>3, <2>2, <2>3, <2>4, <2>6, <2>7, CallKeeps
<1>6. CASE Tail(left[c]) # <<>>
  <2>1. UNCHANGED <<cpc, answer, cache>>
    BY <1>6 DEF NotFound, SearchFails, NextIdentifier
  <2>2. ScreeningTypeOK'
    BY <1>0, <1>2, <1>3, <2>1 DEF AllInd, ScreeningInd, ScreeningTypeOK
  <2>3. CallOK(c)'
    BY <1>0, <1>1, <1>2, <1>3, <1>4, <1>6, <2>1 DEF CallOK, Running, Searchable
  <2>. QED BY <1>0, <1>2, <1>3, <2>1, <2>2, <2>3, CallKeeps
<1>. QED BY <1>5, <1>6

-----------------------------------------------------------------------------
(* The seed script: what is there for a call to find gets less certain. *)
LEMMA SeedKeeps ==
  ASSUME AllInd, NEW to, to = Missing \/ to \subseteq Identifiers, SetCollection(to),
         seed' \in {"idle", "dropped", "created"}, seeds' \in 0 .. MaxSeeds,
         UNCHANGED <<callVars, clears>>
  PROVE  AllInd'
<1>. DEFINE now == IF to = Missing THEN {} ELSE to
<1>1. /\ Searchable' = now /\ indexed' = indexed \cup now
      /\ now \subseteq Identifiers
      /\ to \cap Identifiers = now
      /\ collection' = to
  BY ScreeningAssumption DEF SetCollection, Searchable, Missing
<1>2. /\ steady \in [Calls -> SUBSET Identifiers]
      /\ steady' = [c \in Calls |-> IF Running(c) THEN steady[c] \cap to ELSE steady[c]]
  BY DEF AllInd, ScreeningInd, ScreeningTypeOK, SetCollection
<1>3. \A c \in Calls : /\ steady'[c] \subseteq steady[c]
                       /\ Running(c) => steady'[c] \subseteq now
  BY <1>1, <1>2
<1>4. UNCHANGED <<cpc, left, answer, cache, matched, bulkDone, others, context, why, clears>>
  BY DEF callVars
<1>5. ScreeningTypeOK'
  <2>1. steady' \in [Calls -> SUBSET Identifiers]
    BY <1>2
  <2>. QED BY <1>1, <1>4, <2>1 DEF AllInd, ScreeningInd, ScreeningTypeOK
<1>6. \A c \in Calls : CallOK(c)'
  BY <1>1, <1>3, <1>4 DEF AllInd, ScreeningInd, CallOK, Running
<1>7. ClearedHasACause'
  BY <1>3, <1>4 DEF AllInd, ClearedHasACause, Earned
<1>8. MatchesWereIndexed'
  BY <1>1, <1>4 DEF AllInd, MatchesWereIndexed
<1>. QED BY <1>1, <1>4, <1>5, <1>6, <1>7, <1>8 DEF AllInd, ScreeningInd

LEMMA ScriptKeeps ==
  ASSUME AllInd, SeedDrop \/ SeedCreate \/ SeedFill \/ SeedStops
  PROVE  AllInd'
<1>1. seeds \in 0 .. MaxSeeds
  BY DEF AllInd, ScreeningInd, ScreeningTypeOK
<1>2. CASE SeedDrop
  <2>1. seeds' \in 0 .. MaxSeeds
    BY <1>1, <1>2, ScreeningAssumption DEF SeedDrop
  <2>. QED BY <1>2, <2>1, SeedKeeps DEF SeedDrop
<1>3. CASE SeedCreate
  BY <1>1, <1>3, SeedKeeps DEF SeedCreate
<1>4. CASE SeedFill
  BY <1>1, <1>4, SeedKeeps DEF SeedFill
<1>5. CASE SeedStops
  BY <1>5 DEF SeedStops, callVars, AllInd, ScreeningInd, ScreeningTypeOK, CallOK, Running,
              Searchable, ClearedHasACause, Earned, MatchesWereIndexed
<1>. QED BY <1>2, <1>3, <1>4, <1>5

LEMMA ClearCacheKeeps == ASSUME AllInd, ClearCache PROVE AllInd'
<1>1. /\ UNCHANGED <<cpc, left, answer, matched, bulkDone, others, context, steady, why,
                      collection, seed, seeds, indexed>>
      /\ clears' \in 0 .. MaxClears
      /\ cache' \in [Users -> {"nothing", "clear", "match"}]
      /\ \A u \in Users : cache'[u] \in {"nothing", cache[u]}
  BY ScreeningAssumption DEF ClearCache, gatherVars, listVars, AllInd, ScreeningInd, ScreeningTypeOK
<1>2. ScreeningTypeOK'
  BY <1>1 DEF AllInd, ScreeningInd, ScreeningTypeOK
<1>3. \A c \in Calls : CallOK(c)'
  BY <1>1 DEF AllInd, ScreeningInd, CallOK, Running, Searchable
<1>4. ClearedHasACause'
  BY <1>1 DEF AllInd, ClearedHasACause, Earned
<1>5. MatchesWereIndexed'
  BY <1>1 DEF AllInd, MatchesWereIndexed
<1>. QED BY <1>1, <1>2, <1>3, <1>4, <1>5 DEF AllInd, ScreeningInd, Searchable

LEMMA GatherKeeps ==
  ASSUME AllInd, BulkReturn \/ \E c \in Checks : OthersEnd(c) \/ ContextReturns(c)
  PROVE  AllInd'
<1>1. UNCHANGED <<cpc, left, answer, cache, matched, steady, why,
                  collection, seed, seeds, indexed, clears>>
  BY DEF BulkReturn, OthersEnd, ContextReturns, gatherVars, listVars
<1>2. /\ bulkDone' \in BOOLEAN /\ others' \subseteq Checks
      /\ context' \in [Checks -> {"none", "clear", "match"}]
  BY DEF BulkReturn, OthersEnd, ContextReturns, gatherVars, AllInd, ScreeningInd, ScreeningTypeOK
<1>3. ScreeningTypeOK'
  BY <1>1, <1>2 DEF AllInd, ScreeningInd, ScreeningTypeOK
<1>4. \A c \in Calls : CallOK(c)'
  BY <1>1 DEF AllInd, ScreeningInd, CallOK, Running, Searchable
<1>5. ClearedHasACause'
  BY <1>1 DEF AllInd, ClearedHasACause, Earned
<1>6. MatchesWereIndexed'
  BY <1>1 DEF AllInd, MatchesWereIndexed
<1>. QED BY <1>1, <1>3, <1>4, <1>5, <1>6 DEF AllInd, ScreeningInd, Searchable

LEMMA StepKeeps == AllInd /\ [Next]_vars => AllInd'
<1>. SUFFICES ASSUME AllInd, [Next]_vars PROVE AllInd'
  OBVIOUS
<1>1. CASE UNCHANGED vars
  BY <1>1 DEF vars, AllInd, ScreeningInd, ScreeningTypeOK, CallOK, Running, Searchable,
              ClearedHasACause, Earned, MatchesWereIndexed
<1>2. ASSUME NEW c \in Calls, CallStep(c) PROVE AllInd'
  BY <1>2, BeginKeeps, DetailsKeeps, NoDetailsKeeps, FoundKeeps, NextKeeps DEF CallStep
<1>. QED BY <1>1, <1>2, ScriptKeeps, ClearCacheKeeps, GatherKeeps DEF Next, LoopStep, Idle

LEMMA Invariance == Spec => []AllInd
BY InitEstablishes, StepKeeps, PTL DEF Spec

(* Whatever the seed script does to the list and however the calls of one  *)
(* process interleave: who is let through with an identifier on the list   *)
(* throughout was cleared for a reason, and the cache was earned.          *)
THEOREM ClearsAreExplained == Spec => []ClearedHasACause
<1>1. AllInd => ClearedHasACause
  BY DEF AllInd
<1>. QED BY <1>1, Invariance, PTL

(* Nobody is blocked or kept as a match without an identifier that was     *)
(* once on the list.                                                       *)
THEOREM MatchesAreIndexed == Spec => []MatchesWereIndexed
<1>1. AllInd => MatchesWereIndexed
  BY DEF AllInd
<1>. QED BY <1>1, Invariance, PTL

=============================================================================
