-------------------------- MODULE ShortenerProofs --------------------------
(***************************************************************************)
(* Proofs about Shortener, for any aliases, URLs, numbers of requests,     *)
(* attempts and faults.  The inductive invariant IInv adds to the          *)
(* invariants of the run what a request holds at each of its steps, and    *)
(* which redirects a counted click belongs to.                             *)
(***************************************************************************)
EXTENDS Shortener, FiniteSetTheorems, TLAPS

\* Past its first step a request has its alias and its URL, and nothing is
\* saved or followed that is not a URL.
RequestsAreFilled ==
    /\ \A q \in Shortens : shorten[q].pc # "new" =>
          shorten[q].alias \in Aliases /\ shorten[q].url \in Urls
    /\ \A r \in Redirects : redirect[r].pc # "new" => redirect[r].alias \in Aliases
    /\ \A r \in Redirects : redirect[r].pc \in {"touch", "fill", "found"} =>
          redirect[r].url \in Urls
    /\ stats.pc = "list" => stats.alias \in Aliases

\* An alias that was known when the redirect came still is.
KnownStaysKnown ==
    \A r \in Redirects : redirect[r].pc # "new" /\ redirect[r].known =>
        links[redirect[r].alias] # None

\* A click is sent only for a redirect that was answered.
ClickFollowsRedirect == \A r \in Redirects : click[r] # "none" => redirect[r].pc = "found"

Sent(a) == {r \in Redirects : /\ redirect[r].pc = "found" /\ redirect[r].alias = a
                              /\ click[r] = "ended"}

\* A counted click is one that is no longer under way.
CountedWasSent == \A a \in Aliases : clicks[a] <= Cardinality(Sent(a))

\* The total was counted before the list is read, and clicks are never deleted.
TotalWasThere == stats.pc = "list" => stats.total <= clicks[stats.alias]

LinkInv == /\ RequestsAreFilled /\ CacheAgreesWithTable /\ CreatedLeadsToItsUrl
           /\ RedirectLeadsToLink /\ KnownStaysKnown /\ KnownAliasIsFound

ClickInv == ClickFollowsRedirect /\ CountedWasSent /\ TotalWasThere /\ TotalIsListed

IInv == TypeOK /\ LinkInv /\ ClickInv

-----------------------------------------------------------------------------

LEMMA FaultFacts ==
    ASSUME faults \in 0..MaxFaults, Fault
    PROVE  faults' \in 0..MaxFaults /\ faults' > 0
BY ConstantsAssumption DEF Fault

LEMMA OneMoreElement ==
    ASSUME NEW S, IsFiniteSet(S), NEW e
    PROVE  Cardinality(S) <= Cardinality(S \cup {e}) /\ Cardinality(S \cup {e}) \in Nat
<1>1. Cardinality(S) \in Nat
  BY FS_CardinalityType
<1>2. Cardinality(S \cup {e}) = IF e \in S THEN Cardinality(S) ELSE Cardinality(S) + 1
  BY FS_AddElement
<1>3. QED
  BY <1>1, <1>2

LEMMA SentIsFinite == \A a \in Aliases : IsFiniteSet(Sent(a)) /\ Cardinality(Sent(a)) \in Nat
BY ConstantsAssumption, FS_Subset, FS_CardinalityType DEF Sent

LEMMA InitHolds == Init => IInv
<1> SUFFICES ASSUME Init PROVE IInv
  OBVIOUS
<1> USE ConstantsAssumption DEF Init
<1>1. TypeOK
  BY DEF TypeOK, Entries, ShortenStates, RedirectStates, ClickStates, StatsStates
<1>2. LinkInv
  BY DEF LinkInv, RequestsAreFilled, CacheAgreesWithTable, CreatedLeadsToItsUrl,
         RedirectLeadsToLink, KnownStaysKnown, KnownAliasIsFound
<1>3. CountedWasSent
  BY SentIsFinite DEF CountedWasSent
<1>4. ClickInv
  BY <1>3 DEF ClickInv, ClickFollowsRedirect, TotalWasThere, TotalIsListed
<1>5. QED
  BY <1>1, <1>2, <1>4 DEF IInv

\* Steps that leave redirects, clicks and statistics alone keep ClickInv.
LEMMA ClicksUntouched ==
    ASSUME ClickInv, UNCHANGED <<redirect, click, clicks, stats>>
    PROVE  ClickInv'
<1>1. \A a \in Aliases : Sent(a)' = Sent(a)
  BY DEF Sent
<1>2. CountedWasSent'
  BY <1>1 DEF ClickInv, CountedWasSent
<1>3. QED
  BY <1>2 DEF ClickInv, ClickFollowsRedirect, TotalWasThere, TotalIsListed

-----------------------------------------------------------------------------
(* POST /shorten.                                                          *)

LEMMA BeginKeeps ==
    ASSUME IInv, NEW q \in Shortens, NEW a \in Aliases, NEW u \in Urls, NEW own \in BOOLEAN,
           Begin(q, a, u, own)
    PROVE  IInv'
<1> USE ConstantsAssumption DEF IInv, TypeOK, Begin, OthersOfShorten
<1>1. TypeOK'
  BY DEF ShortenStates, Entries
<1>2. LinkInv'
  BY DEF LinkInv, RequestsAreFilled, CacheAgreesWithTable, CreatedLeadsToItsUrl,
         RedirectLeadsToLink, KnownStaysKnown, KnownAliasIsFound
<1>3. ClickInv'
  BY ClicksUntouched
<1>4. QED
  BY <1>1, <1>2, <1>3

LEMMA SaveURLKeeps ==
    ASSUME IInv, NEW q \in Shortens, SaveURL(q) PROVE IInv'
<1> USE ConstantsAssumption DEF IInv, TypeOK, SaveURL, OthersOfShorten
<1>1. shorten[q].alias \in Aliases /\ shorten[q].url \in Urls
  BY DEF LinkInv, RequestsAreFilled
<1>2. TypeOK'
  BY <1>1 DEF ShortenStates, Entries
<1>3. \A a \in Aliases : links[a] # None => links'[a] = links[a]
  BY <1>1
<1>4. RequestsAreFilled' /\ CacheAgreesWithTable'
  BY <1>1, <1>3 DEF LinkInv, RequestsAreFilled, CacheAgreesWithTable
<1>5. CreatedLeadsToItsUrl'
  BY <1>1, <1>3 DEF LinkInv, RequestsAreFilled, CreatedLeadsToItsUrl
<1>6. RedirectLeadsToLink' /\ KnownStaysKnown' /\ KnownAliasIsFound'
  BY <1>1, <1>3 DEF LinkInv, RequestsAreFilled, RedirectLeadsToLink, KnownStaysKnown,
                    KnownAliasIsFound
<1>7. ClickInv'
  BY ClicksUntouched
<1>8. QED
  BY <1>2, <1>4, <1>5, <1>6, <1>7 DEF LinkInv

LEMMA TakenKeeps ==
    ASSUME IInv, NEW q \in Shortens, Taken(q) PROVE IInv'
<1> USE ConstantsAssumption DEF IInv, TypeOK, OthersOfShorten
<1>1. /\ shorten[q].pc = "insert" /\ shorten[q].alias \in Aliases
      /\ shorten[q].url \in Urls /\ shorten[q].tries \in 0..MaxAttempts
  BY DEF LinkInv, RequestsAreFilled, Taken
<1>2. /\ shorten' \in [Shortens -> [pc : ShortenStates, alias : Aliases \cup {None},
                                   url : Entries, own : BOOLEAN, tries : 0..MaxAttempts]]
      /\ shorten'[q].pc \in {"conflict", "exhausted", "insert"}
      /\ shorten'[q].alias \in Aliases /\ shorten'[q].url = shorten[q].url
      /\ \A p \in Shortens : p # q => shorten'[p] = shorten[p]
  <2>1. CASE shorten' = [shorten EXCEPT ![q].pc = "conflict"]
    BY <1>1, <2>1 DEF ShortenStates
  <2>2. CASE shorten' = [shorten EXCEPT ![q].pc = "exhausted"]
    BY <1>1, <2>2 DEF ShortenStates
  <2>3. CASE /\ shorten[q].tries < MaxAttempts
             /\ \E a \in Aliases :
                   shorten' = [shorten EXCEPT ![q].alias = a, ![q].tries = @ + 1]
    <3>1. PICK a \in Aliases :
             shorten' = [shorten EXCEPT ![q].alias = a, ![q].tries = @ + 1]
      BY <2>3
    <3>2. shorten[q].tries + 1 \in 0..MaxAttempts
      BY <1>1, <2>3
    <3>3. QED
      BY <1>1, <3>1, <3>2
  <2>4. QED
    BY <2>1, <2>2, <2>3 DEF Taken
<1>3. TypeOK'
  BY <1>2 DEF Taken, Entries
<1>4. LinkInv'
  BY <1>1, <1>2 DEF Taken, LinkInv, RequestsAreFilled, CacheAgreesWithTable,
                    CreatedLeadsToItsUrl, RedirectLeadsToLink, KnownStaysKnown,
                    KnownAliasIsFound
<1>5. ClickInv'
  BY ClicksUntouched DEF Taken
<1>6. QED
  BY <1>3, <1>4, <1>5

LEMMA SaveURLFailsKeeps ==
    ASSUME IInv, NEW q \in Shortens, SaveURLFails(q) PROVE IInv'
<1> USE ConstantsAssumption DEF IInv, TypeOK, SaveURLFails, OthersOfShorten
<1>1. faults' \in 0..MaxFaults /\ faults' > 0
  BY FaultFacts
<1>2. shorten[q].alias \in Aliases /\ shorten[q].url \in Urls
  BY DEF LinkInv, RequestsAreFilled
<1>3. TypeOK'
  <2>1. links' \in [Aliases -> Entries]
    BY <1>2 DEF Entries
  <2>2. QED
    BY <1>1, <2>1 DEF ShortenStates
<1>4. \A a \in Aliases : links[a] # None => links'[a] = links[a]
  BY <1>2
<1>5. RequestsAreFilled' /\ CacheAgreesWithTable'
  BY <1>2, <1>4 DEF LinkInv, RequestsAreFilled, CacheAgreesWithTable
<1>6. CreatedLeadsToItsUrl'
  BY <1>2, <1>4 DEF LinkInv, RequestsAreFilled, CreatedLeadsToItsUrl
<1>7. RedirectLeadsToLink' /\ KnownStaysKnown' /\ KnownAliasIsFound'
  BY <1>1, <1>2, <1>4 DEF LinkInv, RequestsAreFilled, RedirectLeadsToLink, KnownStaysKnown,
                          KnownAliasIsFound
<1>8. ClickInv'
  BY ClicksUntouched
<1>9. QED
  BY <1>3, <1>5, <1>6, <1>7, <1>8 DEF LinkInv

LEMMA SetCacheKeeps ==
    ASSUME IInv, NEW q \in Shortens, SetCache(q) PROVE IInv'
<1> USE ConstantsAssumption DEF IInv, TypeOK, SetCache, CacheSet, OthersOfShorten
<1>1. /\ shorten[q].alias \in Aliases /\ shorten[q].url \in Urls
      /\ links[shorten[q].alias] = shorten[q].url
  BY DEF LinkInv, RequestsAreFilled, CreatedLeadsToItsUrl
<1>2. TypeOK'
  BY <1>1 DEF ShortenStates, Entries
<1>3. LinkInv'
  BY <1>1 DEF LinkInv, RequestsAreFilled, CacheAgreesWithTable, CreatedLeadsToItsUrl,
              RedirectLeadsToLink, KnownStaysKnown, KnownAliasIsFound
<1>4. ClickInv'
  BY ClicksUntouched
<1>5. QED
  BY <1>2, <1>3, <1>4

-----------------------------------------------------------------------------
(* GET /s/{short}.                                                         *)

\* Before its answer a redirect has no click, so its steps count for nothing.
LEMMA UnansweredCountsNothing ==
    ASSUME IInv, NEW r \in Redirects, UNCHANGED <<click, clicks, stats>>,
           redirect' \in [Redirects -> [pc : RedirectStates, alias : Aliases \cup {None},
                                       url : Entries, known : BOOLEAN]],
           redirect[r].pc # "found", redirect'[r].pc # "found",
           \A o \in Redirects : o # r => redirect'[o] = redirect[o]
    PROVE  ClickInv'
<1> USE DEF IInv, ClickInv
<1>1. \A a \in Aliases : Sent(a)' = Sent(a)
  BY DEF Sent
<1>2. CountedWasSent'
  BY <1>1 DEF CountedWasSent
<1>3. QED
  BY <1>2 DEF ClickFollowsRedirect, TotalWasThere, TotalIsListed

LEMMA RedirectKeepsType ==
    ASSUME TypeOK, NEW r \in Redirects, NEW p \in RedirectStates, NEW u \in Entries
    PROVE  [redirect EXCEPT ![r].pc = p, ![r].url = u] \in
               [Redirects -> [pc : RedirectStates, alias : Aliases \cup {None},
                              url : Entries, known : BOOLEAN]]
BY DEF TypeOK

LEMMA VisitKeeps ==
    ASSUME IInv, NEW r \in Redirects, NEW a \in Aliases, Visit(r, a) PROVE IInv'
<1> USE ConstantsAssumption DEF IInv, TypeOK, Visit, OthersOfRedirect
<1>1. TypeOK'
  BY DEF RedirectStates, Entries
<1>2. LinkInv'
  BY DEF LinkInv, RequestsAreFilled, CacheAgreesWithTable, CreatedLeadsToItsUrl,
         RedirectLeadsToLink, KnownStaysKnown, KnownAliasIsFound
<1>3. ClickInv'
  BY <1>1, UnansweredCountsNothing
<1>4. QED
  BY <1>1, <1>2, <1>3

LEMMA HitKeeps == ASSUME IInv, NEW r \in Redirects, Hit(r) PROVE IInv'
<1>1. /\ redirect[r].alias \in Aliases /\ cache[redirect[r].alias] \in Urls
      /\ cache[redirect[r].alias] = links[redirect[r].alias]
  BY DEF IInv, TypeOK, Hit, LinkInv, RequestsAreFilled, CacheAgreesWithTable, Entries
<1>2. redirect' = [redirect EXCEPT ![r].pc = "touch", ![r].url = cache[redirect[r].alias]]
  BY DEF Hit
<1>3. redirect' \in [Redirects -> [pc : RedirectStates, alias : Aliases \cup {None},
                                    url : Entries, known : BOOLEAN]]
  <2>1. cache[redirect[r].alias] \in Entries /\ "touch" \in RedirectStates /\ TypeOK
    BY <1>1 DEF Entries, RedirectStates, IInv
  <2>2. QED
    BY <1>2, <2>1, RedirectKeepsType
<1>4. TypeOK'
  BY <1>3 DEF IInv, TypeOK, Hit, OthersOfRedirect
<1>5. LinkInv'
  BY <1>1, ConstantsAssumption
     DEF IInv, TypeOK, Hit, OthersOfRedirect, LinkInv, RequestsAreFilled,
         CacheAgreesWithTable, CreatedLeadsToItsUrl, RedirectLeadsToLink, KnownStaysKnown,
         KnownAliasIsFound
<1>6. ClickInv'
  BY <1>3, UnansweredCountsNothing DEF IInv, TypeOK, Hit, OthersOfRedirect
<1>7. QED
  BY <1>4, <1>5, <1>6 DEF IInv

LEMMA MissKeeps == ASSUME IInv, NEW r \in Redirects, Miss(r) PROVE IInv'
<1> USE ConstantsAssumption DEF IInv, TypeOK, Miss, OthersOfRedirect
<1>1. TypeOK'
  BY DEF RedirectStates
<1>2. LinkInv'
  BY DEF LinkInv, RequestsAreFilled, CacheAgreesWithTable, CreatedLeadsToItsUrl,
         RedirectLeadsToLink, KnownStaysKnown, KnownAliasIsFound
<1>3. ClickInv'
  BY <1>1, UnansweredCountsNothing
<1>4. QED
  BY <1>1, <1>2, <1>3

LEMMA GetURLKeeps == ASSUME IInv, NEW r \in Redirects, GetURL(r) PROVE IInv'
<1>1. redirect[r].alias \in Aliases /\ links[redirect[r].alias] \in Entries
  BY DEF IInv, TypeOK, GetURL, LinkInv, RequestsAreFilled
<1>2. PICK p \in RedirectStates :
         redirect' = [redirect EXCEPT ![r].pc = p, ![r].url = links[redirect[r].alias]]
  BY DEF GetURL, RedirectStates
<1>3. redirect' \in [Redirects -> [pc : RedirectStates, alias : Aliases \cup {None},
                                    url : Entries, known : BOOLEAN]]
  BY <1>1, <1>2, RedirectKeepsType DEF IInv
<1>4. TypeOK'
  BY <1>3 DEF IInv, TypeOK, GetURL, OthersOfRedirect
<1>5. LinkInv'
  BY <1>1, ConstantsAssumption
     DEF IInv, TypeOK, GetURL, OthersOfRedirect, LinkInv, RequestsAreFilled,
         CacheAgreesWithTable, CreatedLeadsToItsUrl, RedirectLeadsToLink, KnownStaysKnown,
         KnownAliasIsFound, Entries
<1>6. ClickInv'
  BY <1>3, UnansweredCountsNothing DEF IInv, TypeOK, GetURL, OthersOfRedirect
<1>7. QED
  BY <1>4, <1>5, <1>6 DEF IInv

LEMMA GetURLFailsKeeps == ASSUME IInv, NEW r \in Redirects, GetURLFails(r) PROVE IInv'
<1> USE ConstantsAssumption DEF IInv, TypeOK, GetURLFails, OthersOfRedirect
<1>1. faults' \in 0..MaxFaults /\ faults' > 0
  BY FaultFacts
<1>2. TypeOK'
  BY <1>1 DEF RedirectStates
<1>3. LinkInv'
  BY <1>1 DEF LinkInv, RequestsAreFilled, CacheAgreesWithTable, CreatedLeadsToItsUrl,
              RedirectLeadsToLink, KnownStaysKnown, KnownAliasIsFound
<1>4. ClickInv'
  BY <1>2, UnansweredCountsNothing
<1>5. QED
  BY <1>2, <1>3, <1>4

LEMMA FoundKeeps == ASSUME IInv, NEW r \in Redirects, Found(r) PROVE IInv'
<1> USE ConstantsAssumption DEF IInv, TypeOK, Found, CacheSet, OthersOfRedirect
<1>1. /\ redirect[r].alias \in Aliases /\ redirect[r].url \in Urls
      /\ redirect[r].url = links[redirect[r].alias]
  BY DEF LinkInv, RequestsAreFilled, RedirectLeadsToLink
<1>2. TypeOK'
  <2>1. cache' \in [Aliases -> Entries]
    BY <1>1 DEF Entries
  <2>2. QED
    BY <2>1 DEF RedirectStates, ClickStates
<1>3. LinkInv'
  BY <1>1 DEF LinkInv, RequestsAreFilled, CacheAgreesWithTable, CreatedLeadsToItsUrl,
              RedirectLeadsToLink, KnownStaysKnown, KnownAliasIsFound
<1>4. \A a \in Aliases : Sent(a)' = Sent(a)
  BY DEF Sent, ClickInv, ClickFollowsRedirect
<1>5. CountedWasSent'
  BY <1>4 DEF ClickInv, CountedWasSent
<1>6. ClickInv'
  BY <1>5 DEF ClickInv, ClickFollowsRedirect, TotalWasThere, TotalIsListed
<1>7. QED
  BY <1>2, <1>3, <1>6

LEMMA ExpireKeeps == ASSUME IInv, NEW a \in Aliases, Expire(a) PROVE IInv'
<1> USE ConstantsAssumption DEF IInv, TypeOK, Expire
<1>1. TypeOK'
  BY DEF Entries
<1>2. LinkInv'
  BY DEF LinkInv, RequestsAreFilled, CacheAgreesWithTable, CreatedLeadsToItsUrl,
         RedirectLeadsToLink, KnownStaysKnown, KnownAliasIsFound
<1>3. ClickInv'
  BY ClicksUntouched
<1>4. QED
  BY <1>1, <1>2, <1>3

LEMMA RestartKeeps == ASSUME IInv, Restart PROVE IInv'
<1> USE ConstantsAssumption DEF IInv, TypeOK, Restart
<1>1. faults' \in 0..MaxFaults /\ faults' > 0
  BY FaultFacts
<1>2. TypeOK'
  BY <1>1 DEF ShortenStates, RedirectStates
<1>3. LinkInv'
  BY <1>1 DEF LinkInv, RequestsAreFilled, CacheAgreesWithTable, CreatedLeadsToItsUrl,
              RedirectLeadsToLink, KnownStaysKnown, KnownAliasIsFound
<1>4. \A a \in Aliases : Sent(a)' = Sent(a)
  BY DEF Sent
<1>5. CountedWasSent'
  BY <1>4 DEF ClickInv, CountedWasSent
<1>6. ClickInv'
  BY <1>5 DEF ClickInv, ClickFollowsRedirect, TotalWasThere, TotalIsListed
<1>7. QED
  BY <1>2, <1>3, <1>6

-----------------------------------------------------------------------------
(* The click and the statistics.                                           *)

\* Steps that leave links, cache and requests alone keep LinkInv.
LEMMA LinksUntouched ==
    ASSUME TypeOK, LinkInv, UNCHANGED <<links, cache, shorten, redirect>>, faults' >= faults,
           faults' \in Nat, stats'.pc = "list" => stats'.alias \in Aliases
    PROVE  LinkInv'
BY DEF TypeOK, LinkInv, RequestsAreFilled, CacheAgreesWithTable, CreatedLeadsToItsUrl,
       RedirectLeadsToLink, KnownStaysKnown, KnownAliasIsFound

LEMMA SaveClickKeeps == ASSUME IInv, NEW r \in Redirects, SaveClick(r) PROVE IInv'
<1> USE ConstantsAssumption DEF IInv, TypeOK, SaveClick
<1>1. redirect[r].pc = "found" /\ redirect[r].alias \in Aliases
  BY DEF ClickInv, ClickFollowsRedirect, LinkInv, RequestsAreFilled
<1>2. TypeOK'
  BY <1>1 DEF ClickStates
<1>3. LinkInv'
  BY LinksUntouched DEF LinkInv, RequestsAreFilled
<1>4. \A a \in Aliases : clicks'[a] <= Cardinality(Sent(a)')
  <2> TAKE a \in Aliases
  <2>1. CASE a = redirect[r].alias
    <3>1. Sent(a)' = Sent(a) \cup {r} /\ r \notin Sent(a)
      BY <1>1, <2>1 DEF Sent
    <3>2. Cardinality(Sent(a)') = Cardinality(Sent(a)) + 1
      BY <3>1, SentIsFinite, FS_AddElement
    <3>3. clicks'[a] = clicks[a] + 1 /\ clicks[a] <= Cardinality(Sent(a))
      BY <2>1 DEF ClickInv, CountedWasSent
    <3>4. QED
      BY <3>2, <3>3, SentIsFinite
  <2>2. CASE a # redirect[r].alias
    <3>1. Sent(a)' = Sent(a) /\ clicks'[a] = clicks[a]
      BY <1>1, <2>2 DEF Sent
    <3>2. QED
      BY <3>1 DEF ClickInv, CountedWasSent
  <2>3. QED
    BY <2>1, <2>2
<1>5. \A a \in Aliases : clicks[a] <= clicks'[a]
  BY <1>1
<1>6. ClickInv'
  BY <1>1, <1>4, <1>5, <1>2 DEF ClickInv, ClickFollowsRedirect, CountedWasSent, TotalWasThere,
                               TotalIsListed, LinkInv, RequestsAreFilled
<1>7. QED
  BY <1>2, <1>3, <1>6

LEMMA ClickLostKeeps == ASSUME IInv, NEW r \in Redirects, ClickLost(r) PROVE IInv'
<1> USE ConstantsAssumption DEF IInv, TypeOK, ClickLost
<1>1. redirect[r].pc = "found"
  BY DEF ClickInv, ClickFollowsRedirect
<1>2. TypeOK'
  BY DEF ClickStates
<1>3. LinkInv'
  BY LinksUntouched DEF LinkInv, RequestsAreFilled
<1>4. \A a \in Aliases : clicks'[a] <= Cardinality(Sent(a)')
  <2> TAKE a \in Aliases
  <2>1. Sent(a)' = Sent(a) \/ Sent(a)' = Sent(a) \cup {r}
    BY <1>1 DEF Sent
  <2>2. /\ Cardinality(Sent(a)) <= Cardinality(Sent(a) \cup {r})
        /\ Cardinality(Sent(a) \cup {r}) \in Nat
    BY SentIsFinite, OneMoreElement
  <2>3. Cardinality(Sent(a)) <= Cardinality(Sent(a)') /\ Cardinality(Sent(a)') \in Nat
    <3>1. CASE Sent(a)' = Sent(a)
      BY <3>1, SentIsFinite
    <3>2. CASE Sent(a)' = Sent(a) \cup {r}
      BY <3>2, <2>2
    <3>3. QED
      BY <2>1, <3>1, <3>2
  <2>4. clicks'[a] \in Nat /\ clicks'[a] <= Cardinality(Sent(a))
    BY DEF ClickInv, CountedWasSent
  <2>5. QED
    BY <2>3, <2>4, SentIsFinite
<1>5. ClickInv'
  BY <1>1, <1>4 DEF ClickInv, ClickFollowsRedirect, CountedWasSent, TotalWasThere, TotalIsListed
<1>6. QED
  BY <1>2, <1>3, <1>5

\* Steps of the statistics request keep what is said of the clicks.
LEMMA StatsCountNothing ==
    ASSUME CountedWasSent, ClickFollowsRedirect, UNCHANGED <<redirect, click, clicks>>
    PROVE  CountedWasSent' /\ ClickFollowsRedirect'
<1>1. \A a \in Aliases : Sent(a)' = Sent(a)
  BY DEF Sent
<1>2. QED
  BY <1>1 DEF CountedWasSent, ClickFollowsRedirect

LEMMA CountClicksKeeps == ASSUME IInv, NEW a \in Aliases, CountClicks(a) PROVE IInv'
<1> USE ConstantsAssumption DEF IInv, TypeOK, CountClicks
<1>1. TypeOK'
  BY DEF StatsStates
<1>2. LinkInv'
  BY LinksUntouched
<1>3. ClickInv'
  BY StatsCountNothing DEF ClickInv, TotalWasThere, TotalIsListed
<1>4. QED
  BY <1>1, <1>2, <1>3

LEMMA ListFacts ==
    ASSUME IInv, stats.pc = "list"
    PROVE  /\ ListLength \in 0..ListLimit
           /\ stats.total <= ListLength \/ ListLength = ListLimit
<1>1. stats.alias \in Aliases /\ clicks[stats.alias] \in Nat
  BY DEF IInv, TypeOK, LinkInv, RequestsAreFilled
<1>2. QED
  BY <1>1, ConstantsAssumption DEF IInv, TypeOK, ClickInv, TotalWasThere, ListLength

LEMMA ListClicksKeeps == ASSUME IInv, ListClicks PROVE IInv'
<1> USE ConstantsAssumption DEF IInv, TypeOK, ListClicks
<1>1. /\ ListLength \in 0..ListLimit
      /\ stats.total <= ListLength \/ ListLength = ListLimit
  BY ListFacts
<1>2. TypeOK'
  BY <1>1 DEF StatsStates
<1>3. LinkInv'
  BY LinksUntouched
<1>4. ClickInv'
  BY <1>1, StatsCountNothing DEF ClickInv, TotalWasThere, TotalIsListed
<1>5. QED
  BY <1>2, <1>3, <1>4

LEMMA ListIsCutKeeps == ASSUME IInv, ListIsCut PROVE IInv'
<1> USE ConstantsAssumption DEF IInv, TypeOK, ListIsCut
<1>1. faults' \in 0..MaxFaults /\ faults' > 0 /\ faults' >= faults
  BY FaultFacts DEF Fault
<1>2. PICK n \in 0..ListLength : stats' = [stats EXCEPT !.pc = "cut", !.listed = n]
  OBVIOUS
<1>3. n \in 0..ListLimit
  BY <1>2, ListFacts
<1>4. TypeOK'
  BY <1>1, <1>2, <1>3 DEF StatsStates
<1>5. LinkInv'
  BY <1>1, <1>2, LinksUntouched
<1>6. ClickInv'
  BY <1>2, StatsCountNothing DEF ClickInv, TotalWasThere, TotalIsListed
<1>7. QED
  BY <1>4, <1>5, <1>6

LEMMA GetStatsFailsKeeps == ASSUME IInv, GetStatsFails PROVE IInv'
<1> USE ConstantsAssumption DEF IInv, TypeOK, GetStatsFails
<1>1. faults' \in 0..MaxFaults /\ faults' > 0 /\ faults' >= faults
  BY FaultFacts DEF Fault
<1>2. TypeOK'
  BY <1>1 DEF StatsStates
<1>3. LinkInv'
  BY <1>1, LinksUntouched
<1>4. ClickInv'
  BY StatsCountNothing DEF ClickInv, TotalWasThere, TotalIsListed
<1>5. QED
  BY <1>2, <1>3, <1>4

-----------------------------------------------------------------------------
(* The theorems.                                                           *)

LEMMA StutterKeeps == ASSUME IInv, UNCHANGED vars PROVE IInv'
<1>1. ClickInv'
  BY ClicksUntouched DEF IInv, vars
<1>2. QED
  BY <1>1 DEF IInv, TypeOK, LinkInv, RequestsAreFilled, CacheAgreesWithTable,
              CreatedLeadsToItsUrl, RedirectLeadsToLink, KnownStaysKnown,
              KnownAliasIsFound, vars

LEMMA NextKeeps == ASSUME IInv, [Next]_vars PROVE IInv'
<1>1. ASSUME NEW q \in Shortens, ShortenStep(q) PROVE IInv'
  BY <1>1, BeginKeeps, SaveURLKeeps, TakenKeeps, SaveURLFailsKeeps, SetCacheKeeps
     DEF ShortenStep
<1>2. ASSUME NEW r \in Redirects, RedirectStep(r) PROVE IInv'
  BY <1>2, VisitKeeps, HitKeeps, MissKeeps, GetURLKeeps, GetURLFailsKeeps, FoundKeeps,
     SaveClickKeeps, ClickLostKeeps DEF RedirectStep
<1>3. ASSUME NEW a \in Aliases, Expire(a) \/ CountClicks(a) PROVE IInv'
  BY <1>3, ExpireKeeps, CountClicksKeeps
<1>4. CASE ListClicks \/ ListIsCut \/ GetStatsFails \/ Restart
  BY <1>4, ListClicksKeeps, ListIsCutKeeps, GetStatsFailsKeeps, RestartKeeps
<1>5. CASE UNCHANGED vars
  BY <1>5, StutterKeeps
<1>6. QED
  BY <1>1, <1>2, <1>3, <1>4, <1>5 DEF Next

\* The inductive invariant holds in every reachable state of the service.
THEOREM IInvAlways == Spec => []IInv
<1>1. Init => IInv
  BY InitHolds
<1>2. IInv /\ [Next]_vars => IInv'
  BY NextKeeps
<1>3. QED
  BY <1>1, <1>2, PTL DEF Spec

\* Every variable keeps its type; a generated alias takes at most MaxAttempts
\* tries (withGeneratedAlias).
THEOREM TypeCorrect == Spec => []TypeOK
<1>1. IInv => TypeOK
  BY DEF IInv
<1>2. QED
  BY <1>1, IInvAlways, PTL

\* Redis never holds an entry that differs from the row of the table.
THEOREM CacheAgrees == Spec => []CacheAgreesWithTable
<1>1. IInv => CacheAgreesWithTable
  BY DEF IInv, LinkInv
<1>2. QED
  BY <1>1, IInvAlways, PTL

\* An alias answered with 201 leads to the URL of that request for ever.
THEOREM AliasIsWriteOnce == Spec => []CreatedLeadsToItsUrl
<1>1. IInv => CreatedLeadsToItsUrl
  BY DEF IInv, LinkInv
<1>2. QED
  BY <1>1, IInvAlways, PTL

\* A redirect, from the cache or the table, goes to the URL of its alias.
THEOREM RedirectsAreRight == Spec => []RedirectLeadsToLink
<1>1. IInv => RedirectLeadsToLink
  BY DEF IInv, LinkInv
<1>2. QED
  BY <1>1, IInvAlways, PTL

\* Resolve answers "not found" for a known alias only after a failed call.
THEOREM KnownIsFound == Spec => []KnownAliasIsFound
<1>1. IInv => KnownAliasIsFound
  BY DEF IInv, LinkInv
<1>2. QED
  BY <1>1, IInvAlways, PTL

\* The analytics service never counts more clicks than there were redirects.
THEOREM ClicksAreCounted == Spec => []ClicksAreRedirects
<1>1. ASSUME IInv PROVE ClicksAreRedirects
  <2> SUFFICES ASSUME NEW a \in Aliases
               PROVE  clicks[a] <= Cardinality({r \in Redirects :
                                redirect[r].pc = "found" /\ redirect[r].alias = a})
    BY DEF ClicksAreRedirects
  <2> DEFINE F == {r \in Redirects : redirect[r].pc = "found" /\ redirect[r].alias = a}
  <2>1. Sent(a) \subseteq F /\ IsFiniteSet(F)
    BY ConstantsAssumption, FS_Subset DEF Sent
  <2>2. Cardinality(Sent(a)) <= Cardinality(F) /\ Cardinality(F) \in Nat
    BY <2>1, FS_Subset, FS_CardinalityType
  <2>3. clicks[a] \in Nat /\ clicks[a] <= Cardinality(Sent(a))
    BY <1>1 DEF IInv, TypeOK, ClickInv, CountedWasSent
  <2>4. QED
    BY <2>2, <2>3, SentIsFinite
<1>2. QED
  BY <1>1, IInvAlways, PTL

\* Statistics never report a total above the list they come with.
THEOREM TotalsAreListed == Spec => []TotalIsListed
<1>1. IInv => TotalIsListed
  BY DEF IInv, ClickInv
<1>2. QED
  BY <1>1, IInvAlways, PTL
=============================================================================
