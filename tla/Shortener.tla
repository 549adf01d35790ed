----------------------------- MODULE Shortener -----------------------------
(***************************************************************************)
(* L3.2, URL shortener and analytics: POST /shorten inserts an alias into  *)
(* the table and then into the Redis cache; GET /s/{short} looks in the    *)
(* cache, then in the table, and starts a goroutine that sends the click   *)
(* to the analytics service, whose GET counts the clicks and lists the     *)
(* latest of them in two statements.                                       *)
(*                                                                         *)
(* Every call of a request to the table, the cache or the other service is *)
(* a step of its own.  The cache may forget an entry at any time (TTL,     *)
(* eviction, restart) and its errors are logged and passed over; a write   *)
(* that is reported failed may have been applied.                          *)
(***************************************************************************)
EXTENDS Naturals, FiniteSets

CONSTANTS
    Aliases, Urls,
    None,         \* no row, no entry, not chosen yet
    Shortens,     \* POST /shorten requests
    Redirects,    \* GET /s/{short} requests
    MaxAttempts,  \* maxAttempts of withGeneratedAlias, 5 in the code
    ListLimit,    \* LIMIT of the click list, 100 in the code
    MaxFaults     \* bound: failed calls to the table

ASSUME ConstantsAssumption == /\ Aliases # {} /\ Urls # {}
                              /\ None \notin Aliases \cup Urls
                              /\ IsFiniteSet(Redirects)
                              /\ MaxAttempts \in Nat \ {0}
                              /\ ListLimit \in Nat
                              /\ MaxFaults \in Nat

VARIABLES
    links,     \* table links: short -> original
    cache,     \* Redis
    shorten,   \* per request: next step, alias, URL, who chose the alias, attempts
    redirect,  \* per request: next step, alias, URL found; history: was the alias known
    click,     \* per redirect, its goroutine
    clicks,    \* rows of table clicks per alias
    stats,     \* one GET /analytics/{short}: next step, alias, total, length of the list
    faults

vars == <<links, cache, shorten, redirect, click, clicks, stats, faults>>

ShortenStates  == {"new", "insert", "cache", "created", "conflict", "exhausted", "failed"}
RedirectStates == {"new", "get", "touch", "load", "fill", "found", "notFound", "gone"}
ClickStates    == {"none", "sending", "ended"}
StatsStates    == {"new", "list", "answered", "cut", "failed"}

Init == /\ links = [a \in Aliases |-> None]
        /\ cache = [a \in Aliases |-> None]
        /\ shorten = [q \in Shortens |->
              [pc |-> "new", alias |-> None, url |-> None, own |-> FALSE, tries |-> 0]]
        /\ redirect = [r \in Redirects |->
              [pc |-> "new", alias |-> None, url |-> None, known |-> FALSE]]
        /\ click = [r \in Redirects |-> "none"]
        /\ clicks = [a \in Aliases |-> 0]
        /\ stats = [pc |-> "new", alias |-> None, total |-> 0, listed |-> 0]
        /\ faults = 0

Fault == faults < MaxFaults /\ faults' = faults + 1

\* Cache.Set: the entry is written, or the error is only logged.
CacheSet(a, u) == cache' \in {cache, [cache EXCEPT ![a] = u]}

-----------------------------------------------------------------------------
(* POST /shorten.                                                          *)

OthersOfShorten == UNCHANGED <<redirect, click, clicks, stats>>

\* Mutant: the user's alias goes to the cache before the table has accepted it.
BeginCachesFirst(q, a, u, own) ==
    /\ shorten[q].pc = "new"
    /\ shorten' = [shorten EXCEPT ![q] =
          [pc |-> "insert", alias |-> a, url |-> u, own |-> own, tries |-> 1]]
    /\ cache' = IF own THEN [cache EXCEPT ![a] = u] ELSE cache
    /\ UNCHANGED <<links, faults>> /\ OthersOfShorten

\* The alias is the user's (own), or the first that nanoid draws.
Begin(q, a, u, own) ==
    /\ shorten[q].pc = "new"
    /\ shorten' = [shorten EXCEPT ![q] =
          [pc |-> "insert", alias |-> a, url |-> u, own |-> own, tries |-> 1]]
    /\ UNCHANGED <<links, cache, faults>> /\ OthersOfShorten

\* Mutant: INSERT ... ON CONFLICT (short) DO UPDATE.
UpsertURL(q) ==
    /\ shorten[q].pc = "insert"
    /\ links' = [links EXCEPT ![shorten[q].alias] = shorten[q].url]
    /\ shorten' = [shorten EXCEPT ![q].pc = "cache"]
    /\ UNCHANGED <<cache, faults>> /\ OthersOfShorten

SaveURL(q) ==
    /\ shorten[q].pc = "insert"
    /\ links[shorten[q].alias] = None
    /\ links' = [links EXCEPT ![shorten[q].alias] = shorten[q].url]
    /\ shorten' = [shorten EXCEPT ![q].pc = "cache"]
    /\ UNCHANGED <<cache, faults>> /\ OthersOfShorten

\* Mutant: a generated alias that is taken is returned as if it were new.
TakenIsGood(q) ==
    /\ shorten[q].pc = "insert"
    /\ links[shorten[q].alias] # None
    /\ shorten' = [shorten EXCEPT ![q].pc = IF shorten[q].own
                                            THEN "conflict" ELSE "created"]
    /\ UNCHANGED <<links, cache, faults>> /\ OthersOfShorten

\* Mutant: the attempts of a generated alias are not counted.
TakenForEver(q) ==
    /\ shorten[q].pc = "insert"
    /\ links[shorten[q].alias] # None
    /\ \/ /\ shorten[q].own
          /\ shorten' = [shorten EXCEPT ![q].pc = "conflict"]
       \/ /\ ~shorten[q].own
          /\ \E a \in Aliases :
                shorten' = [shorten EXCEPT ![q].alias = a, ![q].tries = @ + 1]
    /\ UNCHANGED <<links, cache, faults>> /\ OthersOfShorten

\* The primary key is violated: 409 for a user's alias, another draw for a
\* generated one until the attempts are used up.
Taken(q) ==
    /\ shorten[q].pc = "insert"
    /\ links[shorten[q].alias] # None
    /\ \/ /\ shorten[q].own
          /\ shorten' = [shorten EXCEPT ![q].pc = "conflict"]
       \/ /\ ~shorten[q].own /\ shorten[q].tries = MaxAttempts
          /\ shorten' = [shorten EXCEPT ![q].pc = "exhausted"]
       \/ /\ ~shorten[q].own /\ shorten[q].tries < MaxAttempts
          /\ \E a \in Aliases :
                shorten' = [shorten EXCEPT ![q].alias = a, ![q].tries = @ + 1]
    /\ UNCHANGED <<links, cache, faults>> /\ OthersOfShorten

\* Any other error ends the request with 500; the row may be there.
SaveURLFails(q) ==
    /\ Fault
    /\ shorten[q].pc = "insert"
    /\ \/ UNCHANGED links
       \/ /\ links[shorten[q].alias] = None
          /\ links' = [links EXCEPT ![shorten[q].alias] = shorten[q].url]
    /\ shorten' = [shorten EXCEPT ![q].pc = "failed"]
    /\ UNCHANGED cache /\ OthersOfShorten

\* 201 whatever the cache answers.
SetCache(q) ==
    /\ shorten[q].pc = "cache"
    /\ CacheSet(shorten[q].alias, shorten[q].url)
    /\ shorten' = [shorten EXCEPT ![q].pc = "created"]
    /\ UNCHANGED <<links, faults>> /\ OthersOfShorten

-----------------------------------------------------------------------------
(* GET /s/{short}: Resolve, then the click.                                *)

OthersOfRedirect == UNCHANGED <<shorten, clicks, stats>>

Visit(r, a) ==
    /\ redirect[r].pc = "new"
    /\ redirect' = [redirect EXCEPT ![r] =
          [pc |-> "get", alias |-> a, url |-> None, known |-> links[a] # None]]
    /\ UNCHANGED <<links, cache, click, faults>> /\ OthersOfRedirect

Hit(r) ==
    /\ redirect[r].pc = "get"
    /\ cache[redirect[r].alias] # None
    /\ redirect' = [redirect EXCEPT ![r].pc = "touch", ![r].url = cache[redirect[r].alias]]
    /\ UNCHANGED <<links, cache, click, faults>> /\ OthersOfRedirect

\* Mutant: what the cache does not know is not found.
MissIsNotFound(r) ==
    /\ redirect[r].pc = "get"
    /\ redirect' = [redirect EXCEPT ![r].pc = "notFound"]
    /\ UNCHANGED <<links, cache, click, faults>> /\ OthersOfRedirect

\* Not in the cache, or the cache returns an error: the same to Resolve.
Miss(r) ==
    /\ redirect[r].pc = "get"
    /\ redirect' = [redirect EXCEPT ![r].pc = "load"]
    /\ UNCHANGED <<links, cache, click, faults>> /\ OthersOfRedirect

GetURL(r) ==
    /\ redirect[r].pc = "load"
    /\ LET u == links[redirect[r].alias]
       IN  redirect' = [redirect EXCEPT ![r].pc = IF u = None THEN "notFound" ELSE "fill",
                                        ![r].url = u]
    /\ UNCHANGED <<links, cache, click, faults>> /\ OthersOfRedirect

\* Every error of the table is answered as an unknown alias.
GetURLFails(r) ==
    /\ Fault
    /\ redirect[r].pc = "load"
    /\ redirect' = [redirect EXCEPT ![r].pc = "notFound"]
    /\ UNCHANGED <<links, cache, click>> /\ OthersOfRedirect

\* The entry is written (again, for its TTL), the goroutine starts, 302.
Found(r) ==
    /\ redirect[r].pc \in {"touch", "fill"}
    /\ CacheSet(redirect[r].alias, redirect[r].url)
    /\ redirect' = [redirect EXCEPT ![r].pc = "found"]
    /\ click' = [click EXCEPT ![r] = "sending"]
    /\ UNCHANGED <<links, faults>> /\ OthersOfRedirect

Expire(a) ==
    /\ cache[a] # None
    /\ cache' = [cache EXCEPT ![a] = None]
    /\ UNCHANGED <<links, shorten, redirect, click, clicks, stats, faults>>

\* The shortener stops and starts again: its requests are gone; a click on its
\* way may still arrive (SaveClick) or be lost with its goroutine (ClickLost).
Restart ==
    /\ Fault
    /\ shorten' = [q \in Shortens |->
          IF shorten[q].pc \in {"insert", "cache"}
          THEN [shorten[q] EXCEPT !.pc = "failed"] ELSE shorten[q]]
    /\ redirect' = [r \in Redirects |->
          IF redirect[r].pc \in {"get", "touch", "load", "fill"}
          THEN [redirect[r] EXCEPT !.pc = "gone"] ELSE redirect[r]]
    /\ UNCHANGED <<links, cache, click, clicks, stats>>

-----------------------------------------------------------------------------
(* sendClickEvent and the analytics service.                               *)

\* Mutant: the goroutine sends again when the answer does not come in time.
ClickSentAgain(r) ==
    /\ click[r] = "sending"
    /\ click' \in {click, [click EXCEPT ![r] = "ended"]}
    /\ clicks' = [clicks EXCEPT ![redirect[r].alias] = @ + 1]
    /\ UNCHANGED <<links, cache, shorten, redirect, stats, faults>>

\* The row is inserted; whether the answer arrives within 500 ms changes a log line.
SaveClick(r) ==
    /\ click[r] = "sending"
    /\ click' = [click EXCEPT ![r] = "ended"]
    /\ clicks' = [clicks EXCEPT ![redirect[r].alias] = @ + 1]
    /\ UNCHANGED <<links, cache, shorten, redirect, stats, faults>>

\* Analytics is away, too slow or cannot insert: a warning, no second try.
ClickLost(r) ==
    /\ click[r] = "sending"
    /\ click' = [click EXCEPT ![r] = "ended"]
    /\ UNCHANGED <<links, cache, shorten, redirect, clicks, stats, faults>>

\* Mutant: the COUNT has no WHERE short = $1.
CountAllClicks(a) ==
    /\ stats.pc = "new"
    /\ LET all == Cardinality({r \in Redirects : click[r] = "ended"})
       IN  stats' = [pc |-> "list", alias |-> a, total |-> all, listed |-> 0]
    /\ UNCHANGED <<links, cache, shorten, redirect, click, clicks, faults>>

CountClicks(a) ==
    /\ stats.pc = "new"
    /\ stats' = [pc |-> "list", alias |-> a, total |-> clicks[a], listed |-> 0]
    /\ UNCHANGED <<links, cache, shorten, redirect, click, clicks, faults>>

\* LIMIT
ListLength == IF clicks[stats.alias] < ListLimit THEN clicks[stats.alias] ELSE ListLimit

ListClicks ==
    /\ stats.pc = "list"
    /\ stats' = [stats EXCEPT !.pc = "answered",
                              !.listed = ListLength]
    /\ UNCHANGED <<links, cache, shorten, redirect, click, clicks, faults>>

\* The connection breaks between two rows: rows.Next() ends the loop, rows.Err()
\* is not asked, and what was read so far is answered with 200.
ListIsCut ==
    /\ Fault
    /\ stats.pc = "list"
    /\ \E n \in 0..ListLength : stats' = [stats EXCEPT !.pc = "cut", !.listed = n]
    /\ UNCHANGED <<links, cache, shorten, redirect, click, clicks>>

GetStatsFails ==
    /\ Fault
    /\ \/ stats.pc = "new"
       \/ stats.pc = "list"
    /\ stats' = [stats EXCEPT !.pc = "failed"]
    /\ UNCHANGED <<links, cache, shorten, redirect, click, clicks>>

-----------------------------------------------------------------------------

ShortenStep(q) == \/ \E a \in Aliases, u \in Urls, own \in BOOLEAN : Begin(q, a, u, own)
                  \/ SaveURL(q) \/ Taken(q) \/ SaveURLFails(q) \/ SetCache(q)

RedirectStep(r) == \/ \E a \in Aliases : Visit(r, a)
                   \/ Hit(r) \/ Miss(r) \/ GetURL(r) \/ GetURLFails(r) \/ Found(r)
                   \/ SaveClick(r) \/ ClickLost(r)

Next == \/ \E q \in Shortens : ShortenStep(q)
        \/ \E r \in Redirects : RedirectStep(r)
        \/ \E a \in Aliases : Expire(a) \/ CountClicks(a)
        \/ ListClicks \/ ListIsCut \/ GetStatsFails
        \/ Restart

Spec == Init /\ [][Next]_vars

-----------------------------------------------------------------------------
(* Properties.                                                             *)

Entries == Urls \cup {None}

\* Every variable has its type.
TypeOK == /\ links \in [Aliases -> Entries]
          /\ cache \in [Aliases -> Entries]
          /\ shorten \in [Shortens -> [pc : ShortenStates, alias : Aliases \cup {None}, url : Entries,
                                       own : BOOLEAN, tries : 0..MaxAttempts]]
          /\ redirect \in [Redirects -> [pc : RedirectStates, alias : Aliases \cup {None}, url : Entries,
                                         known : BOOLEAN]]
          /\ click \in [Redirects -> ClickStates]
          /\ clicks \in [Aliases -> Nat]
          /\ stats \in [pc : StatsStates, alias : Aliases \cup {None}, total : Nat,
                        listed : 0..ListLimit]
          /\ faults \in 0..MaxFaults

\* The cache never says anything the table does not: neither the three writers
\* of an entry nor requests that fail half way leave a URL of their own in it.
CacheAgreesWithTable == \A a \in Aliases : cache[a] # None => cache[a] = links[a]

\* A client that got 201 owns the alias: it leads to the URL of that client, and
\* no other request, failed or repeated, takes it over.
CreatedLeadsToItsUrl ==
    \A q \in Shortens : shorten[q].pc \in {"cache", "created"} =>
        links[shorten[q].alias] = shorten[q].url

\* A redirect goes to the URL the alias has, also when the answer was read from
\* the cache or the table several steps before.
RedirectLeadsToLink ==
    \A r \in Redirects : redirect[r].pc \in {"touch", "fill", "found"} =>
        redirect[r].url = links[redirect[r].alias]

\* An alias that existed when the request came is found, whatever the cache has
\* forgotten or refused, unless a call to the table failed.
KnownAliasIsFound ==
    \A r \in Redirects : redirect[r].pc = "notFound" /\ redirect[r].known => faults > 0

\* Clicks are redirects: none is counted twice, or for an alias nobody followed.
ClicksAreRedirects ==
    \A a \in Aliases : clicks[a] <= Cardinality({r \in Redirects :
                                        redirect[r].pc = "found" /\ redirect[r].alias = a})

\* An answer of the analytics service never promises more clicks than it lists,
\* up to the limit of the list, although clicks arrive between its two statements
\* (a list that was cut is another matter: it is not told from a complete one).
TotalIsListed == stats.pc = "answered" => stats.total <= stats.listed \/ stats.listed = ListLimit
=============================================================================
