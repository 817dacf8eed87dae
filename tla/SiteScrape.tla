------------------------------- MODULE SiteScrape -------------------------------
(***************************************************************************)
(* One collection from hh.ru: scrape() of hh_scraper.py, page after page   *)
(* of HTML searches and a request for each vacancy listed, or the pages of *)
(* the JSON API (hh_api_source.py), whose size shrinks with what is left   *)
(* of the limit.  The loop over what a page lists is an action per item.   *)
(***************************************************************************)
EXTENDS Naturals, Sequences, FiniteSets

CONSTANTS
    Advert,          \* vacancies of the site
    Searches,        \* number of searches: areas times experience filters; areas of the API
    Listed,          \* Listed[shard]: the vacancies the site finds, newest first, once each
    SitePage,        \* the vacancies on a page of HTML
    HtmlPages,       \* max_pages, for the HTML search
    ApiPage,         \* the largest page of the API
    Limits           \* limits that are asked for

ASSUME SiteScrapeAssumption ==
    /\ {Searches, SitePage, HtmlPages, ApiPage} \subseteq Nat \ {0} /\ Limits \subseteq Nat \ {0}
    /\ Listed \in [1..Searches -> Seq(Advert)]

VARIABLES
    mode, limit,     \* of the request
    at,              \* "ask", "wait" after a refusal, "load", "last" when the page
                     \* loaded is the last of its area, "done" or "failed"
    shard, page,
    links,           \* what is still to be taken from the page
    rows,            \* collected
    unloaded         \* history: vacancies whose page could not be loaded

scrapeVars == <<mode, limit, at, shard, page, links, rows, unloaded>>

Elements(s) == {s[n] : n \in DOMAIN s}

ScrapeTypeOK ==
    /\ mode \in {"html", "api"} /\ limit \in Limits
    /\ at \in {"ask", "wait", "load", "last", "done", "failed"}
    /\ shard \in 1..(Searches + 1) /\ page \in Nat
    /\ links \in Seq(Advert) /\ rows \in Seq(Advert) /\ unloaded \subseteq Advert

ScrapeInit ==
    /\ mode \in {"html", "api"} /\ limit \in Limits
    /\ at = "ask" /\ shard = 1 /\ page = 0 /\ links = <<>> /\ rows = <<>> /\ unloaded = {}

-----------------------------------------------------------------------------

\* What a search answers for a page of some size
PageOf(found, n, size) ==
    SubSeq(found, n * size + 1, IF (n + 1) * size < Len(found) THEN (n + 1) * size ELSE Len(found))

ScrapeIsOver == Len(rows) >= limit \/ shard > Searches

FinishScrape ==
    /\ at = "ask" /\ ScrapeIsOver /\ at' = "done"
    /\ UNCHANGED <<mode, limit, shard, page, links, rows, unloaded>>

Asks(m) == mode = m /\ at = "ask" /\ ~ScrapeIsOver

\* 404 or an empty page ends a shard of HTML, the last page one of the API.
EndShard ==
    /\ \/ Asks("html") /\ (page >= HtmlPages \/ PageOf(Listed[shard], page, SitePage) = <<>>)
       \/ at = "last" /\ links = <<>>
    /\ shard' = shard + 1 /\ page' = 0 /\ at' = "ask"
    /\ UNCHANGED <<mode, limit, links, rows, unloaded>>

ListPage ==
    /\ Asks("html") /\ page < HtmlPages /\ PageOf(Listed[shard], page, SitePage) # <<>>
    /\ links' = PageOf(Listed[shard], page, SitePage) /\ at' = "load"
    /\ UNCHANGED <<mode, limit, shard, page, rows, unloaded>>

\* Any other status of 400 or more: the same page again, by another proxy, for ever.
Refused ==
    Asks("html") /\ at' = "wait" /\ UNCHANGED <<mode, limit, shard, page, links, rows, unloaded>>
Retry ==
    at = "wait" /\ at' = "ask" /\ UNCHANGED <<mode, limit, shard, page, links, rows, unloaded>>

\* Mistake: the page counts only when it had something new.
NextPageIfNew(n) ==
    IF Elements(PageOf(Listed[shard], n, SitePage)) \subseteq Elements(rows) \cup unloaded THEN n
    ELSE n + 1
NextPage(n) == n + 1

\* A page of HTML that cannot be loaded or read is skipped; an item of the API is the vacancy.
\* The limit ends the page.
LoadAdvert ==
    /\ at \in {"load", "last"} /\ links # <<>>
    /\ \/ /\ mode = "html"
          /\ unloaded' = unloaded \cup {Head(links)} /\ links' = Tail(links) /\ UNCHANGED rows
       \/ /\ rows' = IF Head(links) \in Elements(rows) THEN rows ELSE Append(rows, Head(links))
          /\ links' = IF Len(rows') >= limit THEN <<>> ELSE Tail(links)
          /\ UNCHANGED unloaded
    /\ UNCHANGED <<mode, limit, at, shard, page>>

EndPage ==
    /\ at = "load" /\ links = <<>>
    /\ page' = NextPage(page) /\ at' = "ask"
    /\ UNCHANGED <<mode, limit, shard, links, rows, unloaded>>

\* Mistake: the page grows with what has been collected.
ApiSizeGrowing == IF Len(rows) + 1 < ApiPage THEN Len(rows) + 1 ELSE ApiPage
\* per_page of _collect_area
ApiSize == IF limit - Len(rows) < ApiPage THEN limit - Len(rows) ELSE ApiPage

\* Its number of pages tells the last one, in the size it was asked for with.
IsLastPage(size) == (page + 1) * size >= Len(Listed[shard])

ListItems ==
    /\ Asks("api")
    /\ links' = PageOf(Listed[shard], page, ApiSize)
    /\ at' = IF links' = <<>> \/ IsLastPage(ApiSize) THEN "last" ELSE "load"
    /\ UNCHANGED <<mode, limit, shard, page, rows, unloaded>>

\* The API's refusal, a timeout or an answer that cannot be parsed ends the run.
Break ==
    /\ at \in {"ask", "load", "last"} /\ at' = "failed"
    /\ UNCHANGED <<mode, limit, shard, page, links, rows, unloaded>>

ScrapeStep ==
    \/ FinishScrape \/ EndShard \/ ListPage \/ Refused \/ Retry \/ LoadAdvert \/ EndPage
    \/ ListItems
ScrapeNext == ScrapeStep \/ Break

\* The program runs on: every request has a timeout.
ScrapeSpec == ScrapeInit /\ [][ScrapeNext]_scrapeVars /\ WF_scrapeVars(ScrapeStep)

-----------------------------------------------------------------------------
(* Properties                                                              *)

Reached(s) ==
    IF mode = "api" THEN Elements(Listed[s])
    ELSE UNION { Elements(PageOf(Listed[s], n, SitePage)) : n \in 0..HtmlPages - 1 }

\* A finished run has no vacancy twice and no more than the limit, and below the limit it
\* has all the site lists, except those that would not load.
CollectedIsWhole ==
    at = "done" =>
       /\ Cardinality(Elements(rows)) = Len(rows) /\ Len(rows) <= limit
       /\ \/ Len(rows) = limit
          \/ \A s \in 1..Searches : Reached(s) \subseteq Elements(rows) \cup unloaded

\* A run ends once the site stops refusing searches; nothing else bounds its attempts.
EndsOnceAnswered == <>[](at # "wait") => <>(at \in {"done", "failed"})
=============================================================================
