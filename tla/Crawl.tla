-------------------------------- MODULE Crawl --------------------------------
(***************************************************************************)
(* Crawling a site for its documents (ingest.mjs).                         *)
(*                                                                         *)
(* The seed is followed through redirects first; where it ends decides the *)
(* origin of the crawl. Then a queue of URLs is worked off, one fetch at a *)
(* time, until it is empty or there are enough documents. What a page      *)
(* links to is queued when it is of the same origin, passes the filters of *)
(* the configuration, has not been seen, and there is room: the queue and  *)
(* the documents together may not exceed the page budget.                  *)
(*                                                                         *)
(* A URL is a page and a fragment; links lose their fragment, the targets  *)
(* of refreshes and redirects keep it. A page is one of                    *)
(*   "html"      a document                                                *)
(*   "rich"      a document that also refreshes to another URL             *)
(*   "thin"      a page without content that refreshes to another URL      *)
(*   "redirect"  an HTTP redirect                                          *)
(*   "other"     an error status or not HTML                               *)
(***************************************************************************)
EXTENDS Integers, Sequences, SequencesExt

CONSTANTS MaxPages,   \* source.maxPages
          MaxHops,    \* redirects followed from the seed
          MaxFailures \* bound: fetches that fail

VARIABLES site,     \* what is crawled: seed, origin, kind, to, links, filtered
          href,     \* the URL about to be fetched while the seed is resolved
          hops,     \* redirects followed
          queue, seen,
          docs,     \* the pages kept as documents
          cut,      \* history: a link was refused for lack of room, or a fetch failed
          failures  \* fetches that have failed

crawlVars == <<site, href, hops, queue, seen, docs, cut, failures>>

Url(page) == [page |-> page, frag |-> FALSE]

\* Nothing to crawl: a build from a folder starts with the documents given.
CrawlInit(s, given) ==
  /\ site = s
  /\ href = s.seed
  /\ hops = 0
  /\ queue = <<>>
  /\ seen = {}
  /\ docs = given
  /\ cut = FALSE
  /\ failures = 0

Kind(url) == site.kind[url.page]
Allowed(url) == url.page \notin site.filtered
SameOrigin(url) == site.origin[url.page] = site.origin[href.page]
RoomFor(q, d) == Len(q) + Len(d) < MaxPages

\* metaRefreshTarget of an HTML page, or the Location of a redirect.
Moves(url) == Kind(url) \in {"rich", "thin", "redirect"} /\ site.to[url.page] # url

\* resolveSeedUrl: one hop. A failed fetch is left for the loop to report.
FollowSeed ==
  /\ hops < MaxHops
  /\ Moves(href)
  /\ href' = site.to[href.page]
  /\ hops' = hops + 1
  /\ UNCHANGED <<site, queue, seen, docs, cut, failures>>
StartCrawl ==
  /\ \/ hops = MaxHops \/ ~Moves(href)
     \/ failures < MaxFailures
  /\ failures' = IF hops = MaxHops \/ ~Moves(href) THEN failures ELSE failures + 1
  /\ queue' = <<href>>
  /\ UNCHANGED <<site, href, hops, seen, docs, cut>>

\* What the frontier does with the links of a page, in their order: a filtered
\* one is marked as seen, any other is queued while there is room.
Enqueue(front, url, d) ==
  IF url \in front.seen \/ ~SameOrigin(url) THEN front
  ELSE IF ~Allowed(url) THEN [front EXCEPT !.seen = @ \union {url}]
  ELSE IF RoomFor(front.queue, d) THEN [front EXCEPT !.queue = Append(@, url)]
  ELSE [front EXCEPT !.cut = TRUE]

LinksOf(page) == [i \in DOMAIN site.links[page] |-> Url(site.links[page][i])]

\* One turn of ingestUrl's loop.
Crawling == queue # <<>> /\ Len(docs) < MaxPages
Rest == Tail(queue)
Skip ==
  /\ Crawling
  /\ Head(queue) \in seen
  /\ queue' = Rest
  /\ UNCHANGED <<site, href, hops, seen, docs, cut, failures>>
FetchFails ==
  /\ Crawling /\ Head(queue) \notin seen
  /\ failures < MaxFailures
  /\ failures' = failures + 1
  /\ cut' = TRUE
  /\ seen' = seen \union {Head(queue)}
  /\ queue' = Rest
  /\ UNCHANGED <<site, href, hops, docs>>
Fetched ==
  /\ Crawling /\ Head(queue) \notin seen
  /\ LET url   == Head(queue)
         keep  == Kind(url) \in {"html", "rich"}
         d     == IF keep THEN Append(docs, url.page) ELSE docs
         links == CASE keep -> LinksOf(url.page)
                    [] Kind(url) = "thin" -> <<site.to[url.page]>>
                    [] OTHER -> <<>>
         front == FoldLeft(LAMBDA f, u : Enqueue(f, u, d),
                           [queue |-> Rest, seen |-> seen \union {url}, cut |-> cut], links)
     IN /\ docs' = d
        /\ queue' = front.queue /\ seen' = front.seen /\ cut' = front.cut
  /\ UNCHANGED <<site, href, hops, failures>>

-----------------------------------------------------------------------------
\* Where a page that was read leads to.
LeadsTo(url) == CASE Kind(url) \in {"html", "rich"} -> Range(LinksOf(url.page))
                  [] Kind(url) = "thin" -> {site.to[url.page]}
                  [] OTHER -> {}

\* A crawl stays within the site and its filters, but for the seed, and within
\* its budget, in which nothing takes a place that will not be fetched for the
\* filters or the origin; and when every fetch succeeded and no link was refused
\* for lack of room, it kept every document that a page it read leads to.
CrawlIsThorough ==
  seen # {} =>
    /\ Len(docs) <= MaxPages
    /\ \A url \in Range(queue) : SameOrigin(url) /\ (url = href \/ Allowed(url))
    /\ \A page \in Range(docs) : SameOrigin(Url(page)) /\ (page = href.page \/ Allowed(Url(page)))
    /\ (queue = <<>> /\ ~cut) =>
         \A url \in {u \in seen : u = href \/ Allowed(u)} : \A t \in LeadsTo(url) :
           (SameOrigin(t) /\ Allowed(t) /\ Kind(t) \in {"html", "rich"}) => t.page \in Range(docs)
=============================================================================
