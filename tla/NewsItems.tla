------------------------------ MODULE NewsItems ------------------------------
(* From the answer of a news site to the list of one source (feeds.go          *)
(* parseFeed, parseJSONFeed, normalizeItems): which entries become articles,   *)
(* and when they count as published. Sites leave dates out, write ones that    *)
(* cannot be read, or give Dutch time as UTC; the date an article was first    *)
(* given is then taken over from the list of the last fetch. NewsFetch has the *)
(* fetching, the failures and the cache; texts are left out.                   *)
EXTENDS Integers, Sequences, FiniteSets, Functions

CONSTANTS
  Articles,  \* what a canonical URL stands for
  Titles,    \* normalised titles
  Clocks,    \* the times of day that a site may write
  Offsets,   \* how far a zone that it may write with them is ahead of UTC
  NoDate,
  Zone,      \* how far Dutch time is ahead of UTC
  Slack,     \* how far a date may lie ahead: five minutes
  MaxAge,    \* cache.max_age
  MaxItems,  \* cache.max_items_per_source
  MostEntries, MaxTime  \* bounds of the model

\* Dutch time is ahead of UTC by one hour or two.
NewsItemsAssumption ==
  /\ Clocks \subseteq Int /\ Offsets \subseteq Int /\ NoDate \notin Int
  /\ Zone \in Nat \ {0} /\ Slack \in Nat
  /\ MaxAge \in Nat /\ MaxItems \in Nat /\ MostEntries \in Nat /\ MaxTime \in Nat

VARIABLES
  now,
  title,  \* the title of each article
  date,   \* the date which the site gives it
  items   \* the list of the source, newest first

vars == <<now, title, date, items>>

\* A date as the site writes it: the time of day and its zone, which is Dutch when
\* there is none, and NoDate when the date is absent or cannot be read.
Dates == [clock : Clocks, offset : Offsets \union {Zone, NoDate}]

Item == [canon : Articles, at : Int]

TypeOK ==
  /\ now \in 0 .. MaxTime
  /\ title \in [Articles -> Titles] /\ date \in [Articles -> Dates]
  /\ items \in Seq(Item)

------------------------------------------------------------------------------
(* An entry of a feed names its article by links of several kinds, by its id   *)
(* or not at all; the address may carry a fragment or tracking parameters.     *)

Roots   == {"rss", "feed", "json", "html"}
Entries == [canon : Articles, links : {{"alternate"}, {"related"}, {"self", "guid"}}, titled : {TRUE}]
             \union [canon : Articles, links : {{"text"}}, titled : {FALSE}]

\* The first of the kinds which pickLink and parseFeed try; "related" stands for
\* any other relation than self and enclosure and counts in Atom alone.
pickLink(links, atom) ==
  {l \in links : l \in {"text", "alternate"} \/ (atom /\ l = "related")}

Link(e, root) ==
  IF root = "json" THEN e.links \intersect {"alternate"}
  ELSE IF pickLink(e.links, root = "feed") # {} THEN pickLink(e.links, root = "feed")
  ELSE e.links \intersect {"about", "guid"}

\* parseFeed and parseJSONFeed: anything else than a feed is an error.
IsFeed(root) == root \in {"rss", "rdf", "feed", "json"}

\* safeURL, plainText: an entry without an address or a title is skipped.
Usable(e, root) == Link(e, root) # {} /\ e.titled

\* Which entries are taken: of those that are usable, the ones that have neither the
\* address (canonicalURL) nor the title of an entry taken before.
Unique(entries, root) ==
  LET usable == {k \in DOMAIN entries : Usable(entries[k], root)} IN
  CHOOSE K \in SUBSET usable :
    \A k \in usable :
      k \in K <=> \A j \in K : j < k => /\ entries[j].canon # entries[k].canon
                                      /\ title[entries[j].canon] # title[entries[k].canon]

------------------------------------------------------------------------------
\* A date that is absent, cannot be read or lies before 1990 is none.
parseDate(d) == IF d.offset = NoDate THEN NoDate ELSE d.clock - d.offset

\* The date the article has in the list so far (normOpts.known), or now.
Known(a) ==
  IF \E i \in Range(items) : i.canon = a
  THEN (CHOOSE i \in Range(items) : i.canon = a).at ELSE now

\* Mutant of fixFutureDate: what an earlier fetch made of it is not looked at.
fixFutureDateAnew(d, known) == IF d.clock - Zone <= now + Slack THEN d.clock - Zone ELSE now

\* The time of day taken for Dutch time, whatever its zone; when that too lies
\* ahead, the date is of no use.
fixFutureDate(d, known) == IF d.clock - Zone <= now + Slack THEN d.clock - Zone ELSE known

\* Sites write Dutch time and label it as UTC, which puts the date in the future.
Published(a) ==
  LET t == parseDate(date[a]) IN
  IF t = NoDate THEN Known(a)
  ELSE IF t > now + Slack THEN fixFutureDate(date[a], Known(a)) ELSE t

\* The articles of a feed which are not too old, newest first, those of one time in the
\* order of the feed, and at most so many.
normalizeItems(entries, root, most) ==
  LET at == [k \in Unique(entries, root) |-> Published(entries[k].canon)]
      young == {k \in DOMAIN at : at[k] >= now - MaxAge}
      Newer(k) == {j \in young : at[j] > at[k] \/ (at[j] = at[k] /\ j < k)}
      Nth(n) == CHOOSE k \in young : Cardinality(Newer(k)) = n - 1
  IN  [n \in 1 .. IF Cardinality(young) < most THEN Cardinality(young) ELSE most |->
         LET k == Nth(n) IN [canon |-> entries[k].canon, at |-> at[k]]]

------------------------------------------------------------------------------
\* A site gives its articles any dates, but the same ones at every fetch.
Init ==
  /\ now = 0 /\ items = <<>>
  /\ title \in [Articles -> Titles]
  /\ date \in [Articles -> Dates]

Tick == now < MaxTime /\ now' = now + 1 /\ UNCHANGED <<title, date, items>>

\* A fetch that succeeds replaces the list; the limit is that of the
\* configuration at the time.
Fetch ==
  /\ \E root \in Roots, n \in 0 .. MostEntries, most \in 1 .. MaxItems :
       \E entries \in [1 .. n -> Entries] :
         IsFeed(root) /\ items' = normalizeItems(entries, root, most)
  /\ UNCHANGED <<now, title, date>>

Next == Tick \/ Fetch
Spec == Init /\ [][Next]_vars

------------------------------------------------------------------------------
\* The list has every article once, by address and by title, newest first and
\* none further in the future than a clock may be off (normalizeItems).
ListSound ==
  /\ Len(items) <= MaxItems
  /\ \A i, j \in DOMAIN items : i < j =>
       /\ items[i].at >= items[j].at
       /\ items[i].canon # items[j].canon /\ title[items[i].canon] # title[items[j].canon]
  /\ \A i \in Range(items) : i.at <= now + Slack

\* An article that stays in the list keeps its date, so that it does not jump
\* back to the top at every refresh; only one with a date in the future moves,
\* and forward: to what its clock says in Dutch time or in the zone it is written
\* with, once that has come (fixFutureDate: "keep the date assigned on an earlier
\* fetch").
DatesKept ==
  [][\A i \in Range(items), j \in Range(items') : i.canon = j.canon =>
       \/ j.at = i.at
       \/ LET t == parseDate(date[i.canon]) IN
          t # NoDate /\ j.at > i.at /\ j.at \in {date[i.canon].clock - Zone, t}]_vars

=============================================================================
