------------------------------ MODULE NewsMerge ------------------------------
(* From the lists of the sources to the page of news (main.go handleNews;      *)
(* feeds.go mergeItems, groupStories, topUpPerSource), and from the same lists *)
(* to the big news of the watcher (push.go breakingPush). The lists change     *)
(* between requests, each as NewsItems and NewsFetch say; what is fixed of an  *)
(* article here is its source, address, title and words.                       *)
EXTENDS Integers, Sequences, FiniteSets, FiniteSetsExt, Functions

CONSTANTS
  Articles,    \* articles, as numbers
  SourceOf,    \* their sources, as numbers: ties are broken by the name
  Canon,       \* their addresses: two sources may give the same one
  Title,       \* their normalised titles
  Words,       \* words of title and summary that carry meaning
  TitleWords,  \* those of the title
  Lang,        \* the language of each source
  Enabled, DefaultOn,  \* sources of the configuration, and those on by default
  Lists,       \* what requests name: sequences of sources and of other names
  Window,      \* storyWindow
  Extra,       \* grouping looks at twice the limit and this many more
  MostRelated, \* articles that a group holds next to its first
  Need,        \* push.breaking_sources
  Hour, HalfHour, LookBack,  \* the periods of breakingPush
  MaxLimit, MaxPer, MaxTime, \* bounds of the model; the present is MaxTime
  None

NewsMergeAssumption ==
  /\ Articles \subseteq Nat /\ IsFiniteSet(Articles) /\ Enabled \subseteq Nat
  /\ SourceOf \in [Articles -> Nat] /\ DOMAIN Canon = Articles /\ DOMAIN Title = Articles
  /\ \A a, b \in Articles : a # b /\ SourceOf[a] = SourceOf[b] =>
       Canon[a] # Canon[b] /\ Title[a] # Title[b]
  /\ Lists \subseteq Seq(Nat)
  /\ Extra \in Nat /\ MostRelated \in Nat /\ MaxLimit \in Nat /\ MaxPer \in Nat /\ MaxTime \in Nat

VARIABLES
  pub,    \* when each article was published; 0: it is in no list
  asked,  \* the last request; of the sources it names, also their places in it
  page,   \* its answer: groups, each of a first article and related ones
  told    \* the groups that the run of the watcher makes a message of

vars == <<pub, asked, page, told>>

TypeOK ==
  /\ pub \in [Articles -> 0 .. MaxTime]
  /\ asked = None \/ /\ IsInjective(asked.ids) /\ DOMAIN asked.ids \subseteq Enabled
                     /\ asked.since \in 0 .. MaxTime /\ asked.group \in BOOLEAN
                     /\ asked.limit \in 1 .. MaxLimit /\ asked.per \in 0 .. MaxPer
  /\ \A g \in Range(page) \union (IF told = None THEN {} ELSE told) :
       g \in [lead : Articles, related : SUBSET Articles]

------------------------------------------------------------------------------
Shared(a, b, words) == Cardinality(words[a] \intersect words[b])

(* Articles tell the same story if they are in one language, not too far apart *)
(* in time, and have words in common: a quarter of all, or three in five of    *)
(* those of the shorter title.                                                 *)
sameStory(a, b) ==
  /\ Lang[SourceOf[a]] = Lang[SourceOf[b]]
  /\ pub[a] - pub[b] \in -Window .. Window
  /\ LET all   == Cardinality(Words[a] \union Words[b])
         short == Min({Cardinality(TitleWords[a]), Cardinality(TitleWords[b])})
     IN  \/ Shared(a, b, Words) >= 3 /\ 4 * Shared(a, b, Words) >= all
         \/ Shared(a, b, TitleWords) >= 3 /\ 5 * Shared(a, b, TitleWords) >= 3 * short

\* Newest first, then by source; an article keeps its place in the list of its source.
Before(a, b) ==
  \/ pub[a] > pub[b]
  \/ pub[a] = pub[b] /\ SourceOf[a] < SourceOf[b]
  \/ pub[a] = pub[b] /\ SourceOf[a] = SourceOf[b] /\ a < b

Earlier(S, a) == {b \in S : Before(b, a)}
First(n, S)   == {a \in S : Cardinality(Earlier(S, a)) < n}

\* Groups of articles, each of a first one and of others that tell its story.
Members(g) == {g.lead} \union g.related
Shown(gs)  == UNION {Members(g) : g \in gs}
Leads(gs)  == {g.lead : g \in gs}
Alone(a)   == [lead |-> a, related |-> {}]

\* All the articles that a request is about.
Wanted(sources, since) == {a \in Articles : SourceOf[a] \in sources /\ pub[a] > since}

\* The first article of those that are left takes in later ones which tell its story,
\* of each source the first; they are compared with this article only.
GroupOf(rest) ==
  LET lead  == CHOOSE a \in rest : Earlier(rest, a) = {}
      alike == {b \in rest : SourceOf[b] # SourceOf[lead] /\ sameStory(lead, b)}
      firsts == {b \in alike : \A c \in Earlier(alike, b) : SourceOf[c] # SourceOf[b]}
  IN  [lead |-> lead, related |-> First(MostRelated, firsts)]

groupStories(items) ==
  LET rest[n \in 0 .. Cardinality(items)] ==
        IF n = 0 THEN items
        ELSE LET r == rest[n - 1] IN IF r = {} THEN {} ELSE r \ Members(GroupOf(r))
  IN  {GroupOf(rest[n]) : n \in {n \in DOMAIN rest : rest[n] # {}}}

\* Two articles that count as one.
Twice(a, b) == Canon[a] = Canon[b] \/ (SourceOf[a] = SourceOf[b] /\ Title[a] = Title[b])

\* Each that does not count as one with an article taken before.
Unique(S) == CHOOSE K \in SUBSET S : \A a \in S : a \in K <=> \A b \in Earlier(K, a) : ~ Twice(b, a)

mergeItems(sources, since, limit, group) ==
  LET unique == First(IF group THEN limit * 2 + Extra ELSE limit, Unique(Wanted(sources, since)))
      groups == IF group THEN groupStories(unique) ELSE {Alone(a) : a \in unique}
  IN  {g \in groups : g.lead \in First(limit, Leads(groups))}

Have(articles, s) == Cardinality({a \in articles : SourceOf[a] = s})

\* Mutant of NewTo: the addresses in a group are not looked at.
NewToAgain(groups, a) == \A k \in Leads(groups) : ~ Twice(k, a)

\* Titles are compared with the first of each group only, addresses with them all.
NewTo(groups, a) ==
  /\ \A k \in Leads(groups) : ~ Twice(k, a)
  /\ \A k \in Shown(groups) : Canon[k] # Canon[a]

\* Older articles of the sources that have too few, source by source.
topUpPerSource(groups, ids, since, per) ==
  LET free == {a \in Wanted(DOMAIN ids, since) : NewTo(groups, a)}
      Sooner(a, b) == \/ ids[SourceOf[a]] < ids[SourceOf[b]]
                      \/ SourceOf[a] = SourceOf[b] /\ Before(a, b)
      more == CHOOSE K \in SUBSET free : \A a \in free :
                LET sooner == {b \in K : Sooner(b, a)} IN
                a \in K <=> /\ Have(Shown(groups) \union sooner, SourceOf[a]) < per
                            /\ \A b \in sooner : ~ Twice(b, a)
  IN  groups \union {Alone(a) : a \in more}

\* The groups by their first articles.
Sorted(gs) ==
  [n \in 1 .. Cardinality(gs) |-> CHOOSE g \in gs : Cardinality(Earlier(Leads(gs), g.lead)) = n - 1]

------------------------------------------------------------------------------
\* Enabled sources that are named, in this order; without any name the default ones.
requestedSources(list) ==
  IF list = <<>> THEN [s \in Enabled \intersect DefaultOn |-> s]
  ELSE [s \in Enabled \intersect Range(list) |-> Min({i \in DOMAIN list : list[i] = s})]

Init ==
  /\ pub \in [Articles -> 0 .. MaxTime]
  /\ asked = None /\ page = <<>> /\ told = None

\* A `since' that cannot be read is refused before anything is looked up. Bound:
\* one request to the lists of a behaviour.
handleNews ==
  /\ asked = None /\ told = None
  /\ \E list \in Lists, since \in 0 .. MaxTime - 1, group \in BOOLEAN,
        limit \in 1 .. MaxLimit, per \in 0 .. MaxPer :
       LET ids == requestedSources(list) IN
       /\ asked' = [ids |-> ids, since |-> since, group |-> group, limit |-> limit, per |-> per]
       /\ page' = Sorted(topUpPerSource(mergeItems(DOMAIN ids, since, limit, group), ids, since, per))
  /\ UNCHANGED <<pub, told>>

\* breakingPush groups what mergeItems has grouped: the articles that the first
\* grouping took in are not among those of the second, which starts afresh.
Regrouped ==
  groupStories(Leads(mergeItems(Enabled, MaxTime - LookBack, 1000, TRUE)))

\* Enough sources within an hour of the first, the last of them just now.
Timely(g) ==
  LET nth == Min({t \in {pub[a] : a \in Members(g)} : Cardinality({a \in Members(g) : pub[a] <= t}) >= Need})
  IN  nth - Min({pub[a] : a \in Members(g)}) <= Hour /\ MaxTime - nth <= HalfHour

breakingPush ==
  /\ Need >= 2 /\ told = None /\ asked = None
  /\ told' = {g \in Regrouped : IF Cardinality(Members(g)) >= Need THEN Timely(g) ELSE FALSE}
  /\ UNCHANGED <<pub, asked, page>>

Next == handleNews \/ breakingPush
Spec == Init /\ [][Next]_vars

------------------------------------------------------------------------------
\* A page is newest first and tells no article twice: no address, and no title of
\* one source. A group has one article of a source, all of them in the language
\* of the first, alike to it and none newer (mergeItems, groupStories).
WellFormed ==
  /\ \A i, j \in DOMAIN page : i < j => pub[page[i].lead] >= pub[page[j].lead]
  /\ \A i, j \in DOMAIN page : \A a \in Members(page[i]), b \in Members(page[j]) :
       i # j \/ a # b =>
         /\ Canon[a] # Canon[b]
         /\ SourceOf[a] = SourceOf[b] => Title[a] # Title[b] /\ i # j
  /\ \A g \in Range(page) : \A a \in g.related : sameStory(g.lead, a) /\ pub[a] <= pub[g.lead]

OnPage == Shown(Range(page))

\* What is left out of a page is older than all that is on it, except for the
\* articles of a source that has too few; and only a full page leaves things out
\* (handleNews: "at least this many articles per source, on top of the limit").
NothingNewerMissed ==
  \A a \in Wanted(DOMAIN asked.ids, asked.since) :
    \/ \E k \in OnPage : Canon[k] = Canon[a]
    \/ /\ \A l \in Leads(Range(page)) : pub[l] >= pub[a] \/ Have(OnPage, SourceOf[l]) <= asked.per
       /\ \/ Len(page) >= asked.limit
          \/ asked.group /\ Cardinality(OnPage) >= 2 * asked.limit + Extra

\* A source has as many articles on the page as asked for, or all it has are there
\* (topUpPerSource: "every source has at least minPer in the list").
EnoughOfEach ==
  \A s \in DOMAIN asked.ids :
    \/ Have(OnPage, s) >= asked.per
    \/ \A a \in Wanted({s}, asked.since) : \E k \in OnPage : Canon[k] = Canon[a]

\* What the visitor asked for, and no more than that.
PageSound ==
  asked # None =>
    /\ OnPage \subseteq Wanted(DOMAIN asked.ids, asked.since)
    /\ WellFormed /\ NothingNewerMissed /\ EnoughOfEach

\* Big news (README: "a story that `push.breaking_sources` sources reported within
\* an hour"): articles of that many sources, alike to one another and of the last
\* half hour, make a message when the watcher runs.
WidelyReported(M) ==
  /\ Cardinality({SourceOf[a] : a \in M}) >= Need
  /\ \A a, b \in M : sameStory(a, b) /\ pub[a] >= MaxTime - HalfHour

BigNewsIsTold ==
  told # None =>
    \A M \in SUBSET {a \in Articles : pub[a] > 0} :
      WidelyReported(M) => \E g \in told : Members(g) \intersect M # {}

=============================================================================
