----------------------------- MODULE WasteLookup -----------------------------
(* Which waste calendar knows an address (waste.go wasteForAddress,            *)
(* discoverWaste, wasteIndex): the one that a visitor chose, the one that      *)
(* answered last time, or the first of the enabled ones that answers now. One  *)
(* address, looked up by visitors, by the job of the panel and by the evening  *)
(* reminder at the same time (a run may leave the other lookups to Elsewise);  *)
(* a reload changes which calendars are enabled, and the calendars change      *)
(* which addresses they know. TTLCache has the cache in front, WasteFormats    *)
(* the readers of the calendars: `half' is found = true with an error.         *)
EXTENDS Naturals, FiniteSets, FiniteSetsExt

CONSTANTS
  Callers,
  Own,        \* calendars of the municipality of the address, as numbers: their
  Elsewhere,  \* place in the list; calendars of other municipalities
  Regional,   \* calendars that are always asked
  Ending,     \* how the lookup at each can end, if it knows the address or not (WasteFormats)
  None,
  MaxMoves, MaxReloads  \* bounds of the model

Providers == Own \union Elsewhere \union Regional
Outcomes  == {"list", "half", "unknown", "error"}

\* A reader finds no address at a calendar that does not know it.
WasteLookupAssumption ==
  /\ Providers \subseteq Nat /\ None \notin Providers
  /\ Regional \intersect (Own \union Elsewhere) = {}
  /\ Ending \in [Providers -> [known : SUBSET Outcomes, other : SUBSET {"unknown", "error"}]]
  /\ MaxMoves \in Nat /\ MaxReloads \in Nat

VARIABLES
  enabled,  \* the calendars of the running configuration
  knows,    \* those that know the address now
  idx,      \* wasteIndex: the calendar remembered for the address
  look,     \* the lookup of each caller
  answer,   \* how the last one ended: a calendar, or why not
  moves, reloads

vars == <<enabled, knows, idx, look, answer, moves, reloads>>

\* history: `knew' holds the enabled ones that knew the address at some time of the
\* lookup, `always' at every time,
\* `missed' those of `always' that gave no answer.
NoLookup == [pc |-> "idle", chosen |-> None, id |-> None, list |-> {}, heard |-> FALSE, asked |-> FALSE,
         knew |-> {}, always |-> {}, missed |-> {}]

NoAnswer == [how |-> "none", by |-> None, dates |-> FALSE]
Failed(why) == [how |-> why, by |-> None, dates |-> FALSE]
Found(p, dates) == [how |-> "found", by |-> p, dates |-> dates]

TypeOK ==
  /\ enabled \subseteq Providers /\ knows \subseteq Providers
  /\ idx \in Providers \union {None}
  /\ look \in [Callers -> [pc : {"idle", "ask", "own", "regional"},
                           chosen : Providers \union {None}, id : Providers \union {None},
                           list : SUBSET Providers, heard : BOOLEAN, asked : BOOLEAN,
                           knew : SUBSET Providers, always : SUBSET Providers, missed : SUBSET Providers]]
  /\ answer \in [Callers -> [how : {"none", "found", "gone", "unreachable", "unknown", "error"},
                             by : Providers \union {None}, dates : BOOLEAN]]
  /\ moves \in 0 .. MaxMoves /\ reloads \in 0 .. MaxReloads

Init ==
  /\ enabled \in SUBSET Providers /\ enabled # {}
  /\ knows \in SUBSET Providers
  /\ idx = None /\ look = [c \in Callers |-> NoLookup] /\ answer = [c \in Callers |-> NoAnswer]
  /\ moves = 0 /\ reloads = 0

------------------------------------------------------------------------------
\* applyConfig; validate wants at least one calendar.
Reload ==
  /\ reloads < MaxReloads /\ reloads' = reloads + 1
  /\ enabled' \in SUBSET Providers \ {{}}
  /\ UNCHANGED <<knows, idx, look, answer, moves>>

\* A calendar gets to know the address, or no longer does.
Move ==
  /\ moves < MaxMoves /\ moves' = moves + 1
  /\ \E p \in Providers :
       knows' = IF p \in knows THEN knows \ {p} ELSE knows \union {p}
  /\ look' = [c \in Callers |-> IF look[c].pc = "idle" THEN look[c]
       ELSE [look[c] EXCEPT !.knew = @ \union (knows' \intersect look[c].list), !.always = @ \intersect knows']]
  /\ UNCHANGED <<enabled, idx, answer, reloads>>

\* Another lookup of the address remembers a calendar or forgets it, or the table is
\* emptied because it is full and another address comes (wasteIndex.set).
Elsewise ==
  /\ idx' \in Providers \union {None}
  /\ UNCHANGED <<enabled, knows, look, answer, moves, reloads>>

\* The lookup is over; what it was about is kept for the properties.
Done(l) == [l EXCEPT !.pc = "idle", !.list = {}, !.heard = FALSE, !.asked = FALSE]

\* The chosen calendar may have gone from the configuration since; so may the one
\* remembered, and then it stays in the index.
Start(c) ==
  /\ look[c].pc = "idle"
  /\ \E chosen \in Providers \union {None} :
       LET id  == IF chosen = None THEN idx ELSE chosen
           new == [NoLookup EXCEPT !.chosen = chosen, !.id = id, !.list = enabled,
                               !.knew = knows \intersect enabled, !.always = knows \intersect enabled]
       IN  IF id # None /\ id \notin enabled
           THEN /\ look' = [look EXCEPT ![c] = Done(new)]
                /\ answer' = [answer EXCEPT ![c] = Failed("gone")]
           ELSE /\ look' = [look EXCEPT ![c] = [new EXCEPT !.pc = IF id = None THEN "own" ELSE "ask"]]
                /\ UNCHANGED answer
  /\ UNCHANGED <<enabled, knows, idx, moves, reloads>>

\* What the index holds once the remembered calendar does not know the address. The
\* key of a lookup with a chosen calendar is another one.
Forgotten(c) == IF look[c].chosen = None THEN None ELSE idx

\* How the requests to each calendar of a group can end now.
Replied(group) ==
  {out \in [group -> Outcomes] : \A p \in group : out[p] \in IF p \in knows THEN Ending[p].known ELSE Ending[p].other}

\* What the lookup keeps of them for the properties.
Missed(c, out) == {p \in DOMAIN out \intersect look[c].always : out[p] # "list"}

\* The chosen or the remembered calendar is asked: here an error counts before found.
\* One that does not know the address is forgotten, and the search begins.
AskOne(c) ==
  /\ look[c].pc = "ask"
  /\ \E out \in Replied({look[c].id}) :
       LET end == out[look[c].id]
           l   == [look[c] EXCEPT !.missed = @ \union Missed(c, out)]
           how == IF end = "list" THEN Found(look[c].id, TRUE)
                  ELSE Failed(IF end = "unknown" THEN "unknown" ELSE "error")
       IN  IF end = "unknown" /\ look[c].chosen = None
           THEN /\ look' = [look EXCEPT ![c] = [l EXCEPT !.pc = "own", !.id = None]]
                /\ idx' = Forgotten(c) /\ UNCHANGED answer
           ELSE /\ look' = [look EXCEPT ![c] = Done(l)]
                /\ answer' = [answer EXCEPT ![c] = how]
                /\ idx' = IF end = "unknown" THEN Forgotten(c) ELSE idx
  /\ UNCHANGED <<enabled, knows, moves, reloads>>

\* Mutant of First: the last of the hits in the order of the list.
FirstLast(hits) == Max(hits)

\* List order decides between two hits.
First(hits) == Min(hits)

\* A group of calendars is asked side by side. The first hit ends the lookup and is
\* remembered, also when its dates could not be had; without one, what the group
\* said is kept.
AskGroup(c, group, out) ==
  LET hits == {p \in group : out[p] \in {"list", "half"}}
      l    == [look[c] EXCEPT !.asked = @ \/ group # {}, !.heard = @ \/ \E p \in group : out[p] # "error",
                              !.missed = @ \union Missed(c, out)]
      last == look[c].pc = "regional"
  IN  IF hits # {}
      THEN /\ answer' = [answer EXCEPT ![c] = Found(First(hits), out[First(hits)] = "list")]
           /\ idx' = First(hits)
           /\ look' = [look EXCEPT ![c] = Done(l)]
      ELSE /\ look' = [look EXCEPT ![c] = IF last THEN Done(l) ELSE [l EXCEPT !.pc = "regional"]]
           /\ answer' = IF ~ last THEN answer
                        ELSE [answer EXCEPT ![c] = Failed(IF l.asked /\ ~ l.heard THEN "unreachable" ELSE "unknown")]
           /\ UNCHANGED idx

\* Those of the municipality first; if the address service does not answer, those
\* of every municipality.
AskOwn(c) ==
  /\ look[c].pc = "own"
  /\ \E group \in {Own \intersect look[c].list, (Own \union Elsewhere) \intersect look[c].list} :
       \E out \in Replied(group) : AskGroup(c, group, out)
  /\ UNCHANGED <<enabled, knows, moves, reloads>>

AskRegional(c) ==
  /\ look[c].pc = "regional"
  /\ LET group == Regional \intersect look[c].list
     IN  \E out \in Replied(group) : AskGroup(c, group, out)
  /\ UNCHANGED <<enabled, knows, moves, reloads>>

Next ==
  \/ Reload \/ Move \/ Elsewise
  \/ \E c \in Callers : Start(c) \/ AskOne(c) \/ AskOwn(c) \/ AskRegional(c)

Spec == Init /\ [][Next]_vars

------------------------------------------------------------------------------
Ended(c, how) == look[c].pc = "idle" /\ answer[c].how = how

\* A calendar that a lookup names was enabled when it began and knew the address
\* during it, and it is the chosen one if one was chosen.
NamesAKnower ==
  \A c \in Callers : Ended(c, "found") =>
    /\ answer[c].by \in look[c].knew
    /\ look[c].chosen \in {answer[c].by, None}

\* A visitor is told that no calendar knows the address only when that is so: every
\* enabled calendar of the municipality or the region that knew it all the time has
\* failed or was misread (errWasteNotFound). The code says so too when some of them
\* fail and others do not know.
UnknownIsSo ==
  \A c \in Callers : Ended(c, "unknown") =>
    IF look[c].chosen # None THEN look[c].chosen \notin look[c].always \ look[c].missed
    ELSE look[c].always \intersect (Own \union Regional) \subseteq look[c].missed

\* Of two calendars that know the address the order decides, those of the
\* municipality first (discoverWaste: "list order decides between two hits"): a
\* search passes over one that comes earlier only if it did not know the address
\* all the time or failed to answer.
Before(p, q) == IF p \in Regional <=> q \in Regional THEN p < q ELSE q \in Regional

TheFirstThatKnows ==
  \A c \in Callers : Ended(c, "found") /\ look[c].id = None =>
    \A p \in look[c].always \intersect (Own \union Regional) :
      Before(p, answer[c].by) => p \in look[c].missed

\* A calendar comes with the dates it gave (README: "the next waste collection days").
\* Left out by the code: discoverWaste looks at found before it looks at the error, so
\* that a calendar found by a search is shown empty if the question for the dates fails.
DatesComeAlong ==
  \A c \in Callers : Ended(c, "found") /\ ~ answer[c].dates => look[c].id = None

\* What a lookup of an address promises, whatever happens during it.
WasteSound == NamesAKnower /\ UnknownIsSo /\ TheFirstThatKnows /\ DatesComeAlong
=============================================================================
