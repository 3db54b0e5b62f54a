---------------------------- MODULE WasteFormats ----------------------------
(* How the readers of the waste calendars (waste.go fetchWaste) end: what each *)
(* kind of calendar makes of the answers to its requests.  r.session is the    *)
(* answer to what opens a session, r.address to the question about the address, *)
(* r.calendar to the one for the dates, or for those of next year; r.message   *)
(* says whether the second has something to say.  Dates, names of waste and    *)
(* the form of the requests are left out.                                      *)

\* An answer: what was asked for, an understandable one without it, 404 or 400, JSON of
\* another shape, something else, or none at all.
Answers == {"data", "none", "refused", "odd", "bad", "down"}
Unread  == {"odd", "bad"}

\* fetcher.Do and the decoding of the body: every status but 2xx is an error.
Do(a) == IF a \in {"data", "none"} THEN a ELSE "error"

\* getJSON: "many providers answer an unknown address with 404/400".
getJSON(a) == IF a = "refused" THEN "none" ELSE Do(a)

\* The last answer decides: dates, no dates for this address, or an error.
Single(a) == IF a = "error" THEN "error" ELSE IF a = "none" THEN "unknown" ELSE "list"

\* The address is found first: after that an error is returned beside found = true.
TwoSteps(address, calendar) ==
  IF address = "data" /\ calendar = "error" THEN "half" ELSE Single(address)

\* A reader that asks year by year skips a year without dates.
ByYear(this, next) ==
  IF "error" \in {this, next}
  THEN IF this = "data" THEN "half" ELSE "error"
  ELSE IF "data" \in {this, next} THEN "list" ELSE "unknown"

wasteOpzet(r)  == TwoSteps(getJSON(r.address), Do(r.calendar))
wasteReinis(r) == TwoSteps(getJSON(r.address), Do(r.calendar))
wasteXimmio(r) == TwoSteps(Do(r.address), Do(r.calendar))

\* "an unknown address answers with an empty list or a message"
wasteMijnAfvalwijzer(r) == IF r.address = "odd" THEN "unknown" ELSE Single(getJSON(r.address))

wasteRova(r)  == Single(getJSON(r.address))
wasteIrado(r) == Single(getJSON(r.address))
wasteKliko(r) == Single(getJSON(r.address))

\* Asked again with the suffix in another field when nothing was found.
wasteAmsterdam(r) == Single(getJSON(r.address))

\* An unreadable answer counts as an unknown address.
wasteStraatbeeld(r) ==
  IF r.address \in {"refused"} \union Unread THEN "unknown" ELSE Single(Do(r.address))

wasteRD4(r) == ByYear(getJSON(r.address), getJSON(r.calendar))

\* A year that the site refuses, or whose file is no calendar, is skipped.
wasteICal(r) ==
  LET year(a) == IF a \in {"refused"} \union Unread THEN "none" ELSE Do(a)
  IN  ByYear(year(r.address), year(r.calendar))

\* An anonymous session first. A calendar refused is one without dates.
wasteBurgerportaal(r) ==
  IF r.session # "data" THEN "error" ELSE TwoSteps(getJSON(r.address), getJSON(r.calendar))

\* "the guest login fails for an address outside Omrin's area"
wasteOmrin(r) ==
  IF r.address \in {"refused", "none"} \union Unread THEN "unknown"
  ELSE TwoSteps(Do(r.address), Do(r.calendar))

\* Every request of the session is checked. Without a message there is no address to choose
\* and the calendar is asked for, which has the last word.
wasteCirculus(r) ==
  IF r.session \in {"down", "refused"} \/ r.address \in {"down", "refused"} THEN "error"
  ELSE IF r.address \in Unread \/ (r.address = "none" /\ r.message) THEN "unknown"
  ELSE IF r.calendar \in Unread THEN "unknown" ELSE Single(Do(r.calendar))

fetchWaste(kind, r) ==
  CASE kind = "opzet"           -> wasteOpzet(r)
    [] kind = "ximmio"          -> wasteXimmio(r)
    [] kind = "mijnafvalwijzer" -> wasteMijnAfvalwijzer(r)
    [] kind = "amsterdam"       -> wasteAmsterdam(r)
    [] kind = "rd4"             -> wasteRD4(r)
    [] kind = "rova"            -> wasteRova(r)
    [] kind = "irado"           -> wasteIrado(r)
    [] kind \in {"reinis", "rwm"} -> wasteReinis(r)
    [] kind = "kliko"           -> wasteKliko(r)
    [] kind = "straatbeeld"     -> wasteStraatbeeld(r)
    [] kind = "ical"            -> wasteICal(r)
    [] kind = "burgerportaal"   -> wasteBurgerportaal(r)
    [] kind = "omrin"           -> wasteOmrin(r)
    [] kind = "circulus"        -> wasteCirculus(r)

Kinds == {"opzet", "ximmio", "mijnafvalwijzer", "amsterdam", "rd4", "rova", "irado", "reinis",
          "rwm", "kliko", "straatbeeld", "ical", "burgerportaal", "omrin", "circulus"}

\* The answers of a site that knows the address, or of one that does not: its next
\* year is as unknown as this one.
Replies(knows) ==
  {r \in [session : Answers, address : Answers, calendar : Answers, message : BOOLEAN] :
     /\ r.address \in {"odd", "bad", "down"} \union IF knows THEN {"data"} ELSE {"none", "refused"}
     /\ knows \/ r.calendar # "data"}

\* How a lookup at a calendar can end: `half' is found = true with an error.
Outcomes == {"list", "half", "unknown", "error"}
Ends(kind, knows) == {fetchWaste(kind, r) : r \in Replies(knows)}

Exchanges == {"session", "address", "calendar"}

\* Whatever the format, a calendar that does not know the address is never read as
\* knowing it, one that knows it is found when every request is answered, and requests
\* that are not answered do not turn a known address into an unknown one (fetchWaste:
\* "found=false means the provider does not know the address").
ReadersSound ==
  \A kind \in Kinds :
    /\ Ends(kind, FALSE) \subseteq {"unknown", "error"}
    /\ \A r \in Replies(TRUE) :
         /\ (\A q \in Exchanges : r[q] = "data") => fetchWaste(kind, r) = "list"
         /\ (\A q \in Exchanges : r[q] \in {"data", "down"}) => fetchWaste(kind, r) # "unknown"
=============================================================================
