----------------------------- MODULE MCNewsMerge -----------------------------
(* Two sources that report one story, for TLC: what the watcher makes of it.  *)
EXTENDS NewsMerge

MCEach  == <<1, 2>>          \* an article and an address each
MCTitle == <<1, 1>>
MCWords == <<{1, 2, 3}, {1, 2, 3, 4}>>
MCLang  == <<"nl", "nl">>
MCLists == {<<>>}
=============================================================================
