------------------------------ MODULE MCTitles ------------------------------
(* Titles for TLC: a French article from GDELT that the outlet's feed carries *)
(* too and an English one it does not, of one story; readers in Italian and   *)
(* English.                                                                   *)
EXTENDS Titles, FrontPage, TLC

CONSTANTS monde, times, event, it, en, fr, page1, page2

MCArticle == {monde, times}
MCStory == {event}
MCStoryOf == [a \in MCArticle |-> event]
MCFeedOf == {monde}
MCLanguage == {it, en, fr}
MCLanguageOf == monde :> fr @@ times :> en
MCLocale == {it, en}
MCVisible == {event, times}
MCVisit == {page1, page2}
Visits == Permutations(MCVisit)
=============================================================================
