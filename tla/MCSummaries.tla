---------------------------- MODULE MCSummaries ----------------------------
(* Summaries for TLC: a story readers ask for in two languages, another the *)
(* trial comes to, two readers, an article without its text; for           *)
(* SummaryText, the parts of a text.                                       *)
EXTENDS Summaries, SummaryText

CONSTANTS flood, vote, it, en, anna, bob, report

MCStory == {flood, vote}
MCLocale == {it, en}
MCReader == {anna, bob}
MCArticle == {report}
MCLacking == [s \in MCStory |-> IF s = flood THEN {report} ELSE {}]
MCChar == {"<", "think>", "/think>", "newline", "space", "word"}
MCOpening == <<"<", "think>">>
MCClosing == <<"<", "/think>">>
MCBlank == {"newline", "space"}
MCWanted == {<<flood, it>>, <<flood, en>>}
=============================================================================
