------------------------------- MODULE Archive -------------------------------
(***************************************************************************)
(* What the rest of the program may count on of the articles, whoever      *)
(* collects them: an article once stored stays, under its outlet; its      *)
(* title is replaced only while it has no snippet, by another title that   *)
(* a feed gives to the same page; with a snippet it never changes again.   *)
(***************************************************************************)
CONSTANTS Url, Source, Title, NoArticle

VARIABLE article    \* article[u]: its outlet and its words, or NoArticle

Article == [source : Source, wording : [title : Title, snippet : BOOLEAN]]

Init == article = [u \in Url |-> NoArticle]

Kept(u) == article'[u] = article[u]
Added(u) == article[u] = NoArticle /\ article'[u] \in Article
Corrected(u) ==
    /\ article[u] # NoArticle /\ ~ article[u].wording.snippet
    /\ article'[u] \in Article /\ article'[u].source = article[u].source

\* One transaction of a collector.
Next == \A u \in Url : Kept(u) \/ Added(u) \/ Corrected(u)

Spec == Init /\ [][Next]_article
=============================================================================
