--------------------------- MODULE MCArticleStore ---------------------------
(* ArticleStore for TLC: an outlet collected in all three ways, one article at *)
(* two addresses of one page and another almost in the same words, and an      *)
(* outlet with an account only.                                                *)
EXTENDS ArticleStore

CONSTANTS plain, tracked, other, flash, ansa, corriere, rounds, gdelt, social

MCUrl == {plain, tracked, other, flash}
MCPageOf == [u \in MCUrl |-> IF u = tracked THEN plain ELSE u]
MCTitle == {"old", "first", "new", "wire", "other", "flash"}
MCAlike == {<<t, t>> : t \in MCTitle} \cup {<<"new", "other">>, <<"other", "new">>}
MCSource == {corriere, ansa}
Says(url, title, snippet) == [url |-> url, wording |-> [title |-> title, snippet |-> snippet]]
MCEditions == [s \in MCSource |-> IF s = corriere THEN
    <<<<Says(plain, "old", FALSE), Says(other, "first", TRUE)>>,
      <<Says(other, "other", TRUE), Says(tracked, "new", TRUE), Says(plain, "new", FALSE)>>>>
    ELSE <<>>]
MCFound == [s \in MCSource |-> IF s = corriere THEN
    <<Says(plain, "wire", FALSE), Says(tracked, "wire", FALSE), Says(flash, "flash", FALSE)>>
    ELSE <<>>]
MCPosted == [s \in MCSource |-> IF s = corriere THEN
    <<Says(tracked, "new", FALSE), Says(other, "other", TRUE)>> ELSE <<Says(flash, "flash", TRUE)>>]
MCSiteOf == [u \in MCUrl |-> IF u = flash THEN ansa ELSE corriere]
MCTour == <<corriere, ansa>>
MCCollector == {rounds, gdelt, social}
MCVia == [c \in MCCollector |-> CASE c = rounds -> "feed" [] c = gdelt -> "gdelt"
                                  [] OTHER -> "social"]
=============================================================================
