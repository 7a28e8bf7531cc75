SPECIFICATION FairSpec
CONSTANTS
    flood = flood
    vote = vote
    it = it
    en = en
    anna = anna
    bob = bob
    report = report
    Story <- MCStory
    Locale <- MCLocale
    Reader <- MCReader
    Wanted <- MCWanted
    Article <- MCArticle
    Lacking <- MCLacking
    TrialLimit = 2
    Char <- MCChar
    Opening <- MCOpening
    Closing <- MCClosing
    NewLine = "newline"
    Blank <- MCBlank
    MaxInputArticles = 2
    NoText = NoText
    NoRequest = NoRequest
    NoTrial = NoTrial
INVARIANTS
    GuardOfARequest
PROPERTIES
    SummaryForGood
    SummaryInTheEnd
