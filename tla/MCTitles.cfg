SPECIFICATION FairSpec
CONSTANTS
    monde = monde
    times = times
    event = event
    it = it
    en = en
    fr = fr
    page1 = page1
    page2 = page2
    Article <- MCArticle
    Story <- MCStory
    StoryOf <- MCStoryOf
    FeedOf <- MCFeedOf
    Language <- MCLanguage
    LanguageOf <- MCLanguageOf
    Locale <- MCLocale
    Visible <- MCVisible
    Visit <- MCVisit
    NoTitle = NoTitle
    NoCopy = NoCopy
    NoTask = NoTask
    NoRound = NoRound
    Oldest = 3
    Window = 2
    PageCandidates = 3
    PageSize = 2
    LastMinuteSize = 2
    TrueCoverage = 3
    JobLimit = 3
    JobCandidates = 6
INVARIANTS
    OneTaskPerTitle
    TranslationsOfTheTitle
    NeutralTitleOfAnArticle
PROPERTIES
    EventuallyTranslated
