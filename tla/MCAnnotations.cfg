SPECIFICATION FairSpec
CONSTANTS
    anna = anna
    bob = bob
    carl = carl
    flood = flood
    vote = vote
    strike = strike
    gazette = gazette
    herald = herald
    Annotator <- MCAnnotator
    Article <- MCArticle
    Source <- MCSource
    SourceOf <- MCSourceOf
    Bucket <- MCBucket
    Category <- MCCategory
    Opinion <- MCOpinion
    Forms = 1
    MinArticles = 2
    MinAnnotators = 2
    MinAlpha <- MCMinAlpha
    Scale = 2
    NotApplicable = NotApplicable
    NoAnswer = NoAnswer
    NoJob = NoJob
INVARIANTS
    AlphaIsPairwise
PROPERTIES
    LabelsFollow
