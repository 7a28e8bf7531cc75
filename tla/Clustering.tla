----------------------------- MODULE Clustering -----------------------------
(***************************************************************************)
(* The grouping of articles into stories (core/cluster/incremental.py,     *)
(* core/cluster/knn.py, core/cluster/coverage.py) as cluster_job runs it.  *)
(*                                                                         *)
(* A round reads the newest articles without a story and the stories they  *)
(* may join into its session, attaches each article to one of them or      *)
(* opens a story for it, and commits once; the coverage of the stories it  *)
(* touched follows in further transactions.  The scheduler runs one round  *)
(* at a time, but "Aggiorna ora" calls the same function: two rounds may   *)
(* overlap.                                                                *)
(*                                                                         *)
(* The database is SQLite in WAL mode: readers see what is committed, one  *)
(* session at a time writes, from its first flush to its commit.  A        *)
(* session keeps the rows it loaded and writes only the columns it changed.*)
(*                                                                         *)
(* Similarity is data: which articles resemble each other is a constant,   *)
(* and which of the stories of the window has the nearest centroid, and    *)
(* whether it is near enough, is a free choice.                            *)
(***************************************************************************)
EXTENDS Integers, FiniteSets, FiniteSetsExt

CONSTANTS
    Article,         \* article ids, in the order of insertion
    Source,
    SourceOf,        \* SourceOf[a]: the outlet that published a
    TimeOf,          \* TimeOf[a]: _article_time, in hours
    Resembles,       \* pairs of articles whose cosine reaches the threshold
    Indigestible,    \* the articles whose embedding raises
    MaxStories,      \* bound: stories opened
    Batch,           \* batch (500)
    Window,          \* cluster_window_hours
    FlashMinSources, \* flash_min_sources
    FlashWindow,     \* flash_window_hours
    Round,           \* the callers of cluster_job
    Scheduled,       \* those the scheduler starts again and again
    NoStory, NoRound

Story == 1 .. MaxStories
Time == {TimeOf[a] : a \in Article}

ASSUME ConstantAssumption ==
    /\ IsFiniteSet(Article) /\ Article \subseteq Nat
    /\ SourceOf \in [Article -> Source]
    /\ TimeOf \in [Article -> Nat]
    /\ Resembles \subseteq Article \X Article
    /\ \A a, b \in Article : <<a, b>> \in Resembles => <<b, a>> \in Resembles
    /\ Indigestible \subseteq Article
    /\ MaxStories \in Nat
    /\ Batch \in Nat \ {0}
    /\ Window \in Nat /\ FlashWindow \in Nat
    /\ FlashMinSources \in Nat \ {0}
    /\ Scheduled \subseteq Round
    /\ NoStory \notin Story
    /\ NoRound \notin Round

\* A row of stories; NoStory stands for the row that does not exist (yet).
StoryRow == [first : Time, last : Time, articles : 0 .. Cardinality(Article),
             sources : 0 .. Cardinality(Article), flash : BOOLEAN]

ASSUME RowAssumption == NoStory \notin StoryRow

Database == [arrived : SUBSET Article,
             of : [Article -> Story \cup {NoStory}],
             story : [Story -> StoryRow \cup {NoStory}],
             coverage : [Story -> SUBSET Article]]

Phase == {"idle", "clustering", "coverage"}

VARIABLES
    db,          \* what is committed
    work,        \* what the writer, if there is one, would commit
    writer,      \* the session that holds the write lock
    phase,       \* phase[r]: where round r is
    todo,        \* todo[r]: the articles of the batch still to come
    index,       \* index[r]: the stories in the session (StoryIndex.stories)
    touched,     \* touched[r]: touched_story_ids, then those left to cover
    overlapped,  \* history: two rounds have been in progress at once
    interrupted  \* history: a round ended between its commit and its coverage

vars == <<db, work, writer, phase, todo, index, touched, overlapped, interrupted>>
history == <<overlapped, interrupted>>

\* Type correctness; no story counts more articles than there are.
TypeOK ==
    /\ db \in Database
    /\ work \in Database
    /\ writer \in Round \cup {NoRound}
    /\ phase \in [Round -> Phase]
    /\ todo \in [Round -> SUBSET Article]
    /\ index \in [Round -> [Story -> StoryRow \cup {NoStory}]]
    /\ touched \in [Round -> SUBSET Story]
    /\ overlapped \in BOOLEAN
    /\ interrupted \in BOOLEAN

NoStories == [s \in Story |-> NoStory]

EmptyDatabase == [arrived |-> {}, of |-> [a \in Article |-> NoStory],
                  story |-> NoStories, coverage |-> [s \in Story |-> {}]]

Init ==
    /\ db = EmptyDatabase
    /\ work = EmptyDatabase
    /\ writer = NoRound
    /\ phase = [r \in Round |-> "idle"]
    /\ todo = [r \in Round |-> {}]
    /\ index = [r \in Round |-> NoStories]
    /\ touched = [r \in Round |-> {}]
    /\ overlapped = FALSE
    /\ interrupted = FALSE

-----------------------------------------------------------------------------
(* Reading the database.                                                   *)

Members(base, s) == {a \in Article : base.of[a] = s}

Pending(base) == {a \in base.arrived : base.of[a] = NoStory}

\* The order of the batch: by time, then by id.
Before(a, b) == TimeOf[a] < TimeOf[b] \/ (TimeOf[a] = TimeOf[b] /\ a < b)

\* ORDER BY published_at DESC, id DESC LIMIT batch.
Newest(articles) ==
    {a \in articles : Cardinality({b \in articles : Before(a, b)}) < Batch}

\* The stories of the window of the oldest article of the batch.
Indexed(base, articles) ==
    LET oldest == Min({TimeOf[a] : a \in articles})
    IN  [s \in Story |->
            IF base.story[s] # NoStory /\ base.story[s].last >= oldest - Window
            THEN base.story[s] ELSE NoStory]

\* What session r reads and builds its writes on.
Base(r) == IF writer = r THEN work ELSE db

CanWrite(r) == writer \in {r, NoRound}

-----------------------------------------------------------------------------
(* cluster_pending.                                                        *)

\* A transaction of the collection.
Arrive(a) ==
    /\ writer = NoRound
    /\ a \notin db.arrived
    /\ db' = [db EXCEPT !.arrived = @ \cup {a}]
    /\ UNCHANGED <<work, writer, phase, todo, index, touched, history>>

\* Without pending articles the round is over before it writes anything.
Begin(r) ==
    /\ phase[r] = "idle"
    /\ Pending(db) # {}
    /\ LET batch == Newest(Pending(db))
       IN  /\ todo' = [todo EXCEPT ![r] = batch]
           /\ index' = [index EXCEPT ![r] = Indexed(db, batch)]
    /\ phase' = [phase EXCEPT ![r] = "clustering"]
    /\ touched' = [touched EXCEPT ![r] = {}]
    /\ overlapped' = (overlapped \/ \E q \in Round : phase[q] # "idle")
    /\ UNCHANGED <<db, work, writer, interrupted>>

IsNext(r, a) == a \in todo[r] /\ \A b \in todo[r] \ {a} : Before(a, b)

\* A variant of Candidates without the second criterion.
CandidatesByCentroid(r, a) ==
    {s \in Story : index[r][s] # NoStory /\ index[r][s].last >= TimeOf[a] - Window}

\* The stories a may join: in the index, seen in the window, with at least
\* one member that a resembles.
Candidates(r, a) ==
    {s \in Story :
        /\ index[r][s] # NoStory
        /\ index[r][s].last >= TimeOf[a] - Window
        /\ \E b \in Members(Base(r), s) : <<a, b>> \in Resembles}

\* _refresh_counts.
Counts(members) ==
    [articles |-> Cardinality(members),
     sources |-> Cardinality({SourceOf[a] : a \in members})]

\* A variant of FlashAfter that asks the question anew at every article.
FlashAnew(flash, sources, first, when) ==
    sources >= FlashMinSources /\ when - first <= FlashWindow

\* _maybe_flash.
FlashAfter(flash, sources, first, when) ==
    flash \/ (sources >= FlashMinSources /\ when - first <= FlashWindow)

\* A variant of FirstSeen for articles that only ever come in order.
FirstSeenOf(row, a) == row.first

FirstSeen(row, a) == Min({row.first, TimeOf[a]})
LastSeen(row, a) == Max({row.last, TimeOf[a]})

\* The row of a story in the session, after a has joined.
Joined(row, members, a) ==
    LET counts == Counts(members)
        first == FirstSeen(row, a)
    IN  [first |-> first, last |-> LastSeen(row, a),
         articles |-> counts.articles, sources |-> counts.sources,
         flash |-> FlashAfter(row.flash, counts.sources, first, TimeOf[a])]

\* UPDATE: the columns whose value in the session has changed.
Updated(stored, loaded, new) ==
    [c \in DOMAIN stored |-> IF new[c] = loaded[c] THEN stored[c] ELSE new[c]]

Opened(a) == [first |-> TimeOf[a], last |-> TimeOf[a], articles |-> 1,
              sources |-> 1, flash |-> FALSE]

\* A variant of Touch that remembers only the stories opened.
TouchOpened(r, s) == IF index[r][s] = NoStory THEN touched[r] \cup {s} ELSE touched[r]

Touch(r, s) == touched[r] \cup {s}

\* The first write takes the lock.
Write(r, base) == writer' = r /\ work' = base

\* assign_story, when an indexed story is near enough.
Attach(r, a, s) ==
    /\ s \in Candidates(r, a)
    /\ LET new == Joined(index[r][s], Members(Base(r), s) \cup {a}, a)
       IN  /\ Write(r, [Base(r) EXCEPT !.of[a] = s,
                                       !.story[s] = Updated(@, index[r][s], new)])
           /\ index' = [index EXCEPT ![r][s] = new]

\* assign_story, when none is: s is the next id.
Open(r, a, s) ==
    /\ \A t \in Story : Base(r).story[t] = NoStory <=> t >= s
    /\ Write(r, [Base(r) EXCEPT !.of[a] = s, !.story[s] = Opened(a)])
    /\ index' = [index EXCEPT ![r][s] = Opened(a)]

Assign(r, a) ==
    /\ phase[r] = "clustering"
    /\ IsNext(r, a)
    /\ a \notin Indigestible
    /\ CanWrite(r)
    /\ \E s \in Story :
          /\ Attach(r, a, s) \/ Open(r, a, s)
          /\ touched' = [touched EXCEPT ![r] = Touch(r, s)]
    /\ todo' = [todo EXCEPT ![r] = @ \ {a}]
    /\ UNCHANGED <<db, phase, history>>

\* A variant of SkipTo under which an error ends the round.
SkipToEnd(r, a) == {}

\* The articles left after one that raised.
SkipTo(r, a) == todo[r] \ {a}

Skip(r, a) ==
    /\ phase[r] = "clustering"
    /\ IsNext(r, a)
    /\ a \in Indigestible
    /\ todo' = [todo EXCEPT ![r] = SkipTo(r, a)]
    /\ UNCHANGED <<db, work, writer, phase, index, touched, history>>

\* The end of a transaction.
Release(r) ==
    IF writer = r THEN writer' = NoRound /\ work' = EmptyDatabase
    ELSE UNCHANGED <<writer, work>>

\* session.commit().
Commit(r) == db' = Base(r) /\ Release(r)

\* The batch is done, or the deadline has passed: 480 seconds are enough for
\* one article.
CommitStories(r) ==
    /\ phase[r] = "clustering"
    /\ todo[r] = {} \/ touched[r] # {}
    /\ Commit(r)
    /\ phase' = [phase EXCEPT ![r] = IF touched[r] = {} THEN "idle" ELSE "coverage"]
    /\ todo' = [todo EXCEPT ![r] = {}]
    /\ index' = [index EXCEPT ![r] = NoStories]
    /\ UNCHANGED <<touched, history>>

-----------------------------------------------------------------------------
(* The rest of cluster_job.                                                *)

\* compute_coverage; the coverage is the articles it counted.
Cover(r, s) ==
    /\ phase[r] = "coverage"
    /\ s \in touched[r]
    /\ CanWrite(r)
    /\ Write(r, [Base(r) EXCEPT !.coverage[s] = Members(Base(r), s)])
    /\ touched' = [touched EXCEPT ![r] = @ \ {s}]
    /\ UNCHANGED <<db, phase, todo, index, history>>

\* Every 25 stories, and at the end.
CommitCoverage(r) ==
    /\ phase[r] = "coverage"
    /\ writer = r
    /\ Commit(r)
    /\ phase' = [phase EXCEPT ![r] = IF touched[r] = {} THEN "idle" ELSE "coverage"]
    /\ UNCHANGED <<todo, index, touched, history>>

\* "database is locked" after 15 seconds, the process dies, or anything else
\* cluster_job raises: the transaction is rolled back.
RoundFails(r) ==
    /\ phase[r] # "idle"
    /\ Release(r)
    /\ phase' = [phase EXCEPT ![r] = "idle"]
    /\ todo' = [todo EXCEPT ![r] = {}]
    /\ index' = [index EXCEPT ![r] = NoStories]
    /\ touched' = [touched EXCEPT ![r] = {}]
    /\ interrupted' = (interrupted \/ phase[r] = "coverage")
    /\ UNCHANGED <<db, overlapped>>

-----------------------------------------------------------------------------
RoundStep(r) ==
    \/ Begin(r)
    \/ CommitStories(r)
    \/ CommitCoverage(r)
    \/ RoundFails(r)
    \/ \E a \in Article : Assign(r, a) \/ Skip(r, a)
    \/ \E s \in Story : Cover(r, s)

Next ==
    \/ \E a \in Article : Arrive(a)
    \/ \E r \in Round : RoundStep(r)

Spec == Init /\ [][Next]_vars

(***************************************************************************)
(* The scheduler starts its round at every interval, the event loop runs   *)
(* it; SF says that not every round fails: the lock is free again and      *)
(* again, the process lives long enough for a commit.                      *)
(***************************************************************************)
Fairness ==
    /\ \A r \in Scheduled : WF_vars(Begin(r))
    /\ \A r \in Round :
          /\ SF_vars(\E a \in Article : Assign(r, a))
          /\ SF_vars(\E a \in Article : Skip(r, a))
          /\ SF_vars(CommitStories(r))
          /\ SF_vars(\E s \in Story : Cover(r, s))
          /\ WF_vars(CommitCoverage(r))

FairSpec == Spec /\ Fairness

-----------------------------------------------------------------------------
(* Safety, of what is committed.                                           *)

Stories == {s \in Story : db.story[s] # NoStory}

\* The counts of a story are those of its members, and every story has one:
\* through attachments, rollbacks and articles that raise, as long as rounds
\* do not overlap (_refresh_counts).
CountsMatchMembers ==
    ~overlapped => \A s \in Stories :
        /\ Members(db, s) # {}
        /\ db.story[s].articles = Cardinality(Members(db, s))
        /\ db.story[s].sources = Cardinality({SourceOf[a] : a \in Members(db, s)})

\* first_seen and last_seen are the times of the first and the last member,
\* although articles come in any order and only the columns changed in the
\* session are written.
SpanMatchesMembers ==
    ~overlapped => \A s \in Stories :
        /\ db.story[s].first = Min({TimeOf[a] : a \in Members(db, s)})
        /\ db.story[s].last = Max({TimeOf[a] : a \in Members(db, s)})

\* No concatenation through the centroid: each article of a story that has
\* more than one resembles another article of that story.
MembersResemble ==
    ~overlapped => \A s \in Stories : \A a \in Members(db, s) :
        Members(db, s) = {a} \/ \E b \in Members(db, s) \ {a} : <<a, b>> \in Resembles

\* When no round is in progress the coverage of every story is that of its
\* members, unless a round died after committing its stories: the story then
\* waits for its next article.
CoverageCurrent ==
    ~overlapped /\ ~interrupted /\ (\A r \in Round : phase[r] = "idle") =>
        \A s \in Stories : db.coverage[s] = Members(db, s)

\* A story that is "lampo" stays so ("e lo resta"), even if rounds overlap and
\* write what they read before.
FlashForGood ==
    [][\A s \in Stories : db.story[s].flash => db'.story[s].flash]_vars

Flashed(base) == {s \in Story : base.story[s] # NoStory /\ base.story[s].flash}

Grouping == INSTANCE Grouping WITH arrived <- db.arrived, of <- db.of, lampo <- Flashed(db)

\* Where rounds do not overlap, the clustering is a Grouping: whatever is rolled
\* back, refused or interrupted, an article that has its story keeps it, none gets
\* one before it is stored, and lampo comes with an article and stays.
GroupedOnce == Grouping!Spec

-----------------------------------------------------------------------------
(* Liveness, under FairSpec.                                               *)

\* "L'arretrato si smaltisce comunque, giro dopo giro": every article that has
\* an embedding gets its story, although the newest go first, rounds stop at
\* their deadline and some articles never get past their embedding.
BacklogClears ==
    \A a \in Article \ Indigestible :
        a \in db.arrived ~> db.of[a] # NoStory

-----------------------------------------------------------------------------
(* What the documentation says, and the code does not do.                  *)

\* "Una story e' lampo se almeno N testate la coprono entro N ore dalla prima
\* apparizione" (METHODOLOGY, incremental.py): a story that is has that many
\* outlets among its members of those hours.
FlashReachedInTime ==
    ~overlapped => \A s \in Stories :
        db.story[s].flash =>
            Cardinality({SourceOf[a] : a \in {m \in Members(db, s) :
                TimeOf[m] - db.story[s].first <= FlashWindow}}) >= FlashMinSources
=============================================================================
