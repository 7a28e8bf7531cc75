---------------------------- MODULE Titles_proofs ----------------------------
(***************************************************************************)
(* The safety properties of Titles, for any articles, stories, languages   *)
(* and any number of tasks at work at once.                                *)
(* And of FrontPage, for any archive and any sizes ordered as the code's:  *)
(* pages are full of current stories, their titles are prepared, and the   *)
(* versions of a story are far from each other.                            *)
(* And of SummaryText, for any text, however it arrives, and any articles: *)
(* a summary shows the answer without its reasoning, and says what it is   *)
(* made of.                                                                *)
(***************************************************************************)
EXTENDS Titles, FrontPage, SummaryText, FiniteSetTheorems, SequenceTheorems, TLAPS

(* What a session has read stays true while it works, but for the stories  *)
(* the history variables name: that is the strengthening needed.           *)

\* A row of s that says the title s has, and only translations of it.
UpToDate(copy, s) ==
    /\ copy.of = s
    /\ copy.title = shown[s]
    /\ \A l \in Locale : copy.translated[l] \in {shown[s], NoTitle}

CopiesCurrent ==
    /\ \A s \in Story : job[s] # NoCopy => job[s].of = s
    /\ \A s \in Story \ raced :
          /\ job[s] # NoCopy => UpToDate(job[s], s)
          /\ \A v \in Visit :
                task[v] # NoTask /\ task[v].copy # NoCopy /\ task[v].copy.of = s
                    => UpToDate(task[v].copy, s)

\* Tasks are given items that have a title.
TasksHaveTitles ==
    \A v \in Visit : task[v] # NoTask => \A i \in task[v].todo : shown[i] # NoTitle

\* What had a title when a clustering round started has one.
RoundKept ==
    round # NoRound => \A i \in Item : round[i] # NoTitle => shown[i] # NoTitle

\* The titles a clustering round has loaded are those there are.
RoundCurrent ==
    round # NoRound => \A s \in Story \ crossed :
        /\ round[s] = shown[s]
        /\ \A a \in Article : StoryOf[a] = s /\ round[a] # NoTitle => shown[a] = round[a]

IInv ==
    /\ TypeOK
    /\ OneTaskPerTitle
    /\ CopiesCurrent
    /\ TranslationsOfTheTitle
    /\ TasksHaveTitles
    /\ RoundKept
    /\ RoundCurrent
    /\ NeutralTitleOfAnArticle

-----------------------------------------------------------------------------
(* Rows read and written.                                                  *)

\* A session reads a well-formed row.
LEMMA CopiesTyped ==
    ASSUME TypeOK, NEW i \in Item, shown[i] # NoTitle, NEW c \in Copies(i)
    PROVE  /\ c \in Copy
           /\ c.of = i /\ c.title = shown[i] /\ c.translated = translated[i]
<1>1. shown[i] \in Title /\ translated[i] \in Translations
  BY DEF TypeOK
<1>2. Sources(i) \subseteq Language
  BY ConstantAssumption DEF TypeOK, Sources, Members
<1> QED
  BY <1>1, <1>2 DEF Copies, Copy

\* A row read now is current, if the translations were of the title.
LEMMA CopiesAreCurrent ==
    ASSUME TypeOK, TranslationsOfTheTitle, NEW s \in Story \ raced,
           shown[s] # NoTitle, NEW c \in Copies(s)
    PROVE  UpToDate(c, s)
<1>1. c.of = s /\ c.title = shown[s] /\ c.translated = translated[s]
  BY CopiesTyped DEF Item
<1> QED
  BY <1>1 DEF TranslationsOfTheTitle, UpToDate

\* A missing translation is one of the supported languages.
LEMMA MissingSupported ==
    ASSUME NEW copy
    PROVE  Missing(copy) \subseteq Locale
BY DEF Missing

\* Writing changes one column, to translations the row or its copy had or to
\* the title of the copy.
LEMMA WriteCorrect ==
    ASSUME TypeOK, NEW copy \in Copy, NEW done \in SUBSET Locale, Write(copy, done)
    PROVE  /\ translated' \in [Item -> Translations]
           /\ \A i \in Item, l \in Locale :
                 \/ translated'[i][l] = translated[i][l]
                 \/ copy.of = i /\ translated'[i][l] \in {copy.title, copy.translated[l]}
<1> DEFINE column == [l \in Locale |-> IF l \in done THEN copy.title ELSE copy.translated[l]]
<1>1. copy.of \in Item /\ copy.title \in Title /\ copy.translated \in Translations
  BY DEF Copy
<1>2. column \in Translations
  BY <1>1 DEF Translations
<1>3. translated' = IF done = {} THEN translated ELSE [translated EXCEPT ![copy.of] = column]
  BY DEF Write
<1>4. translated \in [Item -> Translations]
  BY DEF TypeOK
<1>5. translated' \in [Item -> Translations]
  BY <1>1, <1>2, <1>3, <1>4
<1>6. ASSUME NEW i \in Item, NEW l \in Locale
      PROVE  \/ translated'[i][l] = translated[i][l]
             \/ copy.of = i /\ translated'[i][l] \in {copy.title, copy.translated[l]}
  <2>1. CASE done = {} \/ i # copy.of
    BY <2>1, <1>1, <1>3, <1>4
  <2>2. CASE done # {} /\ i = copy.of
    BY <2>2, <1>1, <1>3, <1>4
  <2> QED
    BY <2>1, <2>2
<1> QED
  BY <1>5, <1>6

\* Writing a current row keeps the translations those of the titles.
LEMMA WriteKeepsTranslations ==
    ASSUME TypeOK, TranslationsOfTheTitle, NEW copy \in Copy, NEW done \in SUBSET Locale,
           Write(copy, done), UNCHANGED <<shown, raced>>,
           copy.of \in Story \ raced => UpToDate(copy, copy.of)
    PROVE  TranslationsOfTheTitle'
<1> SUFFICES ASSUME NEW s \in Story \ raced, NEW l \in Locale
             PROVE  translated'[s][l] \in {shown[s], NoTitle}
  BY DEF TranslationsOfTheTitle
<1>1. translated[s][l] \in {shown[s], NoTitle}
  BY DEF TranslationsOfTheTitle
<1>2. CASE copy.of = s
  BY <1>1, <1>2, WriteCorrect DEF UpToDate, Item
<1>3. CASE copy.of # s
  BY <1>1, <1>3, WriteCorrect DEF Item
<1> QED
  BY <1>2, <1>3

\* What becomes of the guard does not depend on the rows in the hands of tasks.
LEMMA SameGuard ==
    ASSUME OneTaskPerTitle, busy' = busy,
           \A v \in Visit : /\ task[v] = NoTask <=> task'[v] = NoTask
                            /\ task[v] # NoTask => /\ task'[v].items = task[v].items
                                                   /\ task'[v].locale = task[v].locale
    PROVE  OneTaskPerTitle'
<1>1. UNION {task[v].items \X {task[v].locale} : v \in {w \in Visit : task[w] # NoTask}}
      = UNION {task'[v].items \X {task'[v].locale} : v \in {w \in Visit : task'[w] # NoTask}}
  OBVIOUS
<1>2. busy' = UNION {task'[v].items \X {task'[v].locale} : v \in {w \in Visit : task'[w] # NoTask}}
  BY <1>1 DEF OneTaskPerTitle
<1>3. ASSUME NEW v \in Visit, NEW w \in Visit, v # w, task'[v] # NoTask, task'[w] # NoTask,
             task'[v].locale = task'[w].locale
      PROVE  task'[v].items \cap task'[w].items = {}
  BY <1>3 DEF OneTaskPerTitle
<1> QED
  BY <1>2, <1>3 DEF OneTaskPerTitle

-----------------------------------------------------------------------------
(* What changes the titles.                                                *)

LEMMA InitCorrect == Init => IInv
<1> SUFFICES ASSUME Init PROVE IInv
  OBVIOUS
<1>1. NoTranslations \in Translations
  BY DEF NoTranslations, Translations
<1>2. TypeOK
  BY <1>1 DEF Init, TypeOK, NoJob
<1>3. OneTaskPerTitle
  BY DEF Init, OneTaskPerTitle
<1>4. CopiesCurrent /\ TasksHaveTitles /\ RoundKept /\ RoundCurrent
  BY DEF Init, TasksHaveTitles, CopiesCurrent, RoundKept, RoundCurrent, NoJob
<1>5. TranslationsOfTheTitle
  BY DEF Init, TranslationsOfTheTitle, NoTranslations, Item
<1>6. NeutralTitleOfAnArticle
  BY DEF Init, NeutralTitleOfAnArticle, Item
<1> QED
  BY <1>2, <1>3, <1>4, <1>5, <1>6 DEF IInv

LEMMA ArriveCorrect ==
    ASSUME IInv, NEW a \in Article, Arrive(a)
    PROVE  IInv'
<1> USE DEF IInv, database, memory, history
<1>1. PICK title \in Title : shown' = [shown EXCEPT ![a] = title]
  BY DEF Arrive, Title
<1>2. shown' \in [Item -> Title \cup {NoTitle}] /\ shown'[a] = title
      /\ \A i \in Item : i # a => shown'[i] = shown[i]
  BY <1>1 DEF TypeOK, Item
<1>3. \A s \in Story : s \in Item /\ s # a
  BY ConstantAssumption DEF Item
<1>4. UNCHANGED <<clustered, translated, round, job, task, busy, raced, crossed>>
      /\ shown[a] = NoTitle
  BY DEF Arrive
<1>5. TypeOK'
  BY <1>2, <1>3, <1>4, ConstantAssumption DEF TypeOK, Item
<1>6. OneTaskPerTitle'
  BY <1>4 DEF OneTaskPerTitle
<1>7. CopiesCurrent' /\ TranslationsOfTheTitle'
  BY <1>2, <1>3, <1>4 DEF CopiesCurrent, TranslationsOfTheTitle, UpToDate
<1>10. TasksHaveTitles'
  BY <1>2, <1>4, ConstantAssumption DEF TasksHaveTitles, TypeOK, Task
<1>8. RoundKept' /\ RoundCurrent'
  BY <1>2, <1>3, <1>4, ConstantAssumption DEF RoundKept, RoundCurrent, Item
<1>9. NeutralTitleOfAnArticle'
  BY <1>2, <1>3, <1>4, ConstantAssumption DEF NeutralTitleOfAnArticle, Members, TypeOK, Item
<1> QED
  BY <1>5, <1>6, <1>7, <1>8, <1>9, <1>10

\* A correction changes the article, and the story that had its title.
LEMMA Corrected ==
    ASSUME TypeOK, NEW a \in Article, NEW title \in Title, shown' = WithCorrection(a, title)
    PROVE  /\ shown' \in [Item -> Title \cup {NoTitle}]
           /\ shown'[a] = title
           /\ \A b \in Article \ {a} : shown'[b] = shown[b]
           /\ \A s \in Story :
                 shown'[s] = IF a \in clustered /\ s = StoryOf[a] /\ shown[s] = shown[a]
                             THEN title ELSE shown[s]
<1>1. \A i \in Item :
         shown'[i] = IF i = a \/ (a \in clustered /\ i = StoryOf[a] /\ shown[i] = shown[a])
                     THEN title ELSE shown[i]
  BY DEF WithCorrection
<1>2. shown' \in [Item -> Title \cup {NoTitle}]
  BY DEF WithCorrection, TypeOK
<1>3. StoryOf[a] \in Story /\ a \in Item
  BY ConstantAssumption DEF Item
<1>4. \A s \in Story : s \in Item /\ s # a
  BY ConstantAssumption DEF Item
<1>5. \A b \in Article : b \in Item /\ b # StoryOf[a]
  BY ConstantAssumption, <1>3 DEF Item
<1> QED
  BY <1>1, <1>2, <1>3, <1>4, <1>5

LEMMA RetitleCorrect ==
    ASSUME IInv, NEW a \in Article, Retitle(a)
    PROVE  IInv'
<1> DEFINE s == StoryOf[a]
           neutral == a \in clustered /\ shown[s] = shown[a]
           title == [of |-> a, wording |-> "feed"]
<1>1. title \in Title
  BY DEF Title
<1>2. shown' = WithCorrection(a, title)
  BY DEF Retitle
<1>3. UNCHANGED <<clustered, round, job, task, busy>>
  BY DEF Retitle, memory
<1>4. translated' = IF neutral THEN ForgetTranslations(s) ELSE translated
  BY DEF Retitle
<1>5. /\ raced' = IF neutral /\ InHand(s) THEN raced \cup {s} ELSE raced
      /\ crossed' = IF round # NoRound THEN crossed \cup {s} ELSE crossed
  BY DEF Retitle
<1>6. s \in Story /\ s \in Item
  BY ConstantAssumption DEF Item
<1>7. /\ shown' \in [Item -> Title \cup {NoTitle}]
      /\ shown'[a] = title
      /\ \A b \in Article \ {a} : shown'[b] = shown[b]
      /\ \A z \in Story : shown'[z] = IF neutral /\ z = s THEN title ELSE shown[z]
  BY <1>1, <1>2, Corrected DEF IInv
<1>8. /\ translated' \in [Item -> Translations]
      /\ \A z \in Story : ~(neutral /\ z = s) => translated'[z] = translated[z]
      /\ neutral => \A l \in Locale : translated'[s][l] = NoTitle
  <2>1. NoTranslations \in Translations /\ translated \in [Item -> Translations]
    BY DEF NoTranslations, Translations, IInv, TypeOK
  <2>2. \A l \in Locale : NoTranslations[l] = NoTitle
    BY DEF NoTranslations
  <2> QED
    BY <1>4, <1>6, <2>1, <2>2 DEF ForgetTranslations, Item
<1>9. TypeOK'
  <2>1. \A b \in clustered : shown'[StoryOf[b]] # NoTitle
    BY <1>1, <1>7, ConstantAssumption DEF IInv, TypeOK
  <2> QED
    BY <1>3, <1>5, <1>6, <1>7, <1>8, <2>1 DEF IInv, TypeOK
<1>10. OneTaskPerTitle'
  BY <1>3 DEF IInv, OneTaskPerTitle
<1>11. CopiesCurrent'
  <2> SUFFICES ASSUME NEW z \in Story \ raced'
               PROVE  /\ job[z] # NoCopy => UpToDate(job[z], z)'
                      /\ \A v \in Visit :
                            task[v] # NoTask /\ task[v].copy # NoCopy /\ task[v].copy.of = z
                                => UpToDate(task[v].copy, z)'
    BY <1>3 DEF IInv, CopiesCurrent
  <2>1. CASE neutral /\ z = s
    BY <2>1, <1>5 DEF InHand
  <2>2. CASE ~(neutral /\ z = s)
    <3>1. shown'[z] = shown[z] /\ z \notin raced
      BY <2>2, <1>5, <1>7
    <3> QED
      BY <3>1, <1>3 DEF IInv, CopiesCurrent, UpToDate
  <2> QED
    BY <2>1, <2>2
<1>12. TranslationsOfTheTitle'
  BY <1>5, <1>7, <1>8 DEF IInv, TranslationsOfTheTitle
<1>15. RoundKept' /\ TasksHaveTitles'
  <2>1. \A i \in Item : shown[i] # NoTitle => shown'[i] # NoTitle
    BY <1>1, <1>7, ConstantAssumption DEF Item
  <2> QED
    BY <1>3, <2>1 DEF IInv, RoundKept, TasksHaveTitles, TypeOK, Task
<1>13. RoundCurrent'
  <2> SUFFICES ASSUME round # NoRound, NEW z \in Story \ crossed'
               PROVE  /\ round[z] = shown'[z]
                      /\ \A b \in Article : StoryOf[b] = z /\ round[b] # NoTitle
                                                => shown'[b] = round[b]
    BY <1>3 DEF RoundCurrent
  <2>1. z # s /\ z \notin crossed
    BY <1>5
  <2>2. shown'[z] = shown[z] /\ \A b \in Article : StoryOf[b] = z => shown'[b] = shown[b]
    BY <2>1, <1>7
  <2> QED
    BY <2>1, <2>2 DEF IInv, RoundCurrent
<1>14. NeutralTitleOfAnArticle'
  <2> SUFFICES ASSUME NEW z \in Story \ crossed, shown'[z] # NoTitle
               PROVE  \E b \in Members(z) : shown'[b] = shown'[z]
    BY <1>3, <1>5 DEF NeutralTitleOfAnArticle, Members
  <2>1. CASE neutral /\ z = s
    BY <2>1, <1>7 DEF Members
  <2>2. CASE ~(neutral /\ z = s)
    <3>1. PICK b \in Members(z) : shown[b] = shown[z]
      BY <2>2, <1>7 DEF IInv, NeutralTitleOfAnArticle
    <3>2. b \in Article /\ b # a
      BY <2>2, <3>1 DEF Members, IInv, TypeOK
    <3> QED
      BY <2>2, <3>1, <3>2, <1>7
  <2> QED
    BY <2>1, <2>2
<1> QED
  BY <1>9, <1>10, <1>11, <1>12, <1>13, <1>14, <1>15 DEF IInv

LEMMA BeginClusteringCorrect ==
    ASSUME IInv, BeginClustering
    PROVE  IInv'
<1> USE DEF BeginClustering, IInv, database, history
<1>1. TypeOK'
  BY DEF TypeOK
<1>2. OneTaskPerTitle' /\ TranslationsOfTheTitle'
  BY DEF OneTaskPerTitle, TranslationsOfTheTitle
<1>3. CopiesCurrent'
  BY DEF CopiesCurrent, UpToDate
<1>4. TasksHaveTitles' /\ RoundKept' /\ RoundCurrent'
  BY DEF TasksHaveTitles, RoundKept, RoundCurrent
<1>5. NeutralTitleOfAnArticle'
  BY DEF NeutralTitleOfAnArticle, Members
<1> QED
  BY <1>1, <1>2, <1>3, <1>4, <1>5

LEMMA EndClusteringCorrect ==
    ASSUME IInv, EndClustering
    PROVE  IInv'
<1>1. PICK joining \in SUBSET {a \in Article \ clustered : round[a] # NoTitle} :
         \E chosen \in [{StoryOf[a] : a \in joining} -> Title] :
            /\ \A s \in {StoryOf[a] : a \in joining} :
                  chosen[s] \in Best({a \in clustered \cup joining : StoryOf[a] = s})
            /\ clustered' = clustered \cup joining
            /\ shown' = [i \in Item |-> IF i \in {StoryOf[a] : a \in joining} /\ chosen[i] # round[i]
                                        THEN chosen[i] ELSE shown[i]]
            /\ raced' = raced \cup {s \in {StoryOf[a] : a \in joining} :
                                       shown[s] # NoTitle /\ shown'[s] # shown[s]}
  BY DEF EndClustering
<1> DEFINE touched == {StoryOf[a] : a \in joining}
           members(s) == {a \in clustered \cup joining : StoryOf[a] = s}
<1>2. PICK chosen \in [touched -> Title] :
            /\ \A s \in touched : chosen[s] \in Best(members(s))
            /\ clustered' = clustered \cup joining
            /\ shown' = [i \in Item |-> IF i \in touched /\ chosen[i] # round[i]
                                        THEN chosen[i] ELSE shown[i]]
            /\ raced' = raced \cup {s \in touched : shown[s] # NoTitle /\ shown'[s] # shown[s]}
  BY <1>1
<1>3. /\ round # NoRound /\ round' = NoRound
      /\ UNCHANGED <<translated, job, task, busy, crossed>>
  BY DEF EndClustering
<1>4. touched \subseteq Story /\ clustered' \subseteq Article /\ joining \subseteq Article
  BY <1>2, ConstantAssumption DEF IInv, TypeOK
<1>5. /\ shown' \in [Item -> Title \cup {NoTitle}]
      /\ \A i \in Item : i \notin touched => shown'[i] = shown[i]
      /\ \A s \in touched : shown'[s] = IF chosen[s] # round[s] THEN chosen[s] ELSE shown[s]
  BY <1>2, <1>4 DEF IInv, TypeOK, Item
<1>6. \A a \in Article : shown'[a] = shown[a]
  BY <1>4, <1>5, ConstantAssumption DEF Item
<1>7. \A s \in touched : /\ chosen[s] \in Title /\ chosen[s] # NoTitle
                         /\ \E b \in members(s) : chosen[s] = round[b]
  <2>1. \A s \in touched : chosen[s] \in Title /\ chosen[s] # NoTitle
    BY <1>2, ConstantAssumption
  <2>2. \A s \in touched : \E b \in members(s) : chosen[s] = round[b]
    BY <1>2 DEF Best
  <2> QED
    BY <2>1, <2>2
<1>8. TypeOK'
  <2>1. \A s \in touched : shown'[s] # NoTitle
    BY <1>3, <1>4, <1>5, <1>7 DEF IInv, RoundKept, Item
  <2>2. \A a \in clustered' : shown'[StoryOf[a]] # NoTitle
    <3> SUFFICES ASSUME NEW a \in clustered', StoryOf[a] \notin touched
                 PROVE  shown'[StoryOf[a]] # NoTitle
      BY <2>1
    <3>1. a \in clustered
      BY <1>2
    <3>2. StoryOf[a] \in Item
      BY <1>4, ConstantAssumption DEF Item
    <3> QED
      BY <3>1, <3>2, <1>5 DEF IInv, TypeOK
  <2>3. raced' \subseteq Story
    BY <1>2, <1>4 DEF IInv, TypeOK
  <2> QED
    BY <1>3, <1>4, <1>5, <2>2, <2>3 DEF IInv, TypeOK
<1>9. OneTaskPerTitle'
  BY <1>3 DEF IInv, OneTaskPerTitle
<1>10. ASSUME NEW s \in Story \ raced'
       PROVE  s \notin raced /\ (shown'[s] = shown[s] \/ shown[s] = NoTitle)
  BY <1>10, <1>2, <1>5 DEF Item
<1>11. CopiesCurrent'
  <2> SUFFICES ASSUME NEW s \in Story \ raced'
               PROVE  /\ job[s] # NoCopy => UpToDate(job[s], s)'
                      /\ \A v \in Visit :
                            task[v] # NoTask /\ task[v].copy # NoCopy /\ task[v].copy.of = s
                                => UpToDate(task[v].copy, s)'
    BY <1>3 DEF IInv, CopiesCurrent
  <2>1. /\ job[s] # NoCopy => UpToDate(job[s], s) /\ job[s].title \in Title
        /\ \A v \in Visit :
              task[v] # NoTask /\ task[v].copy # NoCopy /\ task[v].copy.of = s
                 => UpToDate(task[v].copy, s) /\ task[v].copy.title \in Title
    BY <1>10 DEF IInv, CopiesCurrent, TypeOK, Task, Copy
  <2> QED
    BY <2>1, <1>3, <1>10, ConstantAssumption DEF UpToDate
<1>12. TranslationsOfTheTitle'
  BY <1>3, <1>10 DEF IInv, TranslationsOfTheTitle
<1>13. RoundKept' /\ RoundCurrent'
  BY <1>3 DEF RoundKept, RoundCurrent
<1>15. TasksHaveTitles'
  <2>1. \A s \in touched : shown'[s] # NoTitle
    BY <1>3, <1>4, <1>5, <1>7 DEF IInv, RoundKept, Item
  <2> QED
    BY <1>3, <1>5, <2>1 DEF IInv, TasksHaveTitles, TypeOK, Task
<1>14. NeutralTitleOfAnArticle'
  <2> SUFFICES ASSUME NEW s \in Story \ crossed, shown'[s] # NoTitle
               PROVE  \E b \in Members(s)' : shown'[b] = shown'[s]
    BY <1>3 DEF NeutralTitleOfAnArticle
  <2>1. Members(s)' = members(s) /\ Members(s) \subseteq members(s)
    BY <1>2 DEF Members
  <2>2. members(s) \subseteq Article
    BY <1>4 DEF IInv, TypeOK
  <2>3. CASE s \in touched
    <3>1. PICK b \in members(s) : chosen[s] = round[b]
      BY <2>3, <1>7
    <3>2. round[b] # NoTitle /\ shown[b] = round[b] /\ round[s] = shown[s]
      BY <2>2, <2>3, <3>1, <1>3, <1>7 DEF IInv, RoundCurrent
    <3>3. shown'[s] = chosen[s]
      BY <2>3, <3>2, <1>5
    <3> QED
      BY <2>1, <2>2, <3>1, <3>2, <3>3, <1>6
  <2>4. CASE s \notin touched
    <3>1. shown'[s] = shown[s]
      BY <2>4, <1>5 DEF Item
    <3>2. PICK b \in Members(s) : shown[b] = shown[s]
      BY <3>1 DEF IInv, NeutralTitleOfAnArticle
    <3> QED
      BY <2>1, <2>2, <3>1, <3>2, <1>6
  <2> QED
    BY <2>3, <2>4
<1> QED
  BY <1>8, <1>9, <1>11, <1>12, <1>13, <1>14, <1>15 DEF IInv

LEMMA ClusteringFailsCorrect ==
    ASSUME IInv, ClusteringFails
    PROVE  IInv'
<1> USE DEF ClusteringFails, IInv, database, history
<1>1. TypeOK'
  BY DEF TypeOK
<1>2. OneTaskPerTitle' /\ TranslationsOfTheTitle'
  BY DEF OneTaskPerTitle, TranslationsOfTheTitle
<1>3. CopiesCurrent'
  BY DEF CopiesCurrent, UpToDate
<1>4. TasksHaveTitles' /\ RoundKept' /\ RoundCurrent'
  BY DEF TasksHaveTitles, RoundKept, RoundCurrent
<1>5. NeutralTitleOfAnArticle'
  BY DEF NeutralTitleOfAnArticle, Members
<1> QED
  BY <1>1, <1>2, <1>3, <1>4, <1>5

-----------------------------------------------------------------------------
(* Translating.                                                            *)

\* What the job does leaves the tasks alone.
LEMMA TasksUntouched ==
    ASSUME IInv, UNCHANGED <<shown, task>>
    PROVE  TasksHaveTitles'
BY DEF IInv, TasksHaveTitles

\* What translators do leaves titles, articles and rounds alone.
LEMMA TitlesUntouched ==
    ASSUME IInv, UNCHANGED <<shown, clustered, round, history>>
    PROVE  RoundKept' /\ RoundCurrent' /\ NeutralTitleOfAnArticle'
BY DEF IInv, history, RoundKept, RoundCurrent, NeutralTitleOfAnArticle, Members

LEMMA StartJobCorrect ==
    ASSUME IInv, StartJob
    PROVE  IInv'
<1>1. PICK copies :
         /\ \A s \in Story : IF shown[s] = NoTitle THEN copies[s] = NoCopy
                             ELSE copies[s] \in Copies(s)
         /\ copies \in [Story -> (UNION {Copies(s) : s \in Story}) \cup {NoCopy}]
         /\ job' = copies
  BY DEF StartJob
<1>2. UNCHANGED <<shown, clustered, translated, round, task, busy, raced, crossed>>
  BY DEF StartJob, database, history
<1>3. \A s \in Story : s \in Item
  BY DEF Item
<1>4. job' \in [Story -> Copy \cup {NoCopy}]
  BY <1>1, <1>3, CopiesTyped DEF IInv
<1>5. TypeOK'
  BY <1>2, <1>4 DEF IInv, TypeOK
<1>6. OneTaskPerTitle' /\ TranslationsOfTheTitle'
  BY <1>2 DEF IInv, OneTaskPerTitle, TranslationsOfTheTitle
<1>7. CopiesCurrent'
  <2>1. \A s \in Story \ raced : job'[s] # NoCopy => UpToDate(job'[s], s)
    BY <1>1, CopiesAreCurrent DEF IInv
  <2>2. \A s \in Story : job'[s] # NoCopy => job'[s].of = s
    BY <1>1, <1>3, CopiesTyped DEF IInv
  <2> QED
    BY <1>2, <2>1, <2>2 DEF IInv, CopiesCurrent, UpToDate
<1> QED
  BY <1>2, <1>5, <1>6, <1>7, TitlesUntouched, TasksUntouched DEF IInv, history

LEMMA JobTranslatesCorrect ==
    ASSUME IInv, NEW s \in Story, NEW done \in SUBSET Locale, JobTranslates(s, done)
    PROVE  IInv'
<1>1. /\ job[s] # NoCopy /\ Write(job[s], done)
      /\ job' = [job EXCEPT ![s] = NoCopy]
      /\ UNCHANGED <<shown, clustered, round, task, busy, raced, crossed>>
  BY DEF JobTranslates, history
<1>2. job[s] \in Copy
  BY <1>1 DEF IInv, TypeOK
<1>3. translated' \in [Item -> Translations]
  BY <1>1, <1>2, WriteCorrect DEF IInv
<1>4. TypeOK'
  BY <1>1, <1>3 DEF IInv, TypeOK
<1>5. OneTaskPerTitle'
  BY <1>1 DEF IInv, OneTaskPerTitle
<1>6. CopiesCurrent'
  BY <1>1 DEF IInv, CopiesCurrent, UpToDate, TypeOK
<1>7. TranslationsOfTheTitle'
  <2>1. job[s].of \in Story \ raced => UpToDate(job[s], job[s].of)
    BY <1>1 DEF IInv, CopiesCurrent, UpToDate
  <2> QED
    BY <1>1, <1>2, <2>1, WriteKeepsTranslations DEF IInv
<1> QED
  BY <1>1, <1>4, <1>5, <1>6, <1>7, TitlesUntouched, TasksUntouched DEF IInv, history

LEMMA JobStopsCorrect ==
    ASSUME IInv, JobStops
    PROVE  IInv'
<1> USE DEF JobStops, IInv, database, history
<1>1. job' \in [Story -> Copy \cup {NoCopy}] /\ \A s \in Story : job'[s] = NoCopy
  BY DEF NoJob
<1>2. TypeOK'
  BY <1>1 DEF TypeOK
<1>3. OneTaskPerTitle' /\ TranslationsOfTheTitle'
  BY DEF OneTaskPerTitle, TranslationsOfTheTitle
<1>4. CopiesCurrent'
  BY <1>1 DEF CopiesCurrent, UpToDate
<1> QED
  BY <1>2, <1>3, <1>4, TitlesUntouched, TasksUntouched

\* A task that starts takes what no other of its locale has.
LEMMA KickCorrect ==
    ASSUME IInv, NEW v \in Visit, NEW l \in Locale, Kick(v, l)
    PROVE  IInv'
<1>1. PICK visible \in SUBSET Waiting(l) :
         /\ busy' = busy \cup {<<i, l>> : i \in Free(visible, l)}
         /\ task' = [task EXCEPT ![v] = [locale |-> l, items |-> Free(visible, l),
                                         todo |-> Free(visible, l), copy |-> NoCopy]]
  BY DEF Kick
<1> DEFINE items == Free(visible, l)
           started == [locale |-> l, items |-> items, todo |-> items, copy |-> NoCopy]
<1>2. UNCHANGED <<shown, clustered, translated, round, job, raced, crossed>> /\ task[v] = NoTask
  BY DEF Kick, database, history
<1>3. items \subseteq Item /\ items \subseteq visible /\ \A i \in items : <<i, l>> \notin busy
  BY ConstantAssumption DEF Free, Waiting
<1>4. started \in Task /\ started # NoTask
  BY <1>3, ConstantAssumption DEF Task
<1>5. task' = [task EXCEPT ![v] = started] /\ task \in [Visit -> Task \cup {NoTask}]
  BY <1>1 DEF IInv, TypeOK
<1>6. /\ task'[v] = started
      /\ \A w \in Visit \ {v} : task'[w] = task[w]
      /\ task' \in [Visit -> Task \cup {NoTask}]
  BY <1>4, <1>5
<1>7. TypeOK'
  <2>1. busy' \subseteq Item \X Locale
    BY <1>1, <1>3 DEF IInv, TypeOK
  <2> QED
    BY <1>2, <1>6, <2>1 DEF IInv, TypeOK
<1>8. OneTaskPerTitle'
  <2> DEFINE Held(t) == t.items \X {t.locale}
  <2>1. busy = UNION {Held(task[w]) : w \in {u \in Visit : task[u] # NoTask}}
    BY DEF IInv, OneTaskPerTitle
  <2>2. busy' = busy \cup Held(started)
    BY <1>1
  <2>3. \A p : p \in busy <=> \E w \in Visit : task[w] # NoTask /\ p \in Held(task[w])
    BY <2>1
  <2>4. \A p : p \in busy' <=> \E w \in Visit : task'[w] # NoTask /\ p \in Held(task'[w])
    BY <2>2, <2>3, <1>2, <1>4, <1>6
  <2>5. busy' = UNION {Held(task'[w]) : w \in {u \in Visit : task'[u] # NoTask}}
    BY <2>4
  <2>6. ASSUME NEW w \in Visit, w # v, task[w] # NoTask, task[w].locale = l
        PROVE  task[w].items \cap items = {}
    <3>1. \A i \in task[w].items : <<i, l>> \in Held(task[w])
      BY <2>6
    <3> QED
      BY <3>1, <2>3, <2>6, <1>3
  <2>7. ASSUME NEW w \in Visit, NEW u \in Visit, w # u, task'[w] # NoTask, task'[u] # NoTask,
               task'[w].locale = task'[u].locale
        PROVE  task'[w].items \cap task'[u].items = {}
    <3>1. CASE w # v /\ u # v
      BY <3>1, <2>7, <1>6 DEF IInv, OneTaskPerTitle
    <3>2. CASE w = v
      BY <3>2, <2>6, <2>7, <1>6
    <3>3. CASE u = v
      BY <3>3, <2>6, <2>7, <1>6
    <3> QED
      BY <3>1, <3>2, <3>3
  <2> QED
    BY <2>5, <2>7 DEF OneTaskPerTitle
<1>9. CopiesCurrent'
  BY <1>2, <1>6 DEF IInv, CopiesCurrent, UpToDate
<1>10. TranslationsOfTheTitle'
  BY <1>2 DEF IInv, TranslationsOfTheTitle
<1>11. TasksHaveTitles'
  BY <1>1, <1>2, <1>6 DEF IInv, TasksHaveTitles, Free, Waiting
<1> QED
  BY <1>2, <1>7, <1>8, <1>9, <1>10, <1>11, TitlesUntouched DEF IInv, history

LEMMA ReadCorrect ==
    ASSUME IInv, NEW v \in Visit, NEW i \in Item, Read(v, i)
    PROVE  IInv'
<1>1. PICK c \in Copies(i) :
         task' = [task EXCEPT ![v].todo = @ \ {i},
                     ![v].copy = IF task[v].locale \in Missing(c) THEN c ELSE NoCopy]
  BY DEF Read
<1>2. UNCHANGED <<shown, clustered, translated, round, job, busy, raced, crossed>>
      /\ task[v] # NoTask /\ task[v].copy = NoCopy /\ i \in task[v].todo
  BY DEF Read, database, history
<1>3. task[v] \in Task /\ task \in [Visit -> Task \cup {NoTask}]
  BY <1>2 DEF IInv, TypeOK
<1>4. shown[i] # NoTitle
  BY <1>2 DEF IInv, TasksHaveTitles
<1>5. c \in Copy /\ c.of = i
  BY <1>4, CopiesTyped DEF IInv
<1> DEFINE copy == IF task[v].locale \in Missing(c) THEN c ELSE NoCopy
           started == [task[v] EXCEPT !.todo = @ \ {i}, !.copy = copy]
<1>6. /\ started \in Task /\ started # NoTask
      /\ started.items = task[v].items /\ started.locale = task[v].locale
      /\ started.todo = task[v].todo \ {i} /\ started.copy = copy
  BY <1>3, <1>5, ConstantAssumption DEF Task
<1>7. /\ task'[v] = started
      /\ \A w \in Visit \ {v} : task'[w] = task[w]
      /\ task' \in [Visit -> Task \cup {NoTask}]
  BY <1>1, <1>3, <1>6
<1>8. TypeOK'
  BY <1>2, <1>7 DEF IInv, TypeOK
<1>9. OneTaskPerTitle'
  <2>1. \A w \in Visit : /\ task[w] = NoTask <=> task'[w] = NoTask
                         /\ task[w] # NoTask => /\ task'[w].items = task[w].items
                                                /\ task'[w].locale = task[w].locale
    BY <1>2, <1>6, <1>7
  <2> QED
    BY <1>2, <2>1, SameGuard DEF IInv
<1>10. CopiesCurrent'
  <2>1. i \in Story \ raced => UpToDate(c, i)
    BY <1>4, CopiesAreCurrent DEF IInv
  <2>2. ASSUME NEW s \in Story \ raced, NEW w \in Visit,
               task'[w] # NoTask, task'[w].copy # NoCopy, task'[w].copy.of = s
        PROVE  UpToDate(task'[w].copy, s)
    <3>1. CASE w = v
      <4>1. task'[w].copy = copy
        BY <3>1, <1>6, <1>7
      <4>2. copy = c
        BY <4>1, <2>2
      <4>3. s = i
        BY <4>1, <4>2, <2>2, <1>5
      <4> QED
        BY <4>1, <4>2, <4>3, <2>1
    <3>2. CASE w # v
      BY <3>2, <2>2, <1>7 DEF IInv, CopiesCurrent
    <3> QED
      BY <3>1, <3>2
  <2> QED
    BY <1>2, <2>2 DEF IInv, CopiesCurrent, UpToDate
<1>11. TranslationsOfTheTitle'
  BY <1>2 DEF IInv, TranslationsOfTheTitle
<1>12. TasksHaveTitles'
  BY <1>2, <1>6, <1>7 DEF IInv, TasksHaveTitles
<1> QED
  BY <1>2, <1>8, <1>9, <1>10, <1>11, <1>12, TitlesUntouched DEF IInv, history

\* A task that lets go of the row in its hands keeps the rest.
LEMMA LetGo ==
    ASSUME IInv, NEW v \in Visit, task[v] # NoTask,
           task' = [task EXCEPT ![v].copy = NoCopy],
           UNCHANGED <<shown, clustered, round, job, busy, history>>,
           translated' \in [Item -> Translations], TranslationsOfTheTitle'
    PROVE  IInv'
<1> DEFINE rest == [task[v] EXCEPT !.copy = NoCopy]
<1>1. task[v] \in Task /\ task \in [Visit -> Task \cup {NoTask}]
  BY DEF IInv, TypeOK
<1>2. /\ rest \in Task /\ rest # NoTask
      /\ rest.items = task[v].items /\ rest.locale = task[v].locale
      /\ rest.todo = task[v].todo /\ rest.copy = NoCopy
  BY <1>1, ConstantAssumption DEF Task
<1>3. /\ task'[v] = rest
      /\ \A w \in Visit \ {v} : task'[w] = task[w]
      /\ task' \in [Visit -> Task \cup {NoTask}]
  BY <1>1, <1>2
<1>4. TypeOK'
  BY <1>3 DEF IInv, TypeOK, history
<1>5. OneTaskPerTitle'
  <2>1. \A w \in Visit : /\ task[w] = NoTask <=> task'[w] = NoTask
                         /\ task[w] # NoTask => /\ task'[w].items = task[w].items
                                                /\ task'[w].locale = task[w].locale
    BY <1>2, <1>3
  <2> QED
    BY <2>1, SameGuard DEF IInv
<1>6. CopiesCurrent'
  BY <1>2, <1>3 DEF IInv, CopiesCurrent, UpToDate, history
<1>7. TasksHaveTitles'
  BY <1>2, <1>3 DEF IInv, TasksHaveTitles
<1> QED
  BY <1>4, <1>5, <1>6, <1>7, TitlesUntouched DEF IInv

LEMMA SaveCorrect ==
    ASSUME IInv, NEW v \in Visit, Save(v)
    PROVE  IInv'
<1> DEFINE copy == task[v].copy
<1>1. /\ task[v] # NoTask /\ copy # NoCopy /\ Write(copy, {task[v].locale})
      /\ task' = [task EXCEPT ![v].copy = NoCopy]
      /\ UNCHANGED <<shown, clustered, round, job, busy, history>>
  BY DEF Save
<1>2. copy \in Copy /\ {task[v].locale} \in SUBSET Locale
  BY <1>1 DEF IInv, TypeOK, Task
<1>3. copy.of \in Story \ raced => UpToDate(copy, copy.of)
  BY <1>1 DEF IInv, CopiesCurrent
<1>4. translated' \in [Item -> Translations] /\ TranslationsOfTheTitle'
  BY <1>1, <1>2, <1>3, WriteCorrect, WriteKeepsTranslations DEF IInv, history
<1> QED
  BY <1>1, <1>4, LetGo

LEMMA GiveUpCorrect ==
    ASSUME IInv, NEW v \in Visit, GiveUp(v)
    PROVE  IInv'
<1>1. /\ task[v] # NoTask /\ task' = [task EXCEPT ![v].copy = NoCopy]
      /\ UNCHANGED <<shown, clustered, translated, round, job, busy, history>>
  BY DEF GiveUp, database
<1>2. translated' \in [Item -> Translations] /\ TranslationsOfTheTitle'
  BY <1>1 DEF IInv, TypeOK, TranslationsOfTheTitle, history
<1> QED
  BY <1>1, <1>2, LetGo

\* A task takes from the guard what is its own and nobody else's.
LEMMA EndTaskCorrect ==
    ASSUME IInv, NEW v \in Visit, EndTask(v)
    PROVE  IInv'
<1> DEFINE Held(t) == t.items \X {t.locale}
<1>1. /\ task[v] # NoTask /\ busy' = Discard(task[v])
      /\ task' = [task EXCEPT ![v] = NoTask]
      /\ UNCHANGED <<shown, clustered, translated, round, job, raced, crossed>>
  BY DEF EndTask, database, history
<1>2. busy' = busy \ Held(task[v])
  BY <1>1 DEF Discard
<1>3. /\ task'[v] = NoTask
      /\ \A w \in Visit \ {v} : task'[w] = task[w]
      /\ task' \in [Visit -> Task \cup {NoTask}]
  BY <1>1 DEF IInv, TypeOK
<1>4. TypeOK'
  BY <1>1, <1>2, <1>3 DEF IInv, TypeOK
<1>5. OneTaskPerTitle'
  <2>1. busy = UNION {Held(task[w]) : w \in {u \in Visit : task[u] # NoTask}}
    BY DEF IInv, OneTaskPerTitle
  <2>2. \A p : p \in busy <=> \E w \in Visit : task[w] # NoTask /\ p \in Held(task[w])
    BY <2>1
  <2>3. ASSUME NEW w \in Visit, w # v, task[w] # NoTask
        PROVE  Held(task[w]) \cap Held(task[v]) = {}
    BY <1>1, <2>3 DEF IInv, OneTaskPerTitle
  <2>4. \A p : p \in busy' <=> \E w \in Visit : task'[w] # NoTask /\ p \in Held(task'[w])
    BY <1>2, <1>3, <2>2, <2>3
  <2>5. busy' = UNION {Held(task'[w]) : w \in {u \in Visit : task'[u] # NoTask}}
    BY <2>4
  <2>6. \A w, u \in Visit :
           w # u /\ task'[w] # NoTask /\ task'[u] # NoTask /\ task'[w].locale = task'[u].locale
               => task'[w].items \cap task'[u].items = {}
    BY <1>3 DEF IInv, OneTaskPerTitle
  <2> QED
    BY <2>5, <2>6 DEF OneTaskPerTitle
<1>6. CopiesCurrent'
  BY <1>1, <1>3 DEF IInv, CopiesCurrent, UpToDate
<1>7. TranslationsOfTheTitle' /\ TasksHaveTitles'
  BY <1>1, <1>3 DEF IInv, TranslationsOfTheTitle, TasksHaveTitles
<1> QED
  BY <1>1, <1>4, <1>5, <1>6, <1>7, TitlesUntouched DEF IInv, history

LEMMA RestartCorrect ==
    ASSUME IInv, Restart
    PROVE  IInv'
<1> USE DEF Restart, IInv, database, history
<1>1. /\ job' \in [Story -> Copy \cup {NoCopy}] /\ \A s \in Story : job'[s] = NoCopy
      /\ task' \in [Visit -> Task \cup {NoTask}] /\ \A v \in Visit : task'[v] = NoTask
  BY DEF NoJob
<1>2. TypeOK'
  BY <1>1 DEF TypeOK
<1>3. OneTaskPerTitle'
  BY <1>1 DEF OneTaskPerTitle
<1>4. CopiesCurrent' /\ TasksHaveTitles' /\ TranslationsOfTheTitle'
  BY <1>1 DEF CopiesCurrent, TasksHaveTitles, TranslationsOfTheTitle
<1>5. RoundKept' /\ RoundCurrent' /\ NeutralTitleOfAnArticle'
  BY DEF RoundKept, RoundCurrent, NeutralTitleOfAnArticle, Members
<1> QED
  BY <1>2, <1>3, <1>4, <1>5

-----------------------------------------------------------------------------
(* The theorems.                                                           *)

LEMMA Inductive == Spec => []IInv
<1>1. Init => IInv
  BY InitCorrect
<1>2. IInv /\ [Next]_vars => IInv'
  <2> SUFFICES ASSUME IInv, [Next]_vars PROVE IInv'
    OBVIOUS
  <2>1. CASE \E a \in Article : Arrive(a) \/ Retitle(a)
    BY <2>1, ArriveCorrect, RetitleCorrect
  <2>2. CASE BeginClustering \/ EndClustering \/ ClusteringFails
    BY <2>2, BeginClusteringCorrect, EndClusteringCorrect, ClusteringFailsCorrect
  <2>3. CASE StartJob \/ JobStops
    BY <2>3, StartJobCorrect, JobStopsCorrect
  <2>4. CASE \E s \in Story, done \in SUBSET Locale : JobTranslates(s, done)
    BY <2>4, JobTranslatesCorrect
  <2>5. CASE \E v \in Visit : TaskStep(v)
    BY <2>5, KickCorrect, ReadCorrect, SaveCorrect, GiveUpCorrect, EndTaskCorrect DEF TaskStep
  <2>6. CASE Restart
    BY <2>6, RestartCorrect
  <2>7. CASE UNCHANGED vars
    <3>1. UNCHANGED <<shown, clustered, translated, round, job, task, busy, raced, crossed>>
      BY <2>7 DEF vars
    <3>2. TypeOK' /\ OneTaskPerTitle' /\ CopiesCurrent' /\ TranslationsOfTheTitle'
      BY <3>1 DEF IInv, TypeOK, OneTaskPerTitle, CopiesCurrent, UpToDate, TranslationsOfTheTitle
    <3> QED
      BY <3>1, <3>2, TitlesUntouched, TasksUntouched DEF IInv, history
  <2> QED
    BY <2>1, <2>2, <2>3, <2>4, <2>5, <2>6, <2>7 DEF Next
<1> QED
  BY <1>1, <1>2, PTL DEF Spec

\* Type correctness: in particular a story whose articles are known has a title.
THEOREM TypeCorrect == Spec => []TypeOK
<1>1. IInv => TypeOK
  BY DEF IInv
<1> QED
  BY <1>1, Inductive, PTL

\* The guards of kick_translations and kick_article_translations never let two
\* tasks translate one title into one language, and keep nothing behind.
THEOREM TitlesTranslatedOnce == Spec => []OneTaskPerTitle
<1>1. IInv => OneTaskPerTitle
  BY DEF IInv
<1> QED
  BY <1>1, Inductive, PTL

\* The stored translations of a story are of its title, whatever jobs, tasks
\* and corrections do, unless its title changed while a translator had it in
\* hand or a clustering round chose another.
THEOREM TranslationsFollowTheTitle == Spec => []TranslationsOfTheTitle
<1>1. IInv => TranslationsOfTheTitle
  BY DEF IInv
<1> QED
  BY <1>1, Inductive, PTL

\* A neutral title is the present title of an article of the story, unless the
\* correction came during a clustering round (_retitle_from_feed,
\* refresh_title_neutral).
THEOREM NeutralTitlesAreArticles == Spec => []NeutralTitleOfAnArticle
<1>1. IInv => NeutralTitleOfAnArticle
  BY DEF IInv
<1> QED
  BY <1>1, Inductive, PTL
-----------------------------------------------------------------------------
(* The front page, for any archive and any sizes the code's are a case of. *)
(* All of it is a matter of counting: the n first of a finite set in a     *)
(* strict total order are n, because the number of those before an element *)
(* numbers the elements of the set from 0 on.                              *)

Ahead(s, stories, order) == {t \in stories : <<t, s>> \in order}

IsOrder(order, stories) ==
    /\ \A s \in stories : <<s, s>> \notin order
    /\ \A s, t, u \in stories : <<s, t>> \in order /\ <<t, u>> \in order => <<s, u>> \in order
    /\ \A s, t \in stories : s = t \/ <<s, t>> \in order \/ <<t, s>> \in order

Lesser(m, n) == IF m <= n THEN m ELSE n

\* The number of those before a story is a number, and less than that of all.
LEMMA AheadFinite ==
    ASSUME NEW stories, IsFiniteSet(stories), NEW order, NEW s
    PROVE  /\ IsFiniteSet(Ahead(s, stories, order))
           /\ Cardinality(Ahead(s, stories, order)) \in Nat
<1>1. Ahead(s, stories, order) \subseteq stories
  BY DEF Ahead
<1>2. IsFiniteSet(Ahead(s, stories, order))
  BY <1>1, FS_Subset
<1> QED
  BY <1>2, FS_CardinalityType

LEMMA FirstCount ==
    ASSUME NEW stories, IsFiniteSet(stories), NEW order, IsOrder(order, stories), NEW n \in Nat
    PROVE  Cardinality(First(n, stories, order)) = Lesser(n, Cardinality(stories))
<1> DEFINE all == Cardinality(stories)
           rank == [s \in stories |-> Cardinality(Ahead(s, stories, order))]
           first == First(n, stories, order)
           m == Lesser(n, all)
           numbers == [s \in first |-> rank[s]]
<1>1. all \in Nat /\ m \in Nat
  BY FS_CardinalityType DEF Lesser
<1>2. ASSUME NEW s \in stories PROVE rank[s] \in 0 .. all - 1
  <2>1. Ahead(s, stories, order) \subseteq stories \ {s}
    BY DEF Ahead, IsOrder
  <2>2. IsFiniteSet(stories \ {s}) /\ Cardinality(stories \ {s}) = all - 1
    BY FS_RemoveElement
  <2>3. rank[s] <= all - 1
    BY <2>1, <2>2, FS_Subset
  <2> QED
    BY <1>1, <2>3, AheadFinite
<1>3. ASSUME NEW s \in stories, NEW t \in stories, <<s, t>> \in order
      PROVE  rank[s] < rank[t]
  <2>1. Ahead(s, stories, order) \subseteq Ahead(t, stories, order)
    BY <1>3 DEF Ahead, IsOrder
  <2>2. s \in Ahead(t, stories, order) /\ s \notin Ahead(s, stories, order)
    BY <1>3 DEF Ahead, IsOrder
  <2>3. /\ Cardinality(Ahead(s, stories, order)) <= Cardinality(Ahead(t, stories, order))
        /\ Cardinality(Ahead(s, stories, order)) # Cardinality(Ahead(t, stories, order))
    BY <2>1, <2>2, AheadFinite, FS_Subset
  <2> QED
    BY <2>3, AheadFinite
<1>4. \A s, t \in stories : rank[s] = rank[t] => s = t
  <2> SUFFICES ASSUME NEW s \in stories, NEW t \in stories, rank[s] = rank[t], s # t
               PROVE  FALSE
    OBVIOUS
  <2> HIDE DEF rank, all
  <2>1. rank[s] \in Int /\ rank[t] \in Int
    BY <1>1, <1>2
  <2>2. <<s, t>> \in order \/ <<t, s>> \in order
    BY DEF IsOrder
  <2>3. rank[s] < rank[t] \/ rank[t] < rank[s]
    BY <1>3, <2>2
  <2> QED
    BY <2>1, <2>3
<1>5. rank \in Surjection(stories, 0 .. all - 1)
  <2>1. rank \in Injection(stories, 0 .. all - 1)
    <3>1. rank \in [stories -> 0 .. all - 1]
      BY <1>2
    <3> QED
      BY <1>4, <3>1 DEF Injection, IsInjective
  <2>2. IsFiniteSet(0 .. all - 1) /\ Cardinality(0 .. all - 1) = all
    <3>1. 0 \in Int /\ all - 1 \in Int
      BY <1>1
    <3> HIDE DEF all
    <3>2. /\ IsFiniteSet(0 .. all - 1)
          /\ Cardinality(0 .. all - 1) = IF 0 > all - 1 THEN 0 ELSE all - 1 - 0 + 1
      BY <3>1, FS_Interval
    <3> QED
      BY <1>1, <3>2
  <2> QED
    BY <2>1, <2>2, FS_Injection
<1>6. first \subseteq stories /\ \A s \in stories : s \in first <=> rank[s] < n
  BY DEF First, Ahead
<1> HIDE DEF rank, first
<1>7. numbers \in Bijection(first, 0 .. m - 1)
  <2>1. numbers \in [first -> 0 .. m - 1]
    BY <1>1, <1>2, <1>6 DEF Lesser
  <2>2. \A s, t \in first : numbers[s] = numbers[t] => s = t
    BY <1>4, <1>6
  <2>3. \A i \in 0 .. m - 1 : \E s \in first : numbers[s] = i
    <3> SUFFICES ASSUME NEW i \in 0 .. m - 1 PROVE \E s \in first : numbers[s] = i
      OBVIOUS
    <3>1. i \in 0 .. all - 1 /\ i < n
      BY <1>1 DEF Lesser
    <3>2. PICK s \in stories : rank[s] = i
      BY <1>5, <3>1 DEF Surjection
    <3> QED
      BY <1>6, <3>1, <3>2
  <2> QED
    BY <2>1, <2>2, <2>3 DEF Bijection, Injection, Surjection, IsInjective
<1>8. IsFiniteSet(first) /\ Cardinality(0 .. m - 1) = Cardinality(first)
  <2>1. IsFiniteSet(first)
    BY <1>6, FS_Subset
  <2> QED
    BY <1>7, <2>1, FS_Bijection DEF ExistsBijection
<1> QED
  BY <1>1, <1>8, FS_Interval DEF first

\* The first of some stories are some of them, more of them when more are asked for,
\* and all of them when there are no more.
LEMMA FirstOf ==
    ASSUME NEW stories, IsFiniteSet(stories), NEW order, NEW n \in Int
    PROVE  /\ First(n, stories, order) \subseteq stories
           /\ IsFiniteSet(First(n, stories, order))
           /\ Cardinality(First(n, stories, order)) \in Nat
<1>1. First(n, stories, order) \subseteq stories
  BY DEF First
<1> QED
  BY <1>1, FS_Subset, FS_CardinalityType

LEMMA FirstOfMore ==
    ASSUME NEW stories, IsFiniteSet(stories), NEW order, NEW m \in Nat, NEW n \in Nat, m <= n
    PROVE  First(m, stories, order) \subseteq First(n, stories, order)
<1>1. \A k \in Int, s \in stories :
         s \in First(k, stories, order) <=> Cardinality(Ahead(s, stories, order)) < k
  BY DEF First, Ahead
<1>2. \A s \in stories : Cardinality(Ahead(s, stories, order)) \in Nat
  BY AheadFinite
<1>3. First(m, stories, order) \subseteq stories
  BY FirstOf
<1> QED
  BY <1>1, <1>2, <1>3

LEMMA FirstOfFew ==
    ASSUME NEW stories, IsFiniteSet(stories), NEW order, IsOrder(order, stories),
           NEW n \in Nat, Cardinality(stories) <= n
    PROVE  First(n, stories, order) = stories
<1>1. Cardinality(First(n, stories, order)) = Cardinality(stories)
  BY FirstCount, FS_CardinalityType DEF Lesser
<1> QED
  BY <1>1, FirstOf, FS_Subset

LEMMA MaxOfTwo ==
    ASSUME NEW a \in Int, NEW b \in Int
    PROVE  Max({a, b}) = IF a <= b THEN b ELSE a
  BY DEF Max

LEMMA MinOfTwo ==
    ASSUME NEW a \in Int, NEW b \in Int
    PROVE  Min({a, b}) = Lesser(a, b)
  BY DEF Min, Lesser

\* Weights are numbers, within the ages the bound allows.
LEMMA WeightIsNumber ==
    ASSUME NEW coverage \in Nat, NEW age \in 0 .. Oldest
    PROVE  Weight(coverage, age) \in Nat
<1>1. Max({coverage, 1}) \in Nat
  BY MaxOfTwo
<1>2. 6 * Oldest - age \in 0 .. 6 * Oldest /\ 6 * Oldest - 6 * age \in 0 .. 6 * Oldest
  BY BoundsAssumption
<1>3. 2 ^ (6 * Oldest - age) \in Nat /\ 2 ^ (6 * Oldest - 6 * age) \in Nat
  BY <1>2, PowerAssumption
<1>4. \A a, b, c \in Nat : a * b + 6 * c \in Nat
  OBVIOUS
<1> QED
  BY <1>1, <1>3, <1>4 DEF Weight

\* Both orders are orders: of two stories one is always before the other.
LEMMA NewerIsOrder ==
    ASSUME NEW archive, NEW countries, IsArchive(archive, countries),
           NEW stories \in SUBSET DOMAIN archive
    PROVE  IsOrder(Newer(archive), stories)
<1>1. \A s \in DOMAIN archive : s \in Int /\ archive[s].last \in Int
  BY BoundsAssumption DEF IsArchive
<1>2. \A s, t \in DOMAIN archive : <<s, t>> \in Newer(archive) <=>
         \/ archive[s].last < archive[t].last
         \/ archive[s].last = archive[t].last /\ s < t
  BY DEF Newer
<1> QED
  BY <1>1, <1>2 DEF IsOrder

LEMMA HeavierIsOrder ==
    ASSUME NEW archive, NEW countries, IsArchive(archive, countries),
           NEW stories \in SUBSET DOMAIN archive, NEW coverage \in [DOMAIN archive -> Nat]
    PROVE  IsOrder(Heavier(archive, coverage), stories)
<1> DEFINE weight == [s \in DOMAIN archive |-> Weight(coverage[s], archive[s].last)]
<1>1. \A s \in DOMAIN archive : weight[s] \in Int
  <2> SUFFICES ASSUME NEW s \in DOMAIN archive PROVE weight[s] \in Int
    OBVIOUS
  <2>1. coverage[s] \in Nat /\ archive[s].last \in 0 .. Oldest
    BY DEF IsArchive
  <2> QED
    BY <2>1, WeightIsNumber
<1>2. \A s, t \in DOMAIN archive : <<s, t>> \in Heavier(archive, coverage) <=>
         weight[s] > weight[t] \/ (weight[s] = weight[t] /\ <<s, t>> \in Newer(archive))
  BY DEF Heavier
<1>3. IsOrder(Newer(archive), stories)
  BY NewerIsOrder
<1> HIDE DEF weight
<1> QED
  BY <1>1, <1>2, <1>3 DEF IsOrder

\* What a page chooses from, and what it shows before any place is granted: as many of
\* the current ones as there are places, or of all of them when none is current.
LEMMA ChoosableAre ==
    ASSUME NEW archive, NEW countries, IsArchive(archive, countries),
           NEW stories \in SUBSET DOMAIN archive, NEW n \in Nat, NEW fallback \in Nat
    PROVE  LET here == stories \cap Current(archive)
               of == IF here = {} THEN stories ELSE here
               from == Choosable(n, fallback, archive, stories)
           IN  /\ from \subseteq of
               /\ IsFiniteSet(of) /\ IsFiniteSet(from)
               /\ Cardinality(from)
                     = Lesser(IF here = {} THEN fallback ELSE n, Cardinality(of))
<1> DEFINE here == stories \cap Current(archive)
           of == IF here = {} THEN stories ELSE here
           size == IF here = {} THEN fallback ELSE n
           from == Choosable(n, fallback, archive, stories)
<1>1. of \in SUBSET DOMAIN archive /\ IsFiniteSet(of) /\ size \in Nat
  <2>1. of \in SUBSET DOMAIN archive
    OBVIOUS
  <2> QED
    BY <2>1, FS_Subset DEF IsArchive
<1>2. from = First(size, of, Newer(archive))
  BY DEF Choosable, Latest
<1> HIDE DEF of, size, from
<1>3. IsOrder(Newer(archive), of)
  BY <1>1, NewerIsOrder
<1>4. Cardinality(from) = Lesser(size, Cardinality(of))
  BY <1>1, <1>2, <1>3, FirstCount
<1>5. from \subseteq of /\ IsFiniteSet(from)
  BY <1>1, <1>2, FirstOf
<1> QED
  BY <1>1, <1>4, <1>5 DEF of, size, from

LEMMA ChosenAre ==
    ASSUME NEW archive, NEW countries, IsArchive(archive, countries),
           NEW stories \in SUBSET DOMAIN archive, NEW coverage \in [DOMAIN archive -> Nat]
    PROVE  LET here == stories \cap Current(archive)
               of == IF here = {} THEN stories ELSE here
               chosen == Heaviest(PageSize, archive,
                                  Choosable(PageCandidates, PageSize, archive, stories), coverage)
           IN  /\ chosen \subseteq of
               /\ IsFiniteSet(of) /\ IsFiniteSet(chosen)
               /\ Cardinality(chosen) = Lesser(PageSize, Cardinality(of))
<1> DEFINE here == stories \cap Current(archive)
           of == IF here = {} THEN stories ELSE here
           size == IF here = {} THEN PageSize ELSE PageCandidates
           from == Choosable(PageCandidates, PageSize, archive, stories)
           chosen == Heaviest(PageSize, archive, from, coverage)
<1>1. /\ from \subseteq of /\ IsFiniteSet(of) /\ IsFiniteSet(from)
      /\ Cardinality(from) = Lesser(size, Cardinality(of))
  BY ChoosableAre, BoundsAssumption
<1>2. of \subseteq DOMAIN archive /\ PageSize \in Nat /\ size \in Nat /\ PageSize <= size
  BY BoundsAssumption
<1>3. chosen = First(PageSize, from, Heavier(archive, coverage))
  BY DEF Heaviest
<1> HIDE DEF of, size, from, chosen
<1>4. IsOrder(Heavier(archive, coverage), from)
  BY <1>1, <1>2, HeavierIsOrder
<1>5. Cardinality(chosen) = Lesser(PageSize, Cardinality(from))
  BY <1>1, <1>2, <1>3, <1>4, FirstCount
<1>6. chosen \subseteq from /\ IsFiniteSet(chosen)
  BY <1>1, <1>2, <1>3, FirstOf
<1>7. Cardinality(of) \in Nat
  BY <1>1, FS_CardinalityType
<1>8. Cardinality(chosen) = Lesser(PageSize, Cardinality(of))
  BY <1>1, <1>2, <1>5, <1>7 DEF Lesser
<1> QED
  BY <1>1, <1>6, <1>8 DEF of, from, chosen

\* The recent coverage of a story is a number, and so are its articles by country.
LEMMA CoverageIsNumber ==
    ASSUME NEW archive, NEW countries, IsArchive(archive, countries)
    PROVE  /\ Recent(archive) \in [DOMAIN archive -> Nat]
           /\ \A c \in countries :
                 [s \in DOMAIN archive |-> archive[s].from[c]] \in [DOMAIN archive -> Nat]
<1>1. \A s \in DOMAIN archive :
         archive[s].recent \in Nat /\ archive[s].from \in [countries -> Nat]
  BY DEF IsArchive
<1> QED
  BY <1>1 DEF Recent

\* What is granted a place is current, and of no more stories than the last minute has.
LEMMA GrantedAre ==
    ASSUME NEW archive, NEW countries, IsArchive(archive, countries)
    PROVE  /\ Covered(archive) \subseteq Current(archive)
           /\ IsFiniteSet(Covered(archive))
           /\ Cardinality(Covered(archive)) <= LastMinuteSize
           /\ Cardinality(Covered(archive)) \in Nat
<1> DEFINE born == {s \in DOMAIN archive : archive[s].first = 0}
           earlier == {p \in born \X born : p[1] < p[2]}
<1>1. IsFiniteSet(born) /\ \A s \in born : s \in Nat
  <2>1. born \subseteq DOMAIN archive
    OBVIOUS
  <2> QED
    BY <2>1, FS_Subset DEF IsArchive
<1>2. born \subseteq Current(archive)
  <2> SUFFICES ASSUME NEW s \in DOMAIN archive, archive[s].first = 0
               PROVE  archive[s].last <= Window
    BY DEF Current
  <2>1. archive[s].last \in 0 .. Oldest /\ archive[s].last <= archive[s].first
    BY DEF IsArchive
  <2> QED
    BY <2>1, BoundsAssumption
<1>3. LastMinute(archive) = First(LastMinuteSize, born, earlier)
  BY DEF LastMinute
<1>4. IsOrder(earlier, born)
  <2>1. \A s, t \in born : <<s, t>> \in earlier <=> s < t
    OBVIOUS
  <2> HIDE DEF born, earlier
  <2> QED
    BY <1>1, <2>1 DEF IsOrder
<1> HIDE DEF born, earlier
<1>5. /\ LastMinute(archive) \subseteq born /\ IsFiniteSet(LastMinute(archive))
      /\ Cardinality(LastMinute(archive)) <= LastMinuteSize
  <2>1. Cardinality(LastMinute(archive)) = Lesser(LastMinuteSize, Cardinality(born))
    BY <1>1, <1>3, <1>4, FirstCount, BoundsAssumption
  <2>2. LastMinute(archive) \subseteq born /\ IsFiniteSet(LastMinute(archive))
    BY <1>1, <1>3, FirstOf, BoundsAssumption
  <2>3. Cardinality(born) \in Nat
    BY <1>1, FS_CardinalityType
  <2> QED
    BY <2>1, <2>2, <2>3, BoundsAssumption DEF Lesser
<1>6. Covered(archive) \subseteq LastMinute(archive)
  BY DEF Covered
<1>7. /\ IsFiniteSet(Covered(archive))
      /\ Cardinality(Covered(archive)) <= Cardinality(LastMinute(archive))
  BY <1>5, <1>6, FS_Subset
<1>8. Cardinality(Covered(archive)) \in Nat /\ Cardinality(LastMinute(archive)) \in Nat
  BY <1>5, <1>7, FS_CardinalityType
<1> QED
  BY <1>2, <1>5, <1>6, <1>7, <1>8, BoundsAssumption

\* The front page is full whatever is granted a place: as many stories as there are places,
\* or all the current ones, and none that is not current as long as one is.
THEOREM FrontPageIsFull ==
    ASSUME NEW archive, NEW countries, IsArchive(archive, countries)
    PROVE  PageIsFull(archive)
<1> DEFINE current == Current(archive)
           of == IF current = {} THEN DOMAIN archive ELSE current
           chosen == Heaviest(PageSize, archive,
                              Choosable(PageCandidates, PageSize, archive, DOMAIN archive),
                              Recent(archive))
           granted == Covered(archive) \ chosen
           kept == First(Cardinality(chosen) - Cardinality(granted), chosen,
                         Heavier(archive, Recent(archive)))
           page == FrontPage(archive)
<1>1. page = kept \cup granted
  BY DEF FrontPage, Heaviest
<1>2. /\ chosen \subseteq of /\ IsFiniteSet(of) /\ IsFiniteSet(chosen)
      /\ Cardinality(chosen) = Lesser(PageSize, Cardinality(of))
  <2>1. (DOMAIN archive) \cap Current(archive) = Current(archive)
    BY DEF Current
  <2>2. DOMAIN archive \in SUBSET DOMAIN archive
    OBVIOUS
  <2> QED
    BY <2>1, <2>2, ChosenAre, CoverageIsNumber
<1>3. /\ granted \subseteq current /\ IsFiniteSet(granted)
      /\ Cardinality(granted) \in Nat /\ Cardinality(granted) <= LastMinuteSize
  <2> HIDE DEF chosen
  <2>1. IsFiniteSet(granted) /\ Cardinality(granted) <= Cardinality(Covered(archive))
    BY GrantedAre, FS_Subset
  <2>2. Cardinality(granted) \in Nat
    BY <2>1, FS_CardinalityType
  <2> QED
    BY <2>1, <2>2, GrantedAre, BoundsAssumption
<1>4. of \subseteq DOMAIN archive
  BY DEF Current
<1>5. IsOrder(Heavier(archive, Recent(archive)), chosen)
  <2>1. chosen \in SUBSET DOMAIN archive
    BY <1>2, <1>4
  <2> HIDE DEF chosen
  <2> QED
    BY <2>1, HeavierIsOrder, CoverageIsNumber
<1> HIDE DEF chosen, of
<1>6. Cardinality(chosen) \in Nat /\ Cardinality(of) \in Nat
  BY <1>2, FS_CardinalityType
<1>7. granted \cap chosen = {}
  OBVIOUS
<1>8. current = {} => granted = {}
  BY <1>3
<1>9. current # {} => of = current
  BY DEF of
<1> HIDE DEF granted, current
<1>10. Cardinality(granted) <= Cardinality(chosen)
  <2>1. CASE PageSize <= Cardinality(of)
    BY <1>2, <1>3, <1>6, <2>1, BoundsAssumption DEF Lesser
  <2>2. CASE ~ (PageSize <= Cardinality(of))
    <3>1. chosen = of
      BY <1>2, <2>2, FS_Subset DEF Lesser
    <3>2. granted = {}
      BY <1>3, <1>7, <1>8, <1>9, <3>1
    <3> QED
      BY <1>6, <3>2, FS_EmptySet
  <2> QED
    BY <2>1, <2>2
<1>11. Cardinality(kept) = Cardinality(chosen) - Cardinality(granted)
  <2>1. Cardinality(chosen) - Cardinality(granted) \in Nat
    BY <1>3, <1>6, <1>10
  <2>2. Cardinality(kept) = Lesser(Cardinality(chosen) - Cardinality(granted), Cardinality(chosen))
    BY <1>2, <1>5, <2>1, FirstCount
  <2> QED
    BY <1>3, <1>6, <2>2 DEF Lesser
<1>12. kept \subseteq chosen /\ IsFiniteSet(kept)
  <2>1. Cardinality(chosen) - Cardinality(granted) \in Int
    BY <1>3, <1>6
  <2> QED
    BY <1>2, <2>1, FirstOf
<1> HIDE DEF kept, page
<1>13. Cardinality(page) = Cardinality(chosen)
  <2>1. Cardinality(kept \cup granted)
           = Cardinality(kept) + Cardinality(granted) - Cardinality(kept \cap granted)
    BY <1>3, <1>12, FS_Union
  <2>2. kept \cap granted = {}
    BY <1>7, <1>12
  <2> QED
    BY <1>1, <1>3, <1>6, <1>11, <2>1, <2>2, FS_EmptySet
<1>14. Cardinality(page) = Min({PageSize, Cardinality(of)})
  BY <1>2, <1>6, <1>13, MinOfTwo, BoundsAssumption
<1>15. current # {} => page \subseteq current
  BY <1>1, <1>2, <1>3, <1>9, <1>12
<1> QED
  BY <1>14, <1>15 DEF PageIsFull, of, current, page

\* The page of a country the filter offers is full of what the country covers today.
THEOREM CountryPageIsFull ==
    ASSUME NEW archive, NEW countries, IsArchive(archive, countries), NEW c \in countries
    PROVE  CountryHasAPage(archive, c)
<1> DEFINE stories == InCountry(archive, c)
           here == stories \cap Current(archive)
           from == [s \in DOMAIN archive |-> archive[s].from[c]]
           page == CountryPage(archive, c)
<1> SUFFICES ASSUME Cardinality(here) > 0
             PROVE  Cardinality(page) = Min({PageSize, Cardinality(here)}) /\ page \subseteq here
  BY DEF CountryHasAPage, StoriesByCountry
<1>1. stories \in SUBSET DOMAIN archive
  BY DEF InCountry
<1>2. here # {}
  BY FS_EmptySet
<1>3. page = Heaviest(PageSize, archive,
                      Choosable(PageCandidates, PageSize, archive, stories), from)
  BY DEF CountryPage
<1>4. from \in [DOMAIN archive -> Nat]
  BY CoverageIsNumber
<1> HIDE DEF stories, from, page
<1>5. /\ page \subseteq here /\ IsFiniteSet(here)
      /\ Cardinality(page) = Lesser(PageSize, Cardinality(here))
  BY <1>1, <1>2, <1>3, <1>4, ChosenAre
<1> HIDE DEF here
<1>6. Cardinality(here) \in Nat
  BY <1>5, FS_CardinalityType
<1>7. Min({PageSize, Cardinality(here)}) = Lesser(PageSize, Cardinality(here))
  BY <1>6, MinOfTwo, BoundsAssumption
<1> QED
  BY <1>5, <1>7

\* "DEVE essere identica per chi mostra e per chi prepara" (core/ranking.py): page and job
\* choose from different numbers of the latest stories and take different numbers of the
\* heaviest, but what the page shows by its weight the job translates in the same round,
\* as long as no more stories are current than page and job together leave room for.
THEOREM ShownIsPrepared ==
    ASSUME NEW archive, NEW countries, IsArchive(archive, countries)
    PROVE  PageIsPrepared(archive)
<1> DEFINE ids == DOMAIN archive
           current == Current(archive)
           heavier == Heavier(archive, Recent(archive))
           most == Max({2 * JobLimit, JobCandidates})
           from == Choosable(PageCandidates, PageSize, archive, ids)
           jobFrom == Choosable(most, JobLimit, archive, ids)
<1> SUFFICES ASSUME Cardinality(current) <= JobLimit - PageSize + PageCandidates,
                    NEW s \in FrontPage(archive) \ Covered(archive)
             PROVE  s \in StoriesToTranslate(archive)
  BY DEF PageIsPrepared
<1>1. most \in Nat /\ PageCandidates <= most
  BY MaxOfTwo, BoundsAssumption
<1>2. IsFiniteSet(ids) /\ current \subseteq ids /\ IsFiniteSet(current) /\ ids \in SUBSET ids
  <2>1. IsFiniteSet(ids) /\ current \subseteq ids
    BY DEF IsArchive, Current
  <2> QED
    BY <2>1, FS_Subset
<1>3. Cardinality(current) \in Nat
  BY <1>2, FS_CardinalityType
<1>4. ids \cap current = current
  BY <1>2
<1> HIDE DEF most
\* s is on the page by its weight.
<1>5. s \in from /\ Cardinality(Ahead(s, from, heavier)) < PageSize
  <2> DEFINE chosen == First(PageSize, from, heavier)
             granted == Covered(archive) \ chosen
  <2>1. FrontPage(archive)
           = First(Cardinality(chosen) - Cardinality(granted), chosen, heavier) \cup granted
    BY DEF FrontPage, Heaviest
  <2>2. s \in chosen
    <3>1. First(Cardinality(chosen) - Cardinality(granted), chosen, heavier) \subseteq chosen
      BY DEF First
    <3> HIDE DEF chosen
    <3> QED
      BY <2>1, <3>1
  <2> QED
    BY <2>2 DEF First, Ahead
<1>6. StoriesToTranslate(archive) = First(JobLimit, jobFrom, heavier)
  BY DEF StoriesToTranslate, Heaviest, most
<1>7. CASE current = {}
  <2>1. /\ from = First(PageSize, ids, Newer(archive))
        /\ jobFrom = First(JobLimit, ids, Newer(archive))
    BY <1>4, <1>7 DEF Choosable, Latest
  <2>2. from \subseteq jobFrom
    BY <1>2, <2>1, FirstOfMore, BoundsAssumption
  <2>3. /\ jobFrom \subseteq ids /\ IsFiniteSet(jobFrom)
        /\ Cardinality(jobFrom) = Lesser(JobLimit, Cardinality(ids))
    <3>1. IsOrder(Newer(archive), ids)
      BY <1>2, NewerIsOrder
    <3> QED
      BY <1>2, <2>1, <3>1, FirstOf, FirstCount, BoundsAssumption
  <2>4. Cardinality(jobFrom) <= JobLimit
    BY <1>2, <2>3, FS_CardinalityType, BoundsAssumption DEF Lesser
  <2>5. IsOrder(heavier, jobFrom)
    BY <2>3, HeavierIsOrder, CoverageIsNumber
  <2> HIDE DEF jobFrom, from, heavier
  <2>6. First(JobLimit, jobFrom, heavier) = jobFrom
    BY <2>3, <2>4, <2>5, FirstOfFew, BoundsAssumption
  <2> QED
    BY <1>5, <1>6, <2>2, <2>6
<1>8. CASE current # {}
  <2>1. /\ from = First(PageCandidates, current, Newer(archive))
        /\ jobFrom = First(most, current, Newer(archive))
    BY <1>4, <1>8 DEF Choosable, Latest
  <2>2. from \subseteq jobFrom /\ jobFrom \subseteq current
    BY <1>1, <1>2, <2>1, FirstOfMore, FirstOf, BoundsAssumption
  <2>3. Cardinality(from) = Lesser(PageCandidates, Cardinality(current))
    BY <1>2, <2>1, NewerIsOrder, FirstCount, BoundsAssumption
  <2> HIDE DEF from, jobFrom, heavier, current, ids
  <2>4. IsFiniteSet(from) /\ IsFiniteSet(jobFrom) /\ IsFiniteSet(jobFrom \ from)
    BY <1>2, <2>2, FS_Subset
  <2>5. Cardinality(jobFrom \ from) <= JobLimit - PageSize /\ Cardinality(jobFrom \ from) \in Nat
    <3>1. Cardinality(current \ from) = Cardinality(current) - Cardinality(from)
      <4>1. current = (current \ from) \cup from /\ (current \ from) \cap from = {}
        BY <2>2
      <4>2. IsFiniteSet(current \ from)
        BY <1>2, FS_Subset
      <4>3. Cardinality((current \ from) \cup from)
               = Cardinality(current \ from) + Cardinality(from)
                 - Cardinality((current \ from) \cap from)
        BY <2>4, <4>2, FS_Union
      <4>4. Cardinality(current \ from) \in Nat /\ Cardinality(from) \in Nat
        BY <2>4, <4>2, FS_CardinalityType
      <4>5. Cardinality((current \ from) \cap from) = 0
        BY <4>1, FS_EmptySet
      <4>6. Cardinality((current \ from) \cup from) = Cardinality(current)
        BY <4>1
      <4> QED
        BY <4>3, <4>4, <4>5, <4>6
    <3>2. /\ IsFiniteSet(current \ from)
          /\ Cardinality(jobFrom \ from) <= Cardinality(current \ from)
      <4>1. jobFrom \ from \in SUBSET (current \ from) /\ IsFiniteSet(current \ from)
        BY <1>2, <2>2, FS_Subset
      <4> QED
        BY <4>1, FS_Subset
    <3>3. Cardinality(jobFrom \ from) \in Nat /\ Cardinality(current \ from) \in Nat
      BY <2>4, <3>2, FS_CardinalityType
    <3> QED
      BY <1>3, <2>3, <3>1, <3>2, <3>3, BoundsAssumption DEF Lesser, current
  <2>6. Ahead(s, jobFrom, heavier) \subseteq Ahead(s, from, heavier) \cup (jobFrom \ from)
    BY DEF Ahead
  <2>7. Cardinality(Ahead(s, jobFrom, heavier))
           <= Cardinality(Ahead(s, from, heavier)) + Cardinality(jobFrom \ from)
    <3> DEFINE both == Ahead(s, from, heavier) \cup (jobFrom \ from)
               common == Ahead(s, from, heavier) \cap (jobFrom \ from)
    <3>1. IsFiniteSet(Ahead(s, from, heavier)) /\ Cardinality(Ahead(s, from, heavier)) \in Nat
      BY <2>4, AheadFinite
    <3>2. IsFiniteSet(both) /\ Cardinality(both)
             = Cardinality(Ahead(s, from, heavier)) + Cardinality(jobFrom \ from)
               - Cardinality(common)
      BY <2>4, <3>1, FS_Union
    <3>3. Cardinality(common) \in Nat
      <4>1. common \subseteq jobFrom \ from
        OBVIOUS
      <4>2. IsFiniteSet(common)
        BY <2>4, <4>1, FS_Subset
      <4> QED
        BY <4>2, FS_CardinalityType
    <3>4. Cardinality(Ahead(s, jobFrom, heavier)) <= Cardinality(both)
      BY <2>6, <3>2, FS_Subset
    <3>5. Cardinality(Ahead(s, jobFrom, heavier)) \in Nat
      BY <2>4, AheadFinite
    <3> HIDE DEF both, common
    <3> QED
      BY <2>5, <3>1, <3>2, <3>3, <3>4, <3>5
  <2>8. Cardinality(Ahead(s, jobFrom, heavier)) < JobLimit
    <3>1. /\ Cardinality(Ahead(s, from, heavier)) \in Nat
          /\ Cardinality(Ahead(s, jobFrom, heavier)) \in Nat
      BY <2>4, AheadFinite
    <3> QED
      BY <1>5, <2>5, <2>7, <3>1, BoundsAssumption
  <2>9. s \in jobFrom
    BY <1>5, <2>2
  <2> QED
    BY <1>6, <2>8, <2>9 DEF First, Ahead
<1> QED
  BY <1>7, <1>8
-----------------------------------------------------------------------------
(* The versions of a story, for any number of outlets and any distances in *)
(* the mathematical sense.  An outlet left out is at least as near to a    *)
(* chosen one as any two chosen ones are to each other, and it was before  *)
(* the last was chosen; so of k others two are near the same of the k - 1  *)
(* chosen before the last, and no farther apart than twice that.           *)

\* What is first of all.
LEMMA FirstOfAll ==
    ASSUME NEW S, IsFiniteSet(S), S # {}, NEW order, IsOrder(order, S)
    PROVE  \E a \in S : First(1, S, order) = {a} /\ \A b \in S : b = a \/ <<a, b>> \in order
<1>1. Cardinality(S) \in Nat /\ Cardinality(S) # 0
  BY FS_CardinalityType, FS_EmptySet
<1>2. Cardinality(First(1, S, order)) = 1 /\ IsFiniteSet(First(1, S, order))
  BY <1>1, FirstCount, FirstOf DEF Lesser
<1>3. PICK a : First(1, S, order) = {a}
  BY <1>2, FS_Singleton
<1>4. a \in S /\ Cardinality(Ahead(a, S, order)) < 1
  BY <1>3 DEF First, Ahead
<1>5. Ahead(a, S, order) = {}
  <2>1. IsFiniteSet(Ahead(a, S, order)) /\ Cardinality(Ahead(a, S, order)) \in Nat
    BY AheadFinite
  <2>2. Cardinality(Ahead(a, S, order)) = 0
    BY <1>4, <2>1
  <2> QED
    BY <2>1, <2>2, FS_EmptySet
<1>6. \A b \in S : b = a \/ <<a, b>> \in order
  BY <1>4, <1>5 DEF Ahead, IsOrder
<1> QED
  BY <1>3, <1>4, <1>6

\* The least of some numbers.
LEMMA MinOfNumbers ==
    ASSUME NEW S \in SUBSET Nat, S # {}
    PROVE  Min(S) \in S /\ \A y \in S : Min(S) <= y
<1>1. PICK e \in S : TRUE
  OBVIOUS
<1> DEFINE below == {x \in S : x <= e}
           less == {p \in Nat \X Nat : p[1] < p[2]}
<1>2. IsFiniteSet(below) /\ below # {}
  <2>0. e \in Nat /\ \A x \in below : x \in Nat /\ x <= e
    OBVIOUS
  <2> HIDE DEF below
  <2>1. below \subseteq 0 .. e
    BY <2>0
  <2>2. IsFiniteSet(0 .. e)
    BY FS_Interval
  <2> QED
    BY <1>1, <2>1, <2>2, FS_Subset DEF below
<1>3. IsOrder(less, below)
  <2>1. \A x, y \in below : <<x, y>> \in less <=> x < y
    OBVIOUS
  <2>2. below \subseteq Nat
    OBVIOUS
  <2> HIDE DEF below, less
  <2> QED
    BY <2>1, <2>2 DEF IsOrder
<1>4. PICK m \in below : \A b \in below : b = m \/ <<m, b>> \in less
  <2> HIDE DEF below, less
  <2> QED
    BY <1>2, <1>3, FirstOfAll
<1>5. m \in S /\ m <= e /\ m \in Nat /\ \A b \in below : b = m \/ m < b
  BY <1>4
<1>6. m \in S /\ \A y \in S : m <= y
  <2> SUFFICES ASSUME NEW y \in S PROVE m <= y
    OBVIOUS
  <2>1. CASE y <= e
    BY <1>5, <2>1
  <2>2. CASE y > e
    BY <1>5, <2>2
  <2> QED
    BY <2>1, <2>2
<1> QED
  BY <1>6 DEF Min

\* What holds of the numbers up to k, one after the other.
LEMMA UpTo ==
    ASSUME NEW k \in Nat, NEW G, 1 \in G, \A i \in 1 .. k : i \in G /\ i < k => i + 1 \in G
    PROVE  \A i \in 1 .. k : i \in G
<1> DEFINE bad == (1 .. k) \ G
<1> SUFFICES ASSUME bad # {} PROVE FALSE
  OBVIOUS
<1>1. bad \in SUBSET Nat
  OBVIOUS
<1> DEFINE m == Min(bad)
<1>2. m \in bad /\ \A y \in bad : m <= y
  BY <1>1, MinOfNumbers
<1> HIDE DEF m
<1>3. m \in 1 .. k /\ m # 1 /\ m - 1 \in 1 .. k /\ m - 1 < k
  BY <1>2
<1>4. m - 1 \in G
  BY <1>2, <1>3
<1> QED
  BY <1>2, <1>3, <1>4

\* The recursion of Diverse.
AreSteps(step, n, distance, k) ==
    step = [i \in 1 .. k |-> IF i = 1 THEN {1} ELSE WithFarthest(n, distance, step[i - 1])]

LEMMA StepsExist ==
    ASSUME NEW n, NEW distance, NEW k \in Nat
    PROVE  \E step : AreSteps(step, n, distance, k)
<1> DEFINE G == {m \in 1 .. k : \E step : AreSteps(step, n, distance, m)}
<1>1. CASE k = 0
  <2>1. AreSteps([i \in 1 .. k |-> {1}], n, distance, k)
    BY <1>1 DEF AreSteps
  <2> QED
    BY <2>1
<1>2. CASE k # 0
  <2>1. 1 \in G
    <3>1. AreSteps([i \in 1 .. 1 |-> {1}], n, distance, 1)
      BY DEF AreSteps
    <3> QED
      BY <1>2, <3>1
  <2>2. ASSUME NEW m \in 1 .. k, m \in G, m < k PROVE m + 1 \in G
    <3>1. PICK step : AreSteps(step, n, distance, m)
      BY <2>2
    <3> DEFINE more == [i \in 1 .. m + 1 |->
                           IF i = 1 THEN {1} ELSE WithFarthest(n, distance, step[i - 1])]
    <3>2. \A i \in 1 .. m : more[i] = step[i]
      <4>1. \A i \in 1 .. m :
               step[i] = IF i = 1 THEN {1} ELSE WithFarthest(n, distance, step[i - 1])
        BY <3>1 DEF AreSteps
      <4>2. \A i \in 1 .. m : i \in 1 .. m + 1
        OBVIOUS
      <4> QED
        BY <4>1, <4>2
    <3>3. more = [i \in 1 .. m + 1 |->
                     IF i = 1 THEN {1} ELSE WithFarthest(n, distance, more[i - 1])]
      <4>1. \A i \in 1 .. m + 1 : i # 1 => i - 1 \in 1 .. m
        OBVIOUS
      <4>2. \A i \in 1 .. m + 1 : i # 1 => step[i - 1] = more[i - 1]
        BY <3>2, <4>1
      <4> QED
        BY <4>2
    <3>4. AreSteps(more, n, distance, m + 1)
      BY <3>3 DEF AreSteps
    <3> QED
      BY <2>2, <3>4
  <2> HIDE DEF G
  <2>3. k \in G
    BY <1>2, <2>1, <2>2, UpTo
  <2> QED
    BY <2>3 DEF G
<1> QED
  BY <1>1, <1>2

\* More outlets than places: what has been chosen after each step.
StepsOf(n, distance, k) == CHOOSE step : AreSteps(step, n, distance, k)

LEMMA DiverseSteps ==
    ASSUME NEW n \in Nat, NEW distance, NEW k \in Nat, 0 < k, k < n,
           NEW step, step = StepsOf(n, distance, k)
    PROVE  /\ Diverse(n, distance, k) = step[k]
           /\ step[1] = {1}
           /\ \A i \in 1 .. k : i < k => step[i + 1] = WithFarthest(n, distance, step[i])
<1>1. AreSteps(step, n, distance, k)
  BY StepsExist DEF StepsOf
<1>2. Diverse(n, distance, k) = StepsOf(n, distance, k)[k]
  BY DEF Diverse, AreSteps, StepsOf
<1>3. step[1] = {1}
  BY <1>1 DEF AreSteps
<1>4. \A i \in 1 .. k : i < k => step[i + 1] = WithFarthest(n, distance, step[i])
  <2> SUFFICES ASSUME NEW i \in 1 .. k, i < k
               PROVE  step[i + 1] = WithFarthest(n, distance, step[i])
    OBVIOUS
  <2>1. i + 1 \in 1 .. k /\ i + 1 # 1 /\ (i + 1) - 1 = i
    OBVIOUS
  <2> QED
    BY <1>1, <2>1 DEF AreSteps
<1> QED
  BY <1>2, <1>3, <1>4

IsDistance(distance, n) ==
    /\ distance \in [(1 .. n) \X (1 .. n) -> Nat]
    /\ \A a \in 1 .. n : distance[<<a, a>>] = 0
    /\ \A a, b \in 1 .. n : distance[<<a, b>>] = distance[<<b, a>>]
    /\ \A a, b, c \in 1 .. n : distance[<<a, c>>] <= distance[<<a, b>>] + distance[<<b, c>>]

Nearest(chosen, distance, a) ==
    CHOOSE b \in chosen : Least(chosen, distance, a) = distance[<<a, b>>]

LEMMA LeastOf ==
    ASSUME NEW n \in Nat, NEW distance, IsDistance(distance, n),
           NEW chosen \in SUBSET (1 .. n), chosen # {}, NEW a \in 1 .. n
    PROVE  /\ Least(chosen, distance, a) \in Nat
           /\ \A b \in chosen : Least(chosen, distance, a) <= distance[<<a, b>>]
           /\ Nearest(chosen, distance, a) \in chosen
           /\ Least(chosen, distance, a) = distance[<<a, Nearest(chosen, distance, a)>>]
<1> DEFINE S == {distance[<<a, b>>] : b \in chosen}
<1>1. S \in SUBSET Nat /\ S # {}
  BY DEF IsDistance
<1> HIDE DEF S
<1>2. Min(S) \in S /\ \A y \in S : Min(S) <= y
  BY <1>1, MinOfNumbers
<1>3. Least(chosen, distance, a) = Min(S)
  BY DEF Least, S
<1>4. \E b \in chosen : Least(chosen, distance, a) = distance[<<a, b>>]
  BY <1>2, <1>3 DEF S
<1>5. /\ Nearest(chosen, distance, a) \in chosen
      /\ Least(chosen, distance, a) = distance[<<a, Nearest(chosen, distance, a)>>]
  BY <1>4 DEF Nearest
<1>6. Least(chosen, distance, a) \in Nat
      /\ \A b \in chosen : Least(chosen, distance, a) <= distance[<<a, b>>]
  BY <1>1, <1>2, <1>3 DEF S
<1> QED
  BY <1>5, <1>6

LEMMA SpreadOf ==
    ASSUME NEW n \in Nat, NEW distance, IsDistance(distance, n),
           NEW chosen \in SUBSET (1 .. n), NEW a \in chosen, NEW b \in chosen, a # b
    PROVE  /\ Spread(chosen, distance) \in Nat
           /\ Spread(chosen, distance) <= distance[<<a, b>>]
           /\ \E p, q \in chosen : p # q /\ Spread(chosen, distance) = distance[<<p, q>>]
<1> DEFINE pairs == {q \in chosen \X chosen : q[1] # q[2]}
           S == {distance[<<p[1], p[2]>>] : p \in pairs}
<1>1. \A p \in pairs : p[1] \in chosen /\ p[2] \in chosen /\ p[1] # p[2]
  OBVIOUS
<1>2. <<a, b>> \in pairs
  OBVIOUS
<1>3. distance[<<a, b>>] \in S
  BY <1>2
<1>4. S \in SUBSET Nat
  BY <1>1 DEF IsDistance
<1>5. \A y \in S : \E p, q \in chosen : p # q /\ y = distance[<<p, q>>]
  BY <1>1
<1>6. Spread(chosen, distance) = Min(S)
  BY DEF Spread
<1> HIDE DEF S, pairs
<1>7. Min(S) \in S /\ \A y \in S : Min(S) <= y
  BY <1>3, <1>4, MinOfNumbers
<1> QED
  BY <1>3, <1>4, <1>5, <1>6, <1>7

\* A step adds one outlet, and none of those left out is farther from the others.
LEMMA FarthestAdded ==
    ASSUME NEW n \in Nat, NEW distance, IsDistance(distance, n),
           NEW chosen \in SUBSET (1 .. n), chosen # {}, chosen # 1 .. n
    PROVE  \E c \in (1 .. n) \ chosen :
              /\ WithFarthest(n, distance, chosen) = chosen \cup {c}
              /\ \A x \in (1 .. n) \ chosen :
                    Least(chosen, distance, x) <= Least(chosen, distance, c)
<1> DEFINE left == (1 .. n) \ chosen
           order == Farther(n, distance, chosen)
           least == [x \in 1 .. n |-> Least(chosen, distance, x)]
<1>1. left # {} /\ left \subseteq 1 .. n /\ IsFiniteSet(left)
  <2>1. IsFiniteSet(1 .. n) /\ left \subseteq 1 .. n
    BY FS_Interval
  <2> QED
    BY <2>1, FS_Subset
<1>2. \A x \in 1 .. n : least[x] \in Nat
  BY LeastOf
<1>3. \A x, y \in 1 .. n : <<x, y>> \in order <=>
         least[x] > least[y] \/ (least[x] = least[y] /\ x < y)
  BY DEF Farther
<1>4. WithFarthest(n, distance, chosen) = chosen \cup First(1, left, order)
  BY DEF WithFarthest
<1> HIDE DEF left, order, least
<1>5. IsOrder(order, left)
  BY <1>1, <1>2, <1>3 DEF IsOrder
<1>6. PICK c \in left : First(1, left, order) = {c} /\ \A x \in left : x = c \/ <<c, x>> \in order
  BY <1>1, <1>5, FirstOfAll
<1>7. \A x \in left : least[x] <= least[c]
  <2> SUFFICES ASSUME NEW x \in left PROVE least[x] <= least[c]
    OBVIOUS
  <2>1. x \in 1 .. n /\ c \in 1 .. n
    BY <1>1
  <2>2. least[x] \in Nat /\ least[c] \in Nat
    BY <1>2, <2>1
  <2>3. CASE x = c
    BY <2>2, <2>3
  <2>4. CASE <<c, x>> \in order
    BY <1>3, <2>1, <2>2, <2>4
  <2> QED
    BY <1>6, <2>3, <2>4
<1>8. \A x \in left : Least(chosen, distance, x) <= Least(chosen, distance, c)
  BY <1>1, <1>7 DEF least
<1> QED
  BY <1>4, <1>6, <1>8 DEF left

\* The versions of a story (diverse_articles), for any number of outlets, any distances and
\* any number of versions: they are as many as asked for, and no choice of as many has its
\* nearest two more than twice as far apart as the nearest two shown.
THEOREM VersionsFarApart ==
    ASSUME NEW n \in Nat, NEW distance, IsDistance(distance, n),
           NEW k \in Nat, 1 < k, k < n
    PROVE  FarApart(n, distance, k)
<1> DEFINE chosen == Diverse(n, distance, k)
           step == StepsOf(n, distance, k)
<1>1. /\ chosen = step[k]
      /\ step[1] = {1}
      /\ \A i \in 1 .. k : i < k => step[i + 1] = WithFarthest(n, distance, step[i])
  BY DiverseSteps
<1> HIDE DEF chosen, step
<1> DEFINE OutletsOf(i) == /\ step[i] \subseteq 1 .. n
                           /\ IsFiniteSet(step[i]) /\ Cardinality(step[i]) = i
           Near(i) == \A x \in (1 .. n) \ step[i], p, q \in step[i] :
                         p # q => Least(step[i], distance, x) <= distance[<<p, q>>]
           G == {i \in 1 .. k : OutletsOf(i) /\ Near(i)}
\* One step, of what has not reached k.
<1>2. ASSUME NEW i \in G, i < k
      PROVE  /\ step[i] # {} /\ i + 1 \in G
             /\ \A x \in (1 .. n) \ step[i], p, q \in step[i + 1] :
                   p # q => Least(step[i], distance, x) <= distance[<<p, q>>]
  <2>1. i \in 1 .. k /\ OutletsOf(i) /\ Near(i) /\ step[i + 1] = WithFarthest(n, distance, step[i])
    BY <1>1, <1>2
  <2>2. step[i] # {} /\ step[i] # 1 .. n
    <3>1. Cardinality(1 .. n) = n
      BY FS_Interval
    <3> QED
      BY <2>1, <3>1, FS_EmptySet
  <2>3. PICK c \in (1 .. n) \ step[i] :
           /\ step[i + 1] = step[i] \cup {c}
           /\ \A x \in (1 .. n) \ step[i] :
                 Least(step[i], distance, x) <= Least(step[i], distance, c)
    BY <2>1, <2>2, FarthestAdded
  <2>4. OutletsOf(i + 1)
    <3>1. IsFiniteSet(step[i] \cup {c}) /\ Cardinality(step[i] \cup {c}) = Cardinality(step[i]) + 1
      BY <2>1, FS_AddElement
    <3> QED
      BY <2>1, <2>3, <3>1
  <2>5. ASSUME NEW x \in (1 .. n) \ step[i], NEW p \in step[i + 1], NEW q \in step[i + 1], p # q
        PROVE  Least(step[i], distance, x) <= distance[<<p, q>>]
    <3>1. CASE p \in step[i] /\ q \in step[i]
      BY <2>1, <2>5, <3>1
    <3>2. ASSUME NEW o \in step[i]
          PROVE  /\ Least(step[i], distance, x) <= distance[<<c, o>>]
                 /\ distance[<<c, o>>] = distance[<<o, c>>]
      <4>1. Least(step[i], distance, c) <= distance[<<c, o>>]
        BY <2>1, <2>2, LeastOf
      <4>2. Least(step[i], distance, x) <= Least(step[i], distance, c)
        BY <2>3
      <4>3. Least(step[i], distance, c) \in Nat /\ Least(step[i], distance, x) \in Nat
        BY <2>1, <2>2, LeastOf
      <4>4. o \in 1 .. n /\ c \in 1 .. n
        BY <2>1
      <4>5. distance[<<c, o>>] \in Nat /\ distance[<<c, o>>] = distance[<<o, c>>]
        BY <4>4 DEF IsDistance
      <4> QED
        BY <4>1, <4>2, <4>3, <4>5
    <3>3. CASE p = c /\ q \in step[i]
      BY <3>2, <3>3
    <3>4. CASE q = c /\ p \in step[i]
      BY <3>2, <3>4
    <3> QED
      BY <2>3, <2>5, <3>1, <3>3, <3>4
  <2>6. Near(i + 1)
    <3> SUFFICES ASSUME NEW x \in (1 .. n) \ step[i + 1],
                        NEW p \in step[i + 1], NEW q \in step[i + 1], p # q
                 PROVE  Least(step[i + 1], distance, x) <= distance[<<p, q>>]
      OBVIOUS
    <3>1. x \in (1 .. n) \ step[i] /\ step[i + 1] # {} /\ step[i] \subseteq step[i + 1]
      BY <2>3
    <3>2. Least(step[i], distance, x) <= distance[<<p, q>>]
      BY <2>5, <3>1
    <3> DEFINE o == Nearest(step[i], distance, x)
    <3>3. o \in step[i] /\ Least(step[i], distance, x) = distance[<<x, o>>]
      <4>1. step[i] \in SUBSET (1 .. n) /\ x \in 1 .. n
        BY <2>1
      <4> DEFINE here == step[i]
      <4>2. here \in SUBSET (1 .. n) /\ here # {}
        BY <2>2, <4>1
      <4> HIDE DEF here
      <4>3. Nearest(here, distance, x) \in here
        BY <4>1, <4>2, LeastOf
      <4>4. Least(here, distance, x) = distance[<<x, Nearest(here, distance, x)>>]
        BY <4>1, <4>2, LeastOf
      <4> QED
        BY <4>3, <4>4 DEF here
    <3> HIDE DEF o
    <3>4. Least(step[i + 1], distance, x) <= distance[<<x, o>>]
      BY <2>4, <3>1, <3>3, LeastOf
    <3>5. Least(step[i + 1], distance, x) \in Nat /\ Least(step[i], distance, x) \in Nat
      BY <2>1, <2>2, <2>4, <3>1, LeastOf
    <3>6. distance[<<p, q>>] \in Nat
      BY <2>4 DEF IsDistance
    <3> QED
      BY <3>2, <3>3, <3>4, <3>5, <3>6
  <2>7. i + 1 \in 1 .. k
    BY <1>2, <2>1
  <2> QED
    BY <2>2, <2>4, <2>5, <2>6, <2>7
<1>3. \A i \in 1 .. k : i \in G
  <2>1. 1 \in G
    <3>1. step[1] \subseteq 1 .. n /\ IsFiniteSet(step[1]) /\ Cardinality(step[1]) = 1
      <4>1. IsFiniteSet({1}) /\ Cardinality({1}) = 1
        BY FS_Singleton, Zenon
      <4> QED
        BY <1>1, <4>1
    <3>2. \A p, q \in step[1] : p = q
      BY <1>1
    <3> QED
      BY <3>1, <3>2
  <2>2. \A i \in 1 .. k : i \in G /\ i < k => i + 1 \in G
    BY <1>2
  <2> HIDE DEF G
  <2> QED
    BY <2>1, <2>2, UpTo
\* The k - 1 chosen before the last, and those near them.
<1> DEFINE centers == step[k - 1]
<1>4. k - 1 \in G /\ k \in G /\ k - 1 < k /\ (k - 1) + 1 = k
  BY <1>3
<1>5. /\ centers \subseteq 1 .. n /\ IsFiniteSet(centers) /\ Cardinality(centers) = k - 1
      /\ chosen \subseteq 1 .. n /\ IsFiniteSet(chosen) /\ Cardinality(chosen) = k
  BY <1>1, <1>4
<1>6. /\ centers # {}
      /\ \A x \in (1 .. n) \ centers, p, q \in chosen :
            p # q => Least(centers, distance, x) <= distance[<<p, q>>]
  BY <1>1, <1>2, <1>4
<1> HIDE DEF G, centers
<1>7. PICK p, q \in chosen : p # q
  <2>1. chosen # {}
    BY <1>5, FS_EmptySet
  <2>2. PICK p \in chosen : TRUE
    BY <2>1
  <2>3. chosen # {p}
    BY <1>5, FS_Singleton
  <2> QED
    BY <2>2, <2>3
<1> DEFINE r == Spread(chosen, distance)
<1>8. r \in Nat /\ \A x \in (1 .. n) \ centers : Least(centers, distance, x) <= r
  <2>1. r \in Nat /\ \E a, b \in chosen : a # b /\ r = distance[<<a, b>>]
    <3>1. chosen \in SUBSET (1 .. n)
      BY <1>5
    <3> QED
      BY <1>7, <3>1, SpreadOf
  <2> QED
    BY <1>6, <2>1
<1> HIDE DEF r
<1>9. \A x \in 1 .. n : \E c \in centers : distance[<<x, c>>] <= r
  <2> SUFFICES ASSUME NEW x \in 1 .. n PROVE \E c \in centers : distance[<<x, c>>] <= r
    OBVIOUS
  <2>1. CASE x \in centers
    <3>1. distance[<<x, x>>] <= r
      BY <1>8 DEF IsDistance
    <3> QED
      BY <2>1, <3>1
  <2>2. CASE x \notin centers
    <3>1. centers \in SUBSET (1 .. n) /\ x \in (1 .. n) \ centers
      BY <1>5, <2>2
    <3>2. \E c \in centers : Least(centers, distance, x) = distance[<<x, c>>]
      <4>1. Nearest(centers, distance, x) \in centers
        BY <1>6, <3>1, LeastOf
      <4>2. Least(centers, distance, x) = distance[<<x, Nearest(centers, distance, x)>>]
        BY <1>6, <3>1, LeastOf
      <4> QED
        BY <4>1, <4>2
    <3> QED
      BY <1>8, <3>1, <3>2
  <2> QED
    BY <2>1, <2>2
<1>10. ASSUME NEW other \in SUBSET (1 .. n), Cardinality(other) = k
       PROVE  Spread(other, distance) <= 2 * r
  <2> DEFINE center == [x \in other |-> CHOOSE c \in centers : distance[<<x, c>>] <= r]
  <2>1. \A x \in other : center[x] \in centers /\ distance[<<x, center[x]>>] <= r
    BY <1>9
  <2>2. center \in [other -> centers]
    BY <2>1
  <2> HIDE DEF center
  <2>3. IsFiniteSet(other) /\ Cardinality(centers) < Cardinality(other)
    <3>1. IsFiniteSet(1 .. n)
      BY FS_Interval
    <3>2. IsFiniteSet(other)
      BY <3>1, FS_Subset
    <3> QED
      BY <1>5, <1>10, <3>2
  <2>4. PICK x, y \in other : x # y /\ center[x] = center[y]
    BY <1>5, <2>2, <2>3, FS_PigeonHole
  <2> DEFINE c == center[x]
  <2>5. x \in 1 .. n /\ y \in 1 .. n /\ c \in 1 .. n
    BY <1>5, <2>1
  <2>6. distance[<<x, c>>] <= r /\ distance[<<y, c>>] <= r
    BY <2>1, <2>4
  <2> HIDE DEF c
  <2>7. /\ distance[<<x, y>>] <= distance[<<x, c>>] + distance[<<c, y>>]
        /\ distance[<<c, y>>] = distance[<<y, c>>]
        /\ distance[<<x, y>>] \in Nat /\ distance[<<x, c>>] \in Nat /\ distance[<<y, c>>] \in Nat
    BY <2>5 DEF IsDistance
  <2>8. Spread(other, distance) \in Nat /\ Spread(other, distance) <= distance[<<x, y>>]
    BY <2>4, SpreadOf
  <2> QED
    BY <1>8, <2>6, <2>7, <2>8
<1>11. kSubset(k, 1 .. n) = {other \in SUBSET (1 .. n) : Cardinality(other) = k}
  BY DEF kSubset
<1> QED
  BY <1>5, <1>10, <1>11 DEF FarApart, chosen, r

\* What diverse_articles measures without positions is a distance.
LEMMA CountriesAndLanguages ==
    ASSUME NEW n \in Nat, NEW C, NEW L,
           NEW outlets \in [1 .. n -> [country : C, language : L]]
    PROVE  IsDistance(Distances(outlets), n)
<1> DEFINE distance == Distances(outlets)
<1>1. \A a, b \in 1 .. n :
         distance[<<a, b>>] = (IF outlets[a].country # outlets[b].country THEN 2 ELSE 0)
                              + (IF outlets[a].language # outlets[b].language THEN 1 ELSE 0)
  BY DEF Distances, Distance
<1>2. distance \in [(1 .. n) \X (1 .. n) -> Nat]
  BY DEF Distances, Distance
<1> HIDE DEF distance
<1>3. \A a \in 1 .. n : distance[<<a, a>>] = 0
  BY <1>1
<1>4. \A a, b \in 1 .. n : distance[<<a, b>>] = distance[<<b, a>>]
  BY <1>1
<1>5. \A a, b, c \in 1 .. n :
         distance[<<a, c>>] <= distance[<<a, b>>] + distance[<<b, c>>]
  <2> SUFFICES ASSUME NEW a \in 1 .. n, NEW b \in 1 .. n, NEW c \in 1 .. n
               PROVE  distance[<<a, c>>] <= distance[<<a, b>>] + distance[<<b, c>>]
    OBVIOUS
  <2> DEFINE Apart(x, y) == IF outlets[x].country # outlets[y].country THEN 2 ELSE 0
             Foreign(x, y) == IF outlets[x].language # outlets[y].language THEN 1 ELSE 0
  <2>1. /\ distance[<<a, c>>] = Apart(a, c) + Foreign(a, c)
        /\ distance[<<a, b>>] = Apart(a, b) + Foreign(a, b)
        /\ distance[<<b, c>>] = Apart(b, c) + Foreign(b, c)
    BY <1>1
  <2>2. /\ Apart(a, c) <= Apart(a, b) + Apart(b, c)
        /\ Foreign(a, c) <= Foreign(a, b) + Foreign(b, c)
    OBVIOUS
  <2>3. /\ Apart(a, c) \in Nat /\ Apart(a, b) \in Nat /\ Apart(b, c) \in Nat
        /\ Foreign(a, c) \in Nat /\ Foreign(a, b) \in Nat /\ Foreign(b, c) \in Nat
    OBVIOUS
  <2> HIDE DEF Apart, Foreign
  <2> QED
    BY <2>1, <2>2, <2>3
<1>6. IsDistance(distance, n)
  BY <1>2, <1>3, <1>4, <1>5 DEF IsDistance
<1> QED
  BY <1>6 DEF distance

\* In particular, for the distances the code takes when nobody has a position.
COROLLARY VersionsOfOutlets ==
    ASSUME NEW n \in Nat, NEW C, NEW L,
           NEW outlets \in [1 .. n -> [country : C, language : L]],
           NEW k \in Nat, 1 < k, k < n
    PROVE  FarApart(n, Distances(outlets), k)
  BY CountriesAndLanguages, VersionsFarApart
-----------------------------------------------------------------------------
(* What a summary shows while it arrives: ThinkFilter.  After any pieces   *)
(* the filter is what it would be if they had been one, which is a         *)
(* function of the text so far (FilterOf).                                 *)

Text == Seq(Char)

\* What the filter is after t.
FilterOf(t) ==
    LET stripped == StripBlanks(t)
        out == StripLines(AfterClosing(t))
        Filter(mode, held, trim, visible) ==
            [mode |-> mode, buffer |-> held, trim |-> trim, shown |-> visible]
    IN  IF IsPrefix(Opening, stripped)
        THEN IF Closings(t) = {} THEN Filter("hiding", t, FALSE, <<>>)
             ELSE Filter("showing", <<>>, out = <<>>, out)
        ELSE IF IsStrictPrefix(stripped, Opening) THEN Filter("undecided", t, FALSE, <<>>)
        ELSE Filter("showing", <<>>, FALSE, t)

LEMMA MinIs ==
    ASSUME NEW S \in SUBSET Nat, NEW m \in S, \A y \in S : m <= y
    PROVE  Min(S) = m
<1>1. Min(S) \in S /\ \A y \in S : Min(S) <= y
  BY MinOfNumbers
<1> DEFINE least == Min(S)
<1>2. least \in Nat /\ m \in Nat /\ least <= m /\ m <= least
  BY <1>1
<1> HIDE DEF least
<1>3. least = m
  BY <1>2
<1> QED
  BY <1>3 DEF least

LEMMA EndOfConcat ==
    ASSUME NEW a \in Text, NEW b \in Text, NEW m \in 1 .. Len(a) + 1
    PROVE  SubSeq(a \o b, m, Len(a \o b)) = SubSeq(a, m, Len(a)) \o b
<1>1. Len(a) \in Nat /\ Len(b) \in Nat /\ a \o b \in Text /\ Len(a \o b) = Len(a) + Len(b)
  BY ConcatProperties, LenProperties DEF Text
<1>2. \A i \in m .. Len(a) + Len(b) : (a \o b)[i] \in Char
  BY <1>1, ElementOfSeq DEF Text
<1>3. \A i \in m .. Len(a) : a[i] \in Char
  BY <1>1, ElementOfSeq DEF Text
<1> DEFINE left == SubSeq(a \o b, m, Len(a \o b))
           begin == SubSeq(a, m, Len(a))
<1>4. /\ left \in Text /\ Len(left) = Len(a) + Len(b) - m + 1
      /\ \A i \in 1 .. Len(a) + Len(b) - m + 1 : left[i] = (a \o b)[m + i - 1]
  BY <1>1, <1>2, SubSeqProperties DEF Text
<1>5. /\ begin \in Text /\ Len(begin) = Len(a) - m + 1
      /\ \A i \in 1 .. Len(a) - m + 1 : begin[i] = a[m + i - 1]
  BY <1>1, <1>3, SubSeqProperties DEF Text
<1> HIDE DEF left, begin
<1>0. Len(begin) + Len(b) = Len(left)
  BY <1>1, <1>4, <1>5
<1>6. /\ begin \o b \in Text /\ Len(begin \o b) = Len(left)
      /\ \A i \in 1 .. Len(left) :
            (begin \o b)[i] = IF i <= Len(begin) THEN begin[i] ELSE b[i - Len(begin)]
  BY <1>0, <1>1, <1>5, ConcatProperties DEF Text
<1>7. \A i \in 1 .. Len(left) : left[i] = (begin \o b)[i]
  <2> SUFFICES ASSUME NEW i \in 1 .. Len(left) PROVE left[i] = (begin \o b)[i]
    OBVIOUS
  <2>1. m + i - 1 \in 1 .. Len(a) + Len(b)
    BY <1>1, <1>4
  <2>2. left[i] = IF m + i - 1 <= Len(a) THEN a[m + i - 1] ELSE b[m + i - 1 - Len(a)]
    BY <1>1, <1>4, <2>1, ConcatProperties DEF Text
  <2>3. CASE i <= Len(begin)
    BY <1>1, <1>5, <1>6, <2>2, <2>3
  <2>4. CASE i > Len(begin)
    <3>1. i - Len(begin) = m + i - 1 - Len(a)
      BY <1>1, <1>5
    <3>2. (begin \o b)[i] = b[i - Len(begin)]
      BY <1>1, <1>5, <1>6, <2>4
    <3>3. left[i] = b[m + i - 1 - Len(a)]
      BY <1>1, <1>5, <2>2, <2>4
    <3> QED
      BY <3>1, <3>2, <3>3
  <2> QED
    BY <1>1, <1>4, <1>5, <2>3, <2>4
<1>8. left = begin \o b
  BY <1>4, <1>6, <1>7, SeqEqual DEF Text
<1> QED
  BY <1>8 DEF left, begin

Kept(t, blanks) == {i \in 1 .. Len(t) : t[i] \notin blanks}

\* lstrip: what is left, and where it begins.
LEMMA StripOf ==
    ASSUME NEW t \in Text, NEW blanks
    PROVE  /\ Kept(t, blanks) \in SUBSET Nat
           /\ Strip(t, blanks) \in Text
           /\ Kept(t, blanks) = {} <=> Strip(t, blanks) = <<>>
           /\ Kept(t, blanks) # {} =>
                 /\ Min(Kept(t, blanks)) \in Kept(t, blanks)
                 /\ \A i \in Kept(t, blanks) : Min(Kept(t, blanks)) <= i
                 /\ Strip(t, blanks) = SubSeq(t, Min(Kept(t, blanks)), Len(t))
<1> DEFINE kept == Kept(t, blanks)
           m == Min(kept)
<1>1. Len(t) \in Nat /\ kept \in SUBSET Nat
  BY LenProperties DEF Text, Kept
<1>2. Strip(t, blanks) = IF kept = {} THEN <<>> ELSE SubSeq(t, m, Len(t))
  BY DEF Strip, Kept
<1>3. CASE kept = {}
  BY <1>1, <1>2, <1>3, EmptySeq DEF Text
<1>4. CASE kept # {}
  <2>1. m \in kept /\ \A i \in kept : m <= i
    BY <1>1, <1>4, MinOfNumbers
  <2>2. m \in 1 .. Len(t)
    BY <2>1 DEF Kept
  <2> HIDE DEF kept, m
  <2>3. \A i \in m .. Len(t) : t[i] \in Char
    BY <1>1, <2>2, ElementOfSeq DEF Text
  <2>4. SubSeq(t, m, Len(t)) \in Text /\ Len(SubSeq(t, m, Len(t))) = Len(t) - m + 1
    BY <1>1, <2>2, <2>3, SubSeqProperties DEF Text
  <2>5. SubSeq(t, m, Len(t)) # <<>>
    <3>1. Len(<<>>) = 0
      BY EmptySeq
    <3> DEFINE rest == SubSeq(t, m, Len(t))
    <3>2. Len(rest) # 0
      BY <1>1, <2>2, <2>4
    <3> HIDE DEF rest
    <3>3. rest # <<>>
      BY <3>1, <3>2
    <3> QED
      BY <3>3 DEF rest
  <2> QED
    BY <1>1, <1>2, <1>4, <2>1, <2>4, <2>5 DEF kept, m
<1> QED
  BY <1>3, <1>4

\* What arrives later is stripped only as long as there was nothing to keep.
LEMMA StripConcat ==
    ASSUME NEW t \in Text, NEW p \in Text, NEW blanks
    PROVE  Strip(t \o p, blanks) = IF Strip(t, blanks) = <<>> THEN Strip(p, blanks)
                                   ELSE Strip(t, blanks) \o p
<1> DEFINE keptT == Kept(t, blanks)
           keptP == Kept(p, blanks)
           kept == Kept(t \o p, blanks)
<1>1. /\ Len(t) \in Nat /\ Len(p) \in Nat
      /\ t \o p \in Text /\ Len(t \o p) = Len(t) + Len(p)
      /\ \A i \in 1 .. Len(t) + Len(p) : (t \o p)[i] = IF i <= Len(t) THEN t[i] ELSE p[i - Len(t)]
  BY ConcatProperties, LenProperties DEF Text
<1>2. \A i \in 1 .. Len(t) : i \in keptT <=> i \in kept
  BY <1>1 DEF Kept
<1>3. \A i \in 1 .. Len(p) : i \in keptP <=> i + Len(t) \in kept
  <2> SUFFICES ASSUME NEW i \in 1 .. Len(p) PROVE i \in keptP <=> i + Len(t) \in kept
    OBVIOUS
  <2>1. i + Len(t) \in 1 .. Len(t) + Len(p) /\ i + Len(t) > Len(t) /\ i + Len(t) - Len(t) = i
    BY <1>1
  <2> QED
    BY <1>1, <2>1 DEF Kept
<1>4. keptT \subseteq 1 .. Len(t) /\ keptP \subseteq 1 .. Len(p) /\ kept \subseteq 1 .. Len(t) + Len(p)
  BY <1>1 DEF Kept
<1>5. CASE keptT # {}
  <2> DEFINE m == Min(keptT)
  <2>1. m \in keptT /\ \A i \in keptT : m <= i
    BY <1>5, StripOf
  <2> HIDE DEF m
  <2>2. m \in 1 .. Len(t) /\ m \in kept
    BY <1>2, <1>4, <2>1
  <2>3. \A i \in kept : m <= i
    <3> SUFFICES ASSUME NEW i \in kept PROVE m <= i
      OBVIOUS
    <3>1. i \in 1 .. Len(t) + Len(p)
      BY <1>4
    <3>2. CASE i <= Len(t)
      BY <1>1, <1>2, <2>1, <3>1, <3>2
    <3>3. CASE i > Len(t)
      BY <1>1, <2>2, <3>1, <3>3
    <3> QED
      BY <1>1, <3>1, <3>2, <3>3
  <2>4. Min(kept) = m
    BY <1>1, <2>2, <2>3, StripOf, MinIs
  <2>5. Strip(t \o p, blanks) = SubSeq(t \o p, m, Len(t \o p))
    BY <1>1, <2>2, <2>4, StripOf
  <2>6. Strip(t, blanks) = SubSeq(t, m, Len(t)) /\ Strip(t, blanks) # <<>>
    BY <1>5, StripOf DEF m
  <2>7. m \in 1 .. Len(t) + 1
    BY <1>1, <2>2
  <2> QED
    BY <2>5, <2>6, <2>7, EndOfConcat
<1>6. CASE keptT = {} /\ keptP = {}
  <2>1. kept = {}
    <3> SUFFICES ASSUME NEW i \in kept PROVE FALSE
      OBVIOUS
    <3>1. i \in 1 .. Len(t) + Len(p) /\ ~ i \in 1 .. Len(t)
      BY <1>2, <1>4, <1>6
    <3>2. i - Len(t) \in 1 .. Len(p) /\ (i - Len(t)) + Len(t) = i
      BY <1>1, <3>1
    <3> QED
      BY <1>3, <1>6, <3>2
  <2> QED
    BY <1>1, <1>6, <2>1, StripOf
<1>7. CASE keptT = {} /\ keptP # {}
  <2> DEFINE m == Min(keptP)
  <2>1. m \in keptP /\ \A i \in keptP : m <= i
    BY <1>7, StripOf
  <2>2. Strip(p, blanks) = SubSeq(p, m, Len(p)) /\ Strip(t, blanks) = <<>>
    BY <1>7, StripOf
  <2> HIDE DEF m
  <2>3. m \in 1 .. Len(p) /\ m + Len(t) \in kept
    BY <1>3, <1>4, <2>1
  <2>4. \A i \in kept : m + Len(t) <= i
    <3> SUFFICES ASSUME NEW i \in kept PROVE m + Len(t) <= i
      OBVIOUS
    <3>1. i \in 1 .. Len(t) + Len(p) /\ ~ i \in 1 .. Len(t)
      BY <1>2, <1>4, <1>7
    <3>2. i - Len(t) \in 1 .. Len(p) /\ (i - Len(t)) + Len(t) = i
      BY <1>1, <3>1
    <3>3. m <= i - Len(t)
      BY <1>3, <2>1, <3>2
    <3> QED
      BY <1>1, <2>3, <3>1, <3>3
  <2>5. Min(kept) = m + Len(t)
    BY <1>1, <2>3, <2>4, StripOf, MinIs
  <2>6. Strip(t \o p, blanks) = SubSeq(t \o p, m + Len(t), Len(t) + Len(p))
    BY <1>1, <2>3, <2>5, StripOf
  <2>7. SubSeq(t \o p, m + Len(t), Len(t) + Len(p)) = SubSeq(p, m, Len(p))
    <3>1. t \in Seq(Char) /\ p \in Seq(Char)
      BY DEF Text
    <3> DEFINE m2 == m + Len(t)
               n2 == Len(t) + Len(p)
    <3>2. m2 \in Len(t) + 1 .. Len(t) + Len(p) /\ n2 \in Len(t) + 1 .. Len(t) + Len(p)
      BY <1>1, <2>3
    <3>3. m2 - Len(t) = m /\ n2 - Len(t) = Len(p)
      BY <1>1, <2>3
    <3> HIDE DEF m2, n2
    <3>4. SubSeq(t \o p, m2, n2) = SubSeq(p, m2 - Len(t), n2 - Len(t))
      BY <3>1, <3>2, SubSeqOfConcat2
    <3> QED
      BY <3>3, <3>4 DEF m2, n2
  <2> QED
    BY <2>2, <2>6, <2>7
<1> QED
  BY <1>5, <1>6, <1>7

\* To begin with another text, part by part.
LEMMA BeginsWith ==
    ASSUME NEW s \in Text, NEW t \in Text
    PROVE  IsPrefix(s, t) <=> Len(s) <= Len(t) /\ \A j \in 1 .. Len(s) : s[j] = t[j]
<1>1. Len(s) \in Nat /\ Len(t) \in Nat
  BY LenProperties DEF Text
<1>2. SubSeq(s, 1, Len(s)) = s
  BY SubSeqFull DEF Text
<1> DEFINE begin == SubSeq(t, 1, Len(s))
<1>3. SUFFICES ASSUME Len(s) <= Len(t)
               PROVE  s = begin <=> \A j \in 1 .. Len(s) : s[j] = t[j]
  BY <1>2 DEF IsPrefix
<1>4. \A i \in 1 .. Len(s) : t[i] \in Char
  BY <1>1, <1>3, ElementOfSeq DEF Text
<1>5. begin \in Text /\ Len(begin) = Len(s) /\ \A i \in 1 .. Len(s) : begin[i] = t[i]
  BY <1>1, <1>4, SubSeqProperties DEF Text
<1> HIDE DEF begin
<1>6. (\A j \in 1 .. Len(s) : s[j] = t[j]) => s = begin
  BY <1>5, SeqEqual DEF Text
<1> QED
  BY <1>5, <1>6

\* Once a text begins with another, or neither may, more of it changes nothing.
LEMMA Decided ==
    ASSUME NEW s \in Text, NEW t \in Text, NEW p \in Text
    PROVE  /\ IsPrefix(s, t) => IsPrefix(s, t \o p)
           /\ ~ IsPrefix(s, t) /\ ~ IsStrictPrefix(t, s) =>
                 ~ IsPrefix(s, t \o p) /\ ~ IsStrictPrefix(t \o p, s)
<1>1. /\ Len(s) \in Nat /\ Len(t) \in Nat /\ Len(p) \in Nat
      /\ t \o p \in Text /\ Len(t \o p) = Len(t) + Len(p)
      /\ \A i \in 1 .. Len(t) + Len(p) : (t \o p)[i] = IF i <= Len(t) THEN t[i] ELSE p[i - Len(t)]
  BY ConcatProperties, LenProperties DEF Text
<1>2. \A i \in 1 .. Len(t) : (t \o p)[i] = t[i]
  BY <1>1
<1>3. ASSUME IsPrefix(s, t) PROVE IsPrefix(s, t \o p)
  <2>1. Len(s) <= Len(t) /\ \A j \in 1 .. Len(s) : s[j] = t[j]
    BY <1>3, BeginsWith
  <2>2. Len(s) <= Len(t \o p) /\ \A j \in 1 .. Len(s) : s[j] = (t \o p)[j]
    BY <1>1, <1>2, <2>1
  <2> QED
    BY <1>1, <2>2, BeginsWith
<1>4. ASSUME ~ IsPrefix(s, t), ~ IsStrictPrefix(t, s)
      PROVE  ~ IsPrefix(s, t \o p) /\ ~ IsStrictPrefix(t \o p, s)
  <2>1. IsPrefix(s, s)
    BY <1>1, BeginsWith
  <2>2. s # t /\ ~ IsPrefix(t, s)
    BY <1>4, <2>1 DEF IsStrictPrefix
  <2>3. ASSUME IsPrefix(s, t \o p) PROVE FALSE
    <3>1. \A j \in 1 .. Len(s) : s[j] = (t \o p)[j]
      BY <1>1, <2>3, BeginsWith
    <3>2. CASE Len(s) <= Len(t)
      <4>1. \A j \in 1 .. Len(s) : s[j] = t[j]
        BY <1>1, <1>2, <3>1, <3>2
      <4> QED
        BY <1>4, <3>2, <4>1, BeginsWith
    <3>3. CASE Len(t) < Len(s)
      <4>1. Len(t) <= Len(s) /\ \A j \in 1 .. Len(t) : t[j] = s[j]
        BY <1>1, <1>2, <3>1, <3>3
      <4> QED
        BY <2>2, <4>1, BeginsWith
    <3> QED
      BY <1>1, <3>2, <3>3
  <2>4. ASSUME IsPrefix(t \o p, s) PROVE FALSE
    <3>1. Len(t \o p) <= Len(s) /\ \A j \in 1 .. Len(t \o p) : (t \o p)[j] = s[j]
      BY <1>1, <2>4, BeginsWith
    <3>2. Len(t) <= Len(s) /\ \A j \in 1 .. Len(t) : t[j] = s[j]
      BY <1>1, <1>2, <3>1
    <3> QED
      BY <2>2, <3>2, BeginsWith
  <2> QED
    BY <2>3, <2>4 DEF IsStrictPrefix
<1> QED
  BY <1>3, <1>4

LEMMA NotBoth ==
    ASSUME NEW s \in Text, NEW t \in Text, IsPrefix(s, t)
    PROVE  ~ IsStrictPrefix(t, s)
<1> SUFFICES ASSUME IsPrefix(t, s), s # t PROVE FALSE
  BY DEF IsStrictPrefix
<1>1. Len(s) \in Nat /\ Len(t) \in Nat /\ Len(s) <= Len(t) /\ Len(t) <= Len(s)
  BY BeginsWith, LenProperties DEF Text
<1>2. Len(s) = Len(t) /\ \A j \in 1 .. Len(s) : s[j] = t[j]
  BY <1>1, BeginsWith
<1> QED
  BY <1>2, SeqEqual DEF Text

\* The first end of the reasoning stays the first, and what came after it what it was.
LEMMA ClosedStays ==
    ASSUME NEW t \in Text, NEW p \in Text, Closings(t) # {}
    PROVE  /\ Closings(t \o p) # {}
           /\ AfterClosing(t) \in Text
           /\ AfterClosing(t \o p) = AfterClosing(t) \o p
<1> DEFINE m == Min(Closings(t))
           n == Len(Closing)
<1>1. /\ Len(t) \in Nat /\ Len(p) \in Nat /\ n \in Nat
      /\ t \o p \in Text /\ Len(t \o p) = Len(t) + Len(p)
      /\ \A i \in 1 .. Len(t) + Len(p) : (t \o p)[i] = IF i <= Len(t) THEN t[i] ELSE p[i - Len(t)]
  BY SummaryAssumption, ConcatProperties, LenProperties DEF Text
<1>2. \A i \in 1 .. Len(t) : (t \o p)[i] = t[i]
  BY <1>1
<1>3. Closings(t) \subseteq 1 .. Len(t) /\ Closings(t \o p) \subseteq 1 .. Len(t) + Len(p)
  BY <1>1 DEF Closings
<1>4. m \in Closings(t) /\ \A i \in Closings(t) : m <= i
  BY <1>1, <1>3, MinOfNumbers
<1> HIDE DEF m
<1>5. \A i \in 1 .. Len(t) : i + n <= Len(t) + 1 => (i \in Closings(t) <=> i \in Closings(t \o p))
  <2> SUFFICES ASSUME NEW i \in 1 .. Len(t), i + n <= Len(t) + 1
               PROVE  i \in Closings(t) <=> i \in Closings(t \o p)
    OBVIOUS
  <2>1. \A j \in 1 .. n : i + j - 1 \in 1 .. Len(t)
    BY <1>1
  <2>2. \A j \in 1 .. n : (t \o p)[i + j - 1] = t[i + j - 1]
    BY <1>2, <2>1
  <2> QED
    BY <1>1, <2>2 DEF Closings
<1>6. m \in 1 .. Len(t) /\ m + n <= Len(t) + 1 /\ m \in Closings(t \o p)
  <2>1. m \in 1 .. Len(t) /\ m + n <= Len(t) + 1
    BY <1>4 DEF Closings
  <2> QED
    BY <1>4, <1>5, <2>1
<1>7. \A i \in Closings(t \o p) : m <= i
  <2> SUFFICES ASSUME NEW i \in Closings(t \o p), i < m PROVE FALSE
    BY <1>3, <1>6
  <2>1. i \in 1 .. Len(t) /\ i + n <= Len(t) + 1
    BY <1>1, <1>3, <1>6
  <2> QED
    BY <1>4, <1>5, <1>6, <2>1
<1>8. Min(Closings(t \o p)) = m
  BY <1>1, <1>3, <1>6, <1>7, MinIs
<1>9. AfterClosing(t \o p) = SubSeq(t \o p, m + n, Len(t \o p))
  BY <1>8 DEF AfterClosing
<1>10. AfterClosing(t) = SubSeq(t, m + n, Len(t))
  BY DEF AfterClosing, m
<1>11. m + n \in 1 .. Len(t) + 1
  BY <1>1, <1>6
<1>12. \A i \in m + n .. Len(t) : t[i] \in Char
  BY <1>1, <1>11, ElementOfSeq DEF Text
<1>13. SubSeq(t, m + n, Len(t)) \in Text
  BY <1>1, <1>11, <1>12, SubSeqProperties DEF Text
<1> HIDE DEF n
<1>14. SubSeq(t \o p, m + n, Len(t \o p)) = SubSeq(t, m + n, Len(t)) \o p
  BY <1>11, EndOfConcat
<1> QED
  BY <1>6, <1>9, <1>10, <1>13, <1>14

\* A filter fed a text piece after piece is what the text makes of it.
LEMMA FeedsOn ==
    ASSUME NEW t \in Text, NEW p \in Text
    PROVE  Feed(FilterOf(t), p) = FilterOf(t \o p)
<1>f. SUFFICES ASSUME NEW f, f = FilterOf(t) PROVE Feed(f, p) = FilterOf(t \o p)
  OBVIOUS
<1> DEFINE stripped == StripBlanks(t)
           longer == StripBlanks(t \o p)
           out == StripLines(AfterClosing(t))
<1>1. t \o p \in Text /\ stripped \in Text /\ longer \in Text /\ Opening \in Text
  <2>1. t \o p \in Text
    BY ConcatProperties DEF Text
  <2> QED
    BY <2>1, StripOf, SummaryAssumption DEF Text, StripBlanks
<1>2. stripped # <<>> => longer = stripped \o p
  BY StripConcat DEF StripBlanks
<1>3. IsStrictPrefix(<<>>, Opening) /\ ~ IsPrefix(Opening, <<>>)
  <2>1. <<>> \in Text /\ Len(<<>>) = 0 /\ Opening # <<>> /\ Len(Opening) \in Nat \ {0}
    BY SummaryAssumption, EmptySeq DEF Text
  <2> QED
    BY <1>1, <2>1, BeginsWith DEF IsStrictPrefix
<1>0. /\ IsPrefix(Opening, stripped) => IsPrefix(Opening, longer)
      /\ ~ IsPrefix(Opening, stripped) /\ ~ IsStrictPrefix(stripped, Opening) =>
            ~ IsPrefix(Opening, longer) /\ ~ IsStrictPrefix(longer, Opening)
  <2> HIDE DEF stripped, longer
  <2>1. stripped = <<>> \/ longer = stripped \o p
    BY <1>2
  <2>2. CASE stripped = <<>>
    BY <1>3, <2>2
  <2>3. CASE longer = stripped \o p
    BY <1>1, <2>3, Decided
  <2> QED
    BY <2>1, <2>2, <2>3
<1>4. <<>> \o (t \o p) = t \o p /\ \A x \in Text : <<>> \o x = x
  BY <1>1, ConcatEmptySeq DEF Text
<1>5. CASE IsPrefix(Opening, stripped) /\ Closings(t) = {}
  <2>1. f = [mode |-> "hiding", buffer |-> t, trim |-> FALSE, shown |-> <<>>]
    BY <1>f, <1>5 DEF FilterOf
  <2>2. IsPrefix(Opening, longer)
    BY <1>0, <1>5
  <2>3. Feed(f, p) = Hides(f, t \o p)
    BY <2>1 DEF Feed
  <2>4. CASE Closings(t \o p) = {}
    BY <2>1, <2>2, <2>3, <2>4 DEF FilterOf, Hides
  <2>5. CASE Closings(t \o p) # {}
    <3> DEFINE later == StripLines(AfterClosing(t \o p))
    <3>1. later \in Text
      <4>1. AfterClosing(t \o p) \in Text
        BY <1>1, <2>5, ClosedStays, EmptySeq DEF Text
      <4> QED
        BY <4>1, StripOf DEF StripLines
    <3>2. FilterOf(t \o p) =
             [mode |-> "showing", buffer |-> <<>>, trim |-> later = <<>>, shown |-> later]
      BY <2>2, <2>5 DEF FilterOf
    <3>3. Hides(f, t \o p) =
             [mode |-> "showing", buffer |-> <<>>, trim |-> later = <<>>, shown |-> <<>> \o later]
      BY <2>1, <2>5 DEF Hides
    <3> HIDE DEF later
    <3> QED
      BY <1>4, <2>3, <3>1, <3>2, <3>3
  <2> QED
    BY <2>4, <2>5
<1>6. CASE IsPrefix(Opening, stripped) /\ Closings(t) # {}
  <2> DEFINE later == StripLines(AfterClosing(t \o p))
             more == StripLines(p)
  <2>1. f = [mode |-> "showing", buffer |-> <<>>, trim |-> out = <<>>, shown |-> out]
    BY <1>f, <1>6 DEF FilterOf
  <2>2. IsPrefix(Opening, longer)
    BY <1>0, <1>6
  <2>3. /\ Closings(t \o p) # {} /\ AfterClosing(t) \in Text
        /\ AfterClosing(t \o p) = AfterClosing(t) \o p
    BY <1>6, ClosedStays
  <2>4. later = IF out = <<>> THEN more ELSE out \o p
    BY <2>3, StripConcat DEF StripLines
  <2>5. out \in Text /\ more \in Text
    BY <2>3, StripOf DEF StripLines
  <2>6. FilterOf(t \o p) =
           [mode |-> "showing", buffer |-> <<>>, trim |-> later = <<>>, shown |-> later]
    BY <2>2, <2>3 DEF FilterOf
  <2>7. Feed(f, p) = Shows(f, p)
    BY <2>1 DEF Feed
  <2>8. out # <<>> => out \o p # <<>>
    BY <2>5, ConcatEqualIffEmpty DEF Text
  <2> HIDE DEF out, later
  <2>9. CASE out = <<>>
    <3>1. Shows(f, p) =
             [mode |-> "showing", buffer |-> <<>>, trim |-> more = <<>>, shown |-> <<>> \o more]
      BY <2>1, <2>9 DEF Shows
    <3> QED
      BY <1>4, <2>4, <2>5, <2>6, <2>7, <2>9, <3>1
  <2>10. CASE out # <<>>
    <3>1. Shows(f, p) =
             [mode |-> "showing", buffer |-> <<>>, trim |-> FALSE, shown |-> out \o p]
      BY <2>1, <2>10 DEF Shows
    <3> QED
      BY <2>4, <2>6, <2>7, <2>8, <2>10, <3>1
  <2> QED
    BY <2>9, <2>10
<1>7. CASE ~ IsPrefix(Opening, stripped) /\ IsStrictPrefix(stripped, Opening)
  <2>1. f = [mode |-> "undecided", buffer |-> t, trim |-> FALSE, shown |-> <<>>]
    BY <1>f, <1>7 DEF FilterOf
  <2>2. Feed(f, p) = Decides(f, t \o p)
    BY <2>1 DEF Feed
  <2>3. CASE IsPrefix(Opening, longer)
    <3> DEFINE later == StripLines(AfterClosing(t \o p))
    <3>1. Decides(f, t \o p) = Hides(f, t \o p)
      <4>1. ~ IsStrictPrefix(longer, Opening)
        BY <1>1, <2>3, NotBoth
      <4> QED
        BY <2>3, <4>1 DEF Decides
    <3>2. CASE Closings(t \o p) = {}
      BY <2>1, <2>2, <2>3, <3>1, <3>2 DEF FilterOf, Hides
    <3>3. CASE Closings(t \o p) # {}
      <4>1. later \in Text
        <5>1. AfterClosing(t \o p) \in Text
          BY <1>1, <3>3, ClosedStays, EmptySeq DEF Text
        <5> QED
          BY <5>1, StripOf DEF StripLines
      <4>2. FilterOf(t \o p) =
               [mode |-> "showing", buffer |-> <<>>, trim |-> later = <<>>, shown |-> later]
        BY <2>3, <3>3 DEF FilterOf
      <4>3. Hides(f, t \o p) =
               [mode |-> "showing", buffer |-> <<>>, trim |-> later = <<>>, shown |-> <<>> \o later]
        BY <2>1, <3>3 DEF Hides
      <4> HIDE DEF later
      <4> QED
        BY <1>4, <2>2, <3>1, <4>1, <4>2, <4>3
    <3> QED
      BY <3>2, <3>3
  <2>4. CASE ~ IsPrefix(Opening, longer) /\ IsStrictPrefix(longer, Opening)
    BY <2>1, <2>2, <2>4 DEF FilterOf, Decides
  <2>5. CASE ~ IsPrefix(Opening, longer) /\ ~ IsStrictPrefix(longer, Opening)
    <3>1. FilterOf(t \o p) = [mode |-> "showing", buffer |-> <<>>, trim |-> FALSE, shown |-> t \o p]
      BY <2>5 DEF FilterOf
    <3>2. Decides(f, t \o p) =
             [mode |-> "showing", buffer |-> <<>>, trim |-> FALSE, shown |-> <<>> \o (t \o p)]
      BY <2>1, <2>5 DEF Decides, Shows
    <3> QED
      BY <1>4, <2>2, <3>1, <3>2
  <2> QED
    BY <2>3, <2>4, <2>5
<1>8. CASE ~ IsPrefix(Opening, stripped) /\ ~ IsStrictPrefix(stripped, Opening)
  <2>1. f = [mode |-> "showing", buffer |-> <<>>, trim |-> FALSE, shown |-> t]
    BY <1>f, <1>8 DEF FilterOf
  <2>2. ~ IsPrefix(Opening, longer) /\ ~ IsStrictPrefix(longer, Opening)
    BY <1>0, <1>8
  <2>3. FilterOf(t \o p) = [mode |-> "showing", buffer |-> <<>>, trim |-> FALSE, shown |-> t \o p]
    BY <2>2 DEF FilterOf
  <2>4. Feed(f, p) = [mode |-> "showing", buffer |-> <<>>, trim |-> FALSE, shown |-> t \o p]
    BY <2>1 DEF Feed, Shows
  <2> QED
    BY <2>3, <2>4
<1> QED
  BY <1>5, <1>6, <1>7, <1>8

LEMMA NothingYet == FilterOf(<<>>) = NewFilter
<1>1. <<>> \in Text /\ Opening \in Text /\ Len(<<>>) = 0 /\ Len(Opening) \in Nat \ {0}
  BY SummaryAssumption, EmptySeq DEF Text
<1>2. Strip(<<>>, Blank) = <<>>
  <2>1. Kept(<<>>, Blank) = {}
    BY <1>1 DEF Kept
  <2> QED
    BY <1>1, <2>1, StripOf
<1>3. ~ IsPrefix(Opening, <<>>) /\ IsStrictPrefix(<<>>, Opening)
  BY <1>1, SummaryAssumption, BeginsWith DEF IsStrictPrefix
<1> QED
  BY <1>2, <1>3 DEF FilterOf, NewFilter, StripBlanks

LEMMA FilterOfTheWhole ==
    ASSUME NEW t \in Text
    PROVE  FilterOf(t).shown = Answer(t)
<1> DEFINE stripped == StripBlanks(t)
<1>1. CASE IsPrefix(Opening, stripped) /\ Closings(t) = {}
  BY <1>1 DEF FilterOf, Answer
<1>2. CASE IsPrefix(Opening, stripped) /\ Closings(t) # {}
  BY <1>2 DEF FilterOf, Answer
<1>3. CASE ~ IsPrefix(Opening, stripped)
  BY <1>3 DEF FilterOf, Answer
<1> QED
  BY <1>1, <1>2, <1>3

\* ThinkFilter, for any characters, any <think> and </think> of them, any text and any way
\* its pieces arrive in: the reader is shown the answer, and none of the reasoning.
THEOREM FilterShowsTheAnswer ==
    ASSUME NEW text \in Seq(Char), NEW ends \in Seq(0 .. Len(text)), AreEnds(ends, text)
    PROVE  ShowsTheAnswer(text, ends)
<1> DEFINE n == Len(ends)
           pieces == Cut(text, ends)
           upTo == [i \in 0 .. n |-> IF i = 0 THEN 0 ELSE ends[i]]
           soFar == [i \in 0 .. n |-> SubSeq(text, 1, upTo[i])]
           filters == [i \in 0 .. n |-> FilterOf(soFar[i])]
           Fed(after) == after = [i \in 0 .. n |->
                            IF i = 0 THEN NewFilter ELSE Feed(after[i - 1], pieces[i])]
           after == CHOOSE g : Fed(g)
<1>1. /\ n \in Nat \ {0} /\ Len(text) \in Nat /\ text \in Text
      /\ \A i \in 1 .. n : ends[i] \in 0 .. Len(text)
  BY LenProperties, EmptySeq, ElementOfSeq DEF AreEnds, Text
<1> HIDE DEF n
<1>2. /\ Len(pieces) = n
      /\ \A i \in 1 .. n : pieces[i] = SubSeq(text, upTo[i - 1] + 1, upTo[i])
  <2>1. pieces = [i \in 1 .. n |->
                    SubSeq(text, (IF i = 1 THEN 0 ELSE ends[i - 1]) + 1, ends[i])]
    BY DEF Cut, n
  <2>2. \A i \in 1 .. n : /\ i - 1 \in 0 .. n /\ i \in 0 .. n
                          /\ upTo[i - 1] = (IF i = 1 THEN 0 ELSE ends[i - 1])
                          /\ upTo[i] = ends[i]
    BY <1>1
  <2> HIDE DEF pieces, upTo
  <2>3. Len(pieces) = n
    BY <1>1, <2>1
  <2>4. \A i \in 1 .. n :
           pieces[i] = SubSeq(text, (IF i = 1 THEN 0 ELSE ends[i - 1]) + 1, ends[i])
    BY <2>1
  <2> QED
    BY <2>2, <2>3, <2>4
<1>3. /\ \A i \in 0 .. n : upTo[i] \in 0 .. Len(text)
      /\ \A i \in 1 .. n : upTo[i - 1] <= upTo[i]
      /\ upTo[0] = 0 /\ upTo[n] = Len(text)
  BY <1>1 DEF AreEnds, n
<1> HIDE DEF pieces, upTo
<1>4. \A i \in 1 .. n : soFar[i - 1] \o pieces[i] = soFar[i]
  <2> SUFFICES ASSUME NEW i \in 1 .. n PROVE soFar[i - 1] \o pieces[i] = soFar[i]
    OBVIOUS
  <2>1. i - 1 \in 0 .. n /\ i \in 0 .. n
    BY <1>1
  <2>2. 1 \in 1 .. Len(text) + 1 /\ upTo[i - 1] \in 1 - 1 .. Len(text) /\ upTo[i] \in upTo[i - 1] .. Len(text)
    BY <1>1, <1>3, <2>1
  <2>3. SubSeq(text, 1, upTo[i - 1]) \o SubSeq(text, upTo[i - 1] + 1, upTo[i]) = SubSeq(text, 1, upTo[i])
    BY <2>2, ConcatAdjacentSubSeq
  <2> QED
    BY <1>2, <2>1, <2>3
<1>5. \A i \in 0 .. n : soFar[i] \in Text
  <2> SUFFICES ASSUME NEW i \in 0 .. n PROVE SubSeq(text, 1, upTo[i]) \in Text
    OBVIOUS
  <2>1. upTo[i] \in Int /\ \A j \in 1 .. upTo[i] : text[j] \in Char
    BY <1>1, <1>3, ElementOfSeq
  <2> QED
    BY <2>1, SubSeqProperties DEF Text
<1>6. \A i \in 1 .. n : pieces[i] \in Text
  <2> SUFFICES ASSUME NEW i \in 1 .. n PROVE SubSeq(text, upTo[i - 1] + 1, upTo[i]) \in Text
    BY <1>2
  <2>1. i - 1 \in 0 .. n /\ i \in 0 .. n
    BY <1>1
  <2>2. /\ upTo[i - 1] + 1 \in Int /\ upTo[i] \in Int
        /\ \A j \in upTo[i - 1] + 1 .. upTo[i] : j \in 1 .. Len(text)
    BY <1>1, <1>3, <2>1
  <2>3. \A j \in upTo[i - 1] + 1 .. upTo[i] : text[j] \in Char
    BY <2>2, ElementOfSeq
  <2> QED
    BY <2>2, <2>3, SubSeqProperties DEF Text
<1>7. soFar[0] = <<>> /\ soFar[n] = text
  <2>1. SubSeq(text, 1, 0) = <<>>
    BY SubSeqEmpty
  <2>2. SubSeq(text, 1, Len(text)) = text
    BY SubSeqFull
  <2> QED
    BY <1>1, <1>3, <2>1, <2>2
<1> HIDE DEF soFar
<1>8. \A i \in 1 .. n : Feed(filters[i - 1], pieces[i]) = filters[i]
  <2> SUFFICES ASSUME NEW i \in 1 .. n PROVE Feed(filters[i - 1], pieces[i]) = filters[i]
    OBVIOUS
  <2>1. i - 1 \in 0 .. n /\ i \in 0 .. n
    BY <1>1
  <2> QED
    BY <1>4, <1>5, <1>6, <2>1, FeedsOn
<1>9. filters[0] = NewFilter
  BY <1>1, <1>7, NothingYet
<1>10. Fed(after)
  <2>1. Fed(filters)
    <3>1. \A i \in 0 .. n : i = 0 \/ i \in 1 .. n
      BY <1>1
    <3>2. filters = [i \in 0 .. n |-> filters[i]]
      OBVIOUS
    <3> HIDE DEF filters
    <3>3. \A i \in 0 .. n :
             filters[i] = IF i = 0 THEN NewFilter ELSE Feed(filters[i - 1], pieces[i])
      BY <1>8, <1>9, <3>1
    <3> QED
      BY <3>2, <3>3
  <2> QED
    BY <2>1
<1>11. Shown(pieces) = after[n].shown
  BY <1>2 DEF Shown
<1> HIDE DEF after, filters
<1>12. \A i \in 1 .. n + 1 : i \in {j \in 1 .. n + 1 : after[j - 1] = filters[j - 1]}
  <2> DEFINE G == {j \in 1 .. n + 1 : after[j - 1] = filters[j - 1]}
  <2>1. after[0] = NewFilter
    BY <1>1, <1>10
  <2>2. 1 \in G
    BY <1>1, <1>9, <2>1
  <2>3. ASSUME NEW i \in 1 .. n + 1, i \in G, i < n + 1 PROVE i + 1 \in G
    <3>1. i \in 0 .. n /\ i \in 1 .. n /\ i # 0 /\ i + 1 \in 1 .. n + 1 /\ (i + 1) - 1 = i
      BY <1>1, <2>3
    <3>2. after[i] = Feed(after[i - 1], pieces[i])
      BY <1>10, <3>1
    <3>3. after[i] = filters[i]
      BY <1>8, <2>3, <3>1, <3>2
    <3> QED
      BY <3>1, <3>3
  <2> HIDE DEF G
  <2>4. \A i \in 1 .. n + 1 : i \in G
    <3> DEFINE k == n + 1
    <3>1. k \in Nat
      BY <1>1
    <3>2. \A i \in 1 .. k : i \in G /\ i < k => i + 1 \in G
      BY <2>3
    <3> HIDE DEF k
    <3>3. \A i \in 1 .. k : i \in G
      BY <2>2, <3>1, <3>2, UpTo
    <3> QED
      BY <3>3 DEF k
  <2> QED
    BY <2>4 DEF G
<1>13. after[n] = filters[n]
  <2>1. n + 1 \in 1 .. n + 1 /\ (n + 1) - 1 = n
    BY <1>1
  <2> QED
    BY <1>12, <2>1
<1>14. filters[n] = FilterOf(text)
  BY <1>1, <1>7 DEF filters
<1> QED
  BY <1>1, <1>11, <1>13, <1>14, FilterOfTheWhole DEF ShowsTheAnswer, pieces

-----------------------------------------------------------------------------
(* What a summary says it is made of.                                      *)

\* Different things made of as many things are as many.
LEMMA AsMany ==
    ASSUME NEW S, IsFiniteSet(S), NEW f, DOMAIN f = S, \A x, y \in S : f[x] = f[y] => x = y
    PROVE  Cardinality({f[x] : x \in S}) = Cardinality(S)
<1> DEFINE T == {f[x] : x \in S}
           g == [x \in S |-> f[x]]
<1>1. g \in Bijection(S, T)
  BY DEF Bijection, Injection, Surjection, IsInjective
<1> QED
  BY <1>1, FS_Bijection DEF ExistsBijection

\* The article an outlet is represented by is one of its own, with its text if there is
\* one; and different outlets come in at different places.
Represented(articles, n, s) ==
    LET a == OfSource(articles, s)
        first == Min(ArticlesOf(articles, s))
    IN  /\ a \in 1 .. n /\ articles[a].source = s /\ articles[a].time \in Int
        /\ articles[a].full <=> TextsOf(articles, s) # {}
        /\ first \in 1 .. n /\ articles[first].source = s

LEMMA OutletsOf ==
    ASSUME NEW S, NEW n \in Nat, NEW articles \in [1 .. n -> [source : S, full : BOOLEAN, time : Int]]
    PROVE  /\ IsFiniteSet(Outlets(articles))
           /\ \A s \in Outlets(articles) : Represented(articles, n, s)
<1>1. IsFiniteSet(Outlets(articles))
  <2>1. Outlets(articles) = {articles[i].source : i \in 1 .. n}
    BY DEF Outlets
  <2> DEFINE f == [i \in 1 .. n |-> articles[i].source]
  <2>2. f \in Surjection(1 .. n, Outlets(articles))
    BY <2>1 DEF Surjection
  <2>3. IsFiniteSet(1 .. n)
    BY FS_Interval
  <2> QED
    BY <2>2, <2>3, FS_Surjection
<1>2. ASSUME NEW s \in Outlets(articles)
      PROVE  Represented(articles, n, s)
  <2> DEFINE all == ArticlesOf(articles, s)
             texts == TextsOf(articles, s)
             of == IF texts = {} THEN all ELSE texts
             m == Min(of)
             first == Min(all)
  <2>1. /\ all \subseteq 1 .. n /\ all # {} /\ texts \subseteq all
        /\ \A i \in all : articles[i].source = s /\ articles[i].time \in Int
        /\ \A i \in all : articles[i].full <=> i \in texts
    BY <1>2 DEF Outlets, ArticlesOf, TextsOf
  <2>2. OfSource(articles, s) = m
    BY DEF OfSource
  <2> HIDE DEF all, texts
  <2>3. of \in SUBSET Nat /\ of # {} /\ of \subseteq all /\ all \in SUBSET Nat
    BY <2>1
  <2>4. m \in of /\ first \in all
    BY <2>1, <2>3, MinOfNumbers
  <2> HIDE DEF m, first
  <2>5. m \in all /\ (articles[m].full <=> texts # {})
    BY <2>1, <2>4
  <2> QED
    BY <2>1, <2>2, <2>4, <2>5 DEF Represented, all, texts, first
<1> QED
  BY <1>1, <1>2

\* The texts first, then by time, then as they come: one after the other.
LEMMA PrecedesIsOrder ==
    ASSUME NEW S, NEW n \in Nat, NEW articles \in [1 .. n -> [source : S, full : BOOLEAN, time : Int]]
    PROVE  IsOrder(Precedes(articles), Outlets(articles))
<1> DEFINE outlets == Outlets(articles)
           order == Precedes(articles)
           full == [s \in outlets |-> TextsOf(articles, s) # {}]
           time == [s \in outlets |-> articles[OfSource(articles, s)].time]
           first == [s \in outlets |-> Min(ArticlesOf(articles, s))]
           Before(s, t) == \/ full[s] /\ ~ full[t]
                           \/ (full[s] <=> full[t]) /\ time[s] < time[t]
                           \/ (full[s] <=> full[t]) /\ time[s] = time[t] /\ first[s] < first[t]
<1>1. /\ \A s \in outlets : /\ articles[OfSource(articles, s)].full <=> full[s]
                            /\ articles[OfSource(articles, s)].full \in BOOLEAN
      /\ \A s \in outlets : time[s] \in Int /\ first[s] \in Nat
      /\ \A s, t \in outlets : first[s] = first[t] => s = t
  <2>1. \A s \in outlets : /\ OfSource(articles, s) \in 1 .. n
                           /\ articles[OfSource(articles, s)].time \in Int
                           /\ articles[OfSource(articles, s)].full <=> full[s]
                           /\ first[s] \in 1 .. n
                           /\ articles[first[s]].source = s
    <3> SUFFICES ASSUME NEW s \in outlets
                 PROVE  /\ OfSource(articles, s) \in 1 .. n
                        /\ articles[OfSource(articles, s)].time \in Int
                        /\ articles[OfSource(articles, s)].full <=> full[s]
                        /\ first[s] \in 1 .. n
                        /\ articles[first[s]].source = s
      OBVIOUS
    <3>1. Represented(articles, n, s)
      BY OutletsOf
    <3> QED
      BY <3>1 DEF Represented
  <2>2. \A s \in outlets : time[s] \in Int
    BY <2>1
  <2> HIDE DEF outlets, full, time, first
  <2> QED
    BY <2>1, <2>2
<1>2. ASSUME NEW s \in outlets, NEW t \in outlets
      PROVE  <<s, t>> \in order <=> Before(s, t)
  <2>1. /\ articles[OfSource(articles, s)].full <=> full[s]
        /\ articles[OfSource(articles, t)].full <=> full[t]
        /\ (articles[OfSource(articles, s)].full = articles[OfSource(articles, t)].full)
              <=> (full[s] <=> full[t])
    BY <1>1
  <2>2. <<s, t>> \in order <=>
           LET a == articles[OfSource(articles, s)]
               b == articles[OfSource(articles, t)]
           IN  \/ a.full /\ ~ b.full
               \/ a.full = b.full /\ a.time < b.time
               \/ a.full = b.full /\ a.time = b.time /\ first[s] < first[t]
    BY DEF Precedes
  <2> HIDE DEF full, order
  <2> QED
    BY <2>1, <2>2
<1> HIDE DEF outlets, order, full, time, first
<1>3. \A s, t \in outlets : <<s, t>> \in order <=> Before(s, t)
  BY <1>2
<1>4. \A s \in outlets : ~ Before(s, s)
  BY <1>1
<1>5. \A s, t, u \in outlets : Before(s, t) /\ Before(t, u) => Before(s, u)
  BY <1>1
<1>6. \A s, t \in outlets : s = t \/ Before(s, t) \/ Before(t, s)
  BY <1>1
<1> HIDE DEF Before
<1>7. IsOrder(order, outlets)
  BY <1>3, <1>4, <1>5, <1>6 DEF IsOrder
<1> QED
  BY <1>7 DEF order, outlets

\* select_input_articles and input_stats, for any articles and any number of them: the
\* reader is told of one article per outlet, as many as a prompt takes or there are, and no
\* outlet whose text has been downloaded is left out, or read without it, for one that has none.
THEOREM InputIsDeclared ==
    ASSUME NEW S, NEW n \in Nat, NEW articles \in [1 .. n -> [source : S, full : BOOLEAN, time : Int]]
    PROVE  ToldOfInput(articles)
<1> DEFINE outlets == Outlets(articles)
           order == Precedes(articles)
           withText == {s \in outlets : TextsOf(articles, s) # {}}
           chosen == Chosen(articles)
           of == [s \in chosen |-> OfSource(articles, s)]
           read == SelectInputArticles(articles)
           most == MaxInputArticles
<1>1. /\ IsFiniteSet(outlets) /\ IsOrder(order, outlets) /\ most \in Nat
      /\ withText \subseteq outlets
  BY OutletsOf, PrecedesIsOrder, SummaryAssumption
<1>2. chosen = First(most, outlets, order)
  BY DEF Chosen, First
<1>3. /\ chosen \subseteq outlets /\ IsFiniteSet(chosen)
      /\ Cardinality(chosen) = Lesser(most, Cardinality(outlets))
  <2> HIDE DEF chosen, outlets, order
  <2> QED
    BY <1>1, <1>2, FirstOf, FirstCount
<1>4. IsFiniteSet(withText) /\ IsOrder(order, withText)
  <2>1. IsFiniteSet(withText)
    BY <1>1, FS_Subset
  <2> QED
    BY <1>1, <2>1 DEF IsOrder
<1>5. chosen \cap withText = First(most, withText, order)
  <2>1. \A s \in withText : Ahead(s, outlets, order) = Ahead(s, withText, order)
    <3> SUFFICES ASSUME NEW s \in withText, NEW r \in outlets, <<r, s>> \in order
                 PROVE  r \in withText
      BY <1>1 DEF Ahead
    <3>1. /\ articles[OfSource(articles, s)].full
          /\ articles[OfSource(articles, r)].full <=> TextsOf(articles, r) # {}
      <4>1. s \in outlets /\ TextsOf(articles, s) # {}
        OBVIOUS
      <4>2. /\ articles[OfSource(articles, s)].full <=> TextsOf(articles, s) # {}
            /\ articles[OfSource(articles, r)].full <=> TextsOf(articles, r) # {}
        <5>1. Represented(articles, n, s) /\ Represented(articles, n, r)
          BY <4>1, OutletsOf
        <5> QED
          BY <5>1 DEF Represented
      <4> QED
        BY <4>1, <4>2
    <3>2. articles[OfSource(articles, r)].full
      BY <3>1 DEF Precedes
    <3> QED
      BY <3>1, <3>2
  <2>2. \A s \in withText : s \in chosen <=> s \in First(most, withText, order)
    BY <1>1, <1>2, <2>1 DEF First, Ahead
  <2>3. First(most, withText, order) \subseteq withText
    BY DEF First
  <2> QED
    BY <2>2, <2>3
<1>6. Cardinality(chosen \cap withText) = Lesser(most, Cardinality(withText))
  <2> HIDE DEF withText, order, chosen
  <2> QED
    BY <1>1, <1>4, <1>5, FirstCount
<1>7. /\ \A s \in chosen : articles[of[s]].source = s /\ (articles[of[s]].full <=> s \in withText)
      /\ read = {of[s] : s \in chosen}
      /\ \A s, t \in chosen : of[s] = of[t] => s = t
  <2>1. \A s \in chosen : articles[of[s]].source = s /\ (articles[of[s]].full <=> s \in withText)
    <3> SUFFICES ASSUME NEW s \in chosen
                 PROVE  articles[of[s]].source = s /\ (articles[of[s]].full <=> s \in withText)
      OBVIOUS
    <3>1. s \in outlets /\ of[s] = OfSource(articles, s)
      BY <1>3
    <3>2. /\ articles[OfSource(articles, s)].source = s
          /\ articles[OfSource(articles, s)].full <=> TextsOf(articles, s) # {}
      <4>1. Represented(articles, n, s)
        BY <3>1, OutletsOf
      <4> QED
        BY <4>1 DEF Represented
    <3> QED
      BY <3>1, <3>2
  <2>2. read = {of[s] : s \in chosen}
    BY DEF SelectInputArticles
  <2> HIDE DEF of, chosen, withText
  <2>3. \A s, t \in chosen : of[s] = of[t] => s = t
    BY <2>1
  <2> QED
    BY <2>1, <2>2, <2>3
<1> DEFINE texts == chosen \cap withText
           ofText == [s \in texts |-> of[s]]
<1>8. {articles[i].source : i \in read} = chosen /\ {i \in read : articles[i].full} = {ofText[s] : s \in texts}
  <2> HIDE DEF of, chosen, withText, read
  <2> QED
    BY <1>7
<1>9. Cardinality(read) = Cardinality(chosen) /\ Cardinality({ofText[s] : s \in texts}) = Cardinality(texts)
  <2>1. IsFiniteSet(texts) /\ DOMAIN ofText = texts /\ DOMAIN of = chosen
    BY <1>3, FS_Intersection
  <2>2. \A s, t \in texts : ofText[s] = ofText[t] => s = t
    BY <1>7
  <2> HIDE DEF of, ofText, texts, chosen, read
  <2> QED
    BY <1>3, <1>7, <2>1, <2>2, AsMany
<1>10. /\ Cardinality(outlets) \in Int /\ Cardinality(withText) \in Int
       /\ \A k \in Int : Min({k, most}) = Lesser(most, k)
  <2>1. \A k \in Int : {k, most} = {most, k} /\ Min({most, k}) = Lesser(most, k)
    BY <1>1, MinOfTwo
  <2>2. Cardinality(outlets) \in Int /\ Cardinality(withText) \in Int
    BY <1>1, <1>4, FS_CardinalityType
  <2> HIDE DEF outlets, withText, most
  <2>3. \A k \in Int : Min({k, most}) = Lesser(most, k)
    BY <2>1
  <2> QED
    BY <2>2, <2>3
<1>11. InputStats(articles) = <<Lesser(most, Cardinality(outlets)), Lesser(most, Cardinality(outlets)),
                                Lesser(most, Cardinality(withText))>>
  <2>1. InputStats(articles) = <<Cardinality(read), Cardinality({articles[i].source : i \in read}),
                                 Cardinality({i \in read : articles[i].full})>>
    BY DEF InputStats
  <2> HIDE DEF read, chosen, outlets, withText, most, of
  <2> QED
    BY <1>3, <1>6, <1>8, <1>9, <2>1
<1>12. ToldOfInput(articles) <=>
         InputStats(articles) = <<Min({Cardinality(outlets), most}), Min({Cardinality(outlets), most}),
                                  Min({Cardinality(withText), most})>>
  BY DEF ToldOfInput
<1> HIDE DEF outlets, withText, most
<1> QED
  BY <1>10, <1>11, <1>12
=============================================================================
