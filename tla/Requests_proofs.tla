--------------------------- MODULE Requests_proofs ---------------------------
(***************************************************************************)
(* What the requests that write keep true: those of registration and of    *)
(* the settings panel (Administration), those that have a story summarised *)
(* (Summaries); for any number of people, processes, keys, stories and     *)
(* languages.                                                              *)
(*                                                                         *)
(* Both arguments have the same shape.  A request reads, waits, and writes *)
(* from what it read.  The history variables shared and crossed say where  *)
(* two requests had the same thing in hand; everywhere else what a request *)
(* read is still what is stored when it writes.                            *)
(***************************************************************************)
EXTENDS Administration, Summaries, FiniteSetTheorems, TLAPS

-----------------------------------------------------------------------------
(* Registration.                                                           *)

\* Whoever is past the count without having been the first counted somebody,
\* and accounts are never taken away: there is an administrator.
SomebodyAdministers ==
    (\E p \in Person : account[p] \in {"later", "reader", "admin"})
        => \E p \in Person : account[p] = "admin"

\* Two who found nobody, or one who did and an administrator, are a race.
FirstIsOne ==
    \A p, q \in Person :
        account[p] \in {"first", "admin"} /\ account[q] \in {"first", "admin"}
            => p = q \/ raced

AccountInv == SomebodyAdministers /\ FirstIsOne

\* The part of AdminTypeOK the argument needs.
AccountTyped == account \in [Person -> Account] /\ raced \in BOOLEAN

LEMMA AccountUnchanged ==
    ASSUME AccountTyped, AccountInv, UNCHANGED <<account, raced>>
    PROVE  AccountTyped' /\ AccountInv'
  BY DEF AccountTyped, AccountInv, SomebodyAdministers, FirstIsOne

LEMMA RegisterAccounts ==
    ASSUME AccountTyped, AccountInv, NEW p \in Person,
           Register(p) \/ Registered(p) \/ RegistrationFails(p)
    PROVE  AccountTyped' /\ AccountInv'
<1> USE DEF AccountTyped, AccountInv, Account
<1>1. CASE Register(p)
  <2>1. /\ account[p] = "none" /\ \A q \in Person \ {p} : account'[q] = account[q]
        /\ account'[p] = IF IsFirst(p) THEN "first" ELSE "later"
        /\ raced' = (raced \/ (IsFirst(p) /\ \E q \in Person : account[q] = "first"))
    BY <1>1 DEF Register
  <2>2. AccountTyped'
    BY <1>1 DEF Register
  <2>3. IsFirst(p) <=> \A q \in Person : account[q] \notin {"reader", "admin"}
    BY DEF IsFirst, Profiles
  <2>4. SomebodyAdministers'
    BY <2>1, <2>3 DEF SomebodyAdministers
  <2>5. FirstIsOne'
    BY <2>1, <2>3 DEF FirstIsOne
  <2> QED
    BY <2>2, <2>4, <2>5
<1>2. CASE Registered(p) \/ RegistrationFails(p)
  BY <1>2 DEF Registered, RegistrationFails, SomebodyAdministers, FirstIsOne
<1> QED
  BY <1>1, <1>2

-----------------------------------------------------------------------------
(* The panel.                                                              *)

\* What is read of the rows is allowed, whoever reads it.
RowsAllowed ==
    \A l \in Loader : load[l] # NoLoad =>
        \A k \in Key : load[l][k] \in Allowed[k] \cup {NoRow}

\* A save still has before it what is stored of the keys it touches.
ReadIsStored ==
    \A p \in Person : save[p] # NoSave =>
        \A k \in Touched(save[p]) \ shared : save[p].read[k] = db[k]

\* No other save served by the same process touches the key.
Alone(p, k) == \A q \in Others(p) : save[q].at = save[p].at => k \notin Touched(save[q])

\* A process goes by a save it has applied, on the keys no other save touches there,
\* until a load sets it back.
AppliedServes ==
    \A p \in Person :
        save[p] # NoSave /\ save[p].stage = "applied" =>
            \A k \in Touched(save[p]) \ behind[save[p].at] :
                Alone(p, k) => setting[save[p].at][k] = save[p].form[k]

PanelInv ==
    /\ AdminTypeOK
    /\ RowsAllowed
    /\ ReadIsStored /\ AppliedServes
    /\ ToldIsStored /\ ServedAgrees

AdminInv == AccountInv /\ PanelInv

LEMMA AdminInitInv == AdminInit => AdminInv
<1> SUFFICES ASSUME AdminInit PROVE AdminInv
  OBVIOUS
<1> USE AdministrationAssumption DEF AdminInit
<1>1. AdminTypeOK
  BY DEF AdminTypeOK, Account, Rows
<1>2. AccountInv
  BY DEF AccountInv, SomebodyAdministers, FirstIsOne
<1>3. RowsAllowed /\ ReadIsStored /\ AppliedServes
  BY DEF RowsAllowed, ReadIsStored, AppliedServes
<1>4. ToldIsStored /\ ServedAgrees
  BY DEF ToldIsStored, ServedAgrees, Overlaid, Process
<1> QED
  BY <1>1, <1>2, <1>3, <1>4 DEF AdminInv, PanelInv


\* A load is a process's own; those that serve pages are processes.
LEMMA LoadersAt ==
    ASSUME NEW l \in Loader
    PROVE  At(l) \in Process
  BY AdministrationAssumption DEF At, Loader, Process

\* A save under way: its process, its form, what it has read.
LEMMA SaveTyped ==
    ASSUME AdminTypeOK, NEW p \in Person, save[p] # NoSave
    PROVE  /\ save[p] \in Saving /\ save[p].at \in Web /\ save[p].read \in Rows
           /\ save[p].at \in Process
           /\ save[p].stage \in {"reading", "applied"}
           /\ \A k \in Key : save[p].form[k] \in Allowed[k] \cup {Blank}
           /\ Touched(save[p]) = {k \in Key : save[p].form[k] # Blank}
           /\ \A k \in Key : save[p].form[k] \in Value \cup {Blank}
  BY AdministrationAssumption DEF AdminTypeOK, Saving, Touched, Process

\* What a process is setting: the keys of the saves applied to it.
LEMMA BeingSetIs ==
    ASSUME NEW w, NEW k
    PROVE  k \in BeingSet(w) <=>
             \E p \in Person : /\ save[p] # NoSave /\ save[p].at = w
                               /\ save[p].stage = "applied" /\ k \in Touched(save[p])
  BY DEF BeingSet

LEMMA SharedIs ==
    ASSUME NEW p \in Person, NEW k
    PROVE  k \in Shared(p) <=>
             k \in Touched(save[p]) /\ \E q \in Others(p) : k \in Touched(save[q])
  BY DEF Shared

LEMMA AccountStepPanel ==
    ASSUME PanelInv, NEW p \in Person,
           Register(p) \/ Registered(p) \/ RegistrationFails(p)
    PROVE  PanelInv'
<1>1. /\ UNCHANGED <<db, setting, save, load, quiet, shared, behind, told>>
      /\ AccountTyped'
  <2>1. account \in [Person -> Account] /\ raced \in BOOLEAN
    BY DEF PanelInv, AdminTypeOK
  <2> QED
    BY <2>1 DEF Register, Registered, RegistrationFails, AccountTyped, Account
<1>2. AdminTypeOK'
  BY <1>1 DEF PanelInv, AdminTypeOK, AccountTyped
<1>3. RowsAllowed' /\ ReadIsStored' /\ AppliedServes'
  BY <1>1 DEF PanelInv, RowsAllowed, ReadIsStored, AppliedServes, Alone, Others, Touched
<1>4. ToldIsStored' /\ ServedAgrees'
  BY <1>1 DEF PanelInv, ToldIsStored, ServedAgrees, BeingSet, Touched, Overlaid
<1> QED
  BY <1>2, <1>3, <1>4 DEF PanelInv

\* A form is submitted: its request reads the rows as they are.
LEMMA SubmitPanel ==
    ASSUME PanelInv, NEW p \in Person, NEW w \in Web, NEW f \in Form, Submit(p, w, f)
    PROVE  PanelInv'
<1> DEFINE s == [at |-> w, form |-> f, read |-> db, stage |-> "reading"]
<1>1. /\ save[p] = NoSave /\ save' = [save EXCEPT ![p] = s]
      /\ UNCHANGED <<account, db, setting, load, quiet, raced, shared, behind, told>>
  BY DEF Submit
<1>2. AdminTypeOK
  BY DEF PanelInv
<1>3. s \in Saving
  BY <1>2 DEF AdminTypeOK, Saving
<1>4. AdminTypeOK'
  BY <1>1, <1>2, <1>3 DEF AdminTypeOK
<1>5. save'[p] = s /\ \A q \in Person \ {p} : save'[q] = save[q]
  BY <1>1, <1>2 DEF AdminTypeOK
<1>6. s.stage = "reading" /\ s.read = db
  OBVIOUS
<1> HIDE DEF s
<1>7. ReadIsStored'
  BY <1>1, <1>5, <1>6 DEF PanelInv, ReadIsStored, Touched
<1>8. AppliedServes'
  <2> SUFFICES ASSUME NEW q \in Person, save'[q] # NoSave, save'[q].stage = "applied",
                      NEW k \in Touched(save'[q]) \ behind'[save'[q].at], Alone(q, k)'
               PROVE  setting'[save'[q].at][k] = save'[q].form[k]
    BY DEF AppliedServes, Touched
  <2>1. q # p /\ save'[q] = save[q]
    BY <1>5, <1>6
  <2>2. Alone(q, k)
    BY <1>1, <1>5, <2>1 DEF Alone, Others, Touched
  <2> QED
    BY <1>1, <2>1, <2>2 DEF PanelInv, AppliedServes
<1>9. \A v : BeingSet(v)' = BeingSet(v)
  BY <1>1, <1>5, <1>6 DEF BeingSet, Touched
<1>10. ServedAgrees'
  BY <1>1, <1>9 DEF PanelInv, ServedAgrees, Overlaid
<1>11. RowsAllowed' /\ ToldIsStored'
  BY <1>1 DEF PanelInv, RowsAllowed, ToldIsStored
<1> QED
  BY <1>4, <1>7, <1>8, <1>10, <1>11 DEF PanelInv

\* The form is applied to the process that serves it.
LEMMA ApplyPanel ==
    ASSUME PanelInv, NEW p \in Person, Apply(p)
    PROVE  PanelInv'
<1> DEFINE w == save[p].at
           f == save[p].form
<1>1. /\ save[p] # NoSave /\ save[p].stage = "reading"
      /\ setting' = [setting EXCEPT ![w] = Applied(@, f)]
      /\ save' = [save EXCEPT ![p].stage = "applied"]
      /\ UNCHANGED <<account, db, load, quiet, raced, shared, behind, told>>
  BY DEF Apply
<1>2. AdminTypeOK
  BY DEF PanelInv
<1>3. /\ save[p] \in Saving /\ w \in Web /\ w \in Process /\ save[p].read \in Rows
      /\ \A k \in Key : f[k] \in Allowed[k] \cup {Blank} /\ f[k] \in Value \cup {Blank}
  BY <1>1, <1>2, SaveTyped
<1>4. /\ save'[p] \in Saving /\ save'[p].form = f /\ save'[p].read = save[p].read
      /\ save'[p].at = w /\ save'[p].stage = "applied"
      /\ \A q \in Person \ {p} : save'[q] = save[q]
  BY <1>1, <1>2, <1>3 DEF AdminTypeOK, Saving
<1>5. save' \in [Person -> Saving \cup {NoSave}]
  BY <1>1, <1>2, <1>4 DEF AdminTypeOK
<1>6. /\ \A k \in Key : setting'[w][k] = IF f[k] = Blank THEN setting[w][k] ELSE f[k]
      /\ \A v \in Process \ {w} : setting'[v] = setting[v]
      /\ setting'[w] \in [Key -> Value]
  BY <1>1, <1>2, <1>3 DEF AdminTypeOK, Applied
<1>7. AdminTypeOK'
  <2>1. setting' \in [Process -> [Key -> Value]]
    BY <1>1, <1>2, <1>6 DEF AdminTypeOK
  <2>2. \A v \in Process, k \in Key : setting'[v][k] \in Allowed[k] \cup {Default[k]}
    BY <1>2, <1>3, <1>6 DEF AdminTypeOK
  <2> QED
    BY <1>1, <1>2, <1>5, <2>1, <2>2 DEF AdminTypeOK
<1> HIDE DEF w, f
<1>8. /\ save'[p] # NoSave /\ Touched(save'[p]) = Touched(save[p])
      /\ Touched(save[p]) = {k \in Key : f[k] # Blank}
      /\ \A q \in Person \ {p} : Touched(save'[q]) = Touched(save[q])
      /\ \A q \in Person : save'[q] # NoSave => save[q] # NoSave /\ save'[q].at = save[q].at
  BY <1>1, <1>4, AdministrationAssumption DEF Touched, f, w
<1>9. \A q \in Person : \A k : Alone(q, k)' => Alone(q, k)
  <2> SUFFICES ASSUME NEW q \in Person, NEW k, Alone(q, k)',
                      NEW u \in Others(q), save[u].at = save[q].at, save[q] # NoSave
               PROVE  k \notin Touched(save[u])
    BY <1>1, <1>4, <1>8 DEF Alone, Others
  <2>1. u \in Others(q)' /\ save'[u].at = save[u].at /\ save'[q].at = save[q].at
    BY <1>1, <1>4, <1>8 DEF Others, w
  <2> QED
    BY <1>8, <2>1 DEF Alone, Others
<1>10. ReadIsStored'
  BY <1>1, <1>4, <1>8 DEF PanelInv, ReadIsStored, Touched
<1>11. AppliedServes'
  <2> SUFFICES ASSUME NEW q \in Person, save'[q] # NoSave, save'[q].stage = "applied",
                      NEW k \in Touched(save'[q]) \ behind'[save'[q].at], Alone(q, k)'
               PROVE  setting'[save'[q].at][k] = save'[q].form[k]
    BY DEF AppliedServes, Touched
  <2>1. /\ Alone(q, k) /\ k \in Touched(save[q]) /\ k \notin behind[save[q].at] /\ k \in Key
        /\ save[q] # NoSave /\ save'[q].at = save[q].at
    BY <1>1, <1>4, <1>8, <1>9 DEF Touched
  <2>2. CASE q = p
    BY <1>4, <1>6, <1>8, <2>1, <2>2
  <2>3. CASE q # p /\ save[q].at = w
    <3>1. setting[w][k] = save'[q].form[k]
      BY <1>4, <2>1, <2>3 DEF PanelInv, AppliedServes
    <3>2. k \notin Touched(save[p])
      BY <1>1, <2>1, <2>3 DEF Alone, Others, w
    <3> QED
      BY <1>6, <1>8, <2>1, <2>3, <3>1, <3>2
  <2>4. CASE q # p /\ save[q].at # w
    <3>1. setting[save[q].at][k] = save'[q].form[k]
      BY <1>4, <2>1, <2>4 DEF PanelInv, AppliedServes
    <3>2. save[q].at \in Process
      BY <1>2, <2>1, SaveTyped
    <3> QED
      BY <1>6, <2>1, <2>4, <3>1, <3>2
  <2> QED
    BY <2>2, <2>3, <2>4
<1>12. ServedAgrees'
  <2> SUFFICES ASSUME NEW v \in Process, NEW k \in Key \ behind[v], k \notin BeingSet(v)'
               PROVE  setting'[v][k] = Overlaid(Default, db)[k]
    BY <1>1 DEF ServedAgrees, Overlaid
  <2>1. \A q \in Person : save'[q] # NoSave /\ save'[q].at = v /\ save'[q].stage = "applied"
                            => k \notin Touched(save'[q])
    BY BeingSetIs DEF BeingSet, Touched
  <2>2. k \notin BeingSet(v)
    <3> SUFFICES ASSUME NEW q \in Person, save[q] # NoSave, save[q].at = v,
                        save[q].stage = "applied"
                 PROVE  k \notin Touched(save[q])
      BY BeingSetIs
    <3>1. q # p
      BY <1>1
    <3> QED
      BY <1>4, <2>1, <3>1
  <2>3. setting[v][k] = Overlaid(Default, db)[k]
    BY <2>2 DEF PanelInv, ServedAgrees
  <2>4. CASE v = w
    <3>1. k \notin Touched(save[p])
      BY <1>4, <1>8, <2>1, <2>4
    <3> QED
      BY <1>6, <1>8, <2>3, <2>4, <3>1
  <2>5. CASE v # w
    BY <1>6, <2>3, <2>5
  <2> QED
    BY <2>4, <2>5
<1>13. RowsAllowed' /\ ToldIsStored'
  BY <1>1 DEF PanelInv, RowsAllowed, ToldIsStored
<1> QED
  BY <1>7, <1>10, <1>11, <1>12, <1>13 DEF PanelInv

\* A save is committed: what it writes is what it was told, but for the keys another
\* save has in hand, or had; the other processes have not heard of it.
LEMMA CommitPanel ==
    ASSUME PanelInv, NEW p \in Person, Commit(p)
    PROVE  PanelInv'
<1> DEFINE s == save[p]
<1>1. /\ s # NoSave /\ s.stage = "applied"
      /\ db' = RowsWritten(s)
      /\ save' = [save EXCEPT ![p] = NoSave]
      /\ told' = Applied(told, s.form)
      /\ shared' = shared \cup Shared(p)
      /\ behind' = [w \in Process |->
            behind[w] \cup IF w = s.at THEN Touched(s) \cap shared' ELSE Touched(s)]
      /\ UNCHANGED <<account, setting, load, quiet, raced>>
  BY DEF Commit
<1>2. AdminTypeOK
  BY DEF PanelInv
<1>3. /\ s \in Saving /\ s.at \in Process /\ s.read \in Rows
      /\ \A k \in Key : s.form[k] \in Allowed[k] \cup {Blank} /\ s.form[k] \in Value \cup {Blank}
      /\ Touched(s) = {k \in Key : s.form[k] # Blank}
  BY <1>1, <1>2, SaveTyped
<1>4. \A k \in Key :
         /\ db'[k] = IF k \in Touched(s) /\ s.form[k] # s.read[k] THEN s.form[k] ELSE db[k]
         /\ told'[k] = IF k \in Touched(s) THEN s.form[k] ELSE told[k]
  BY <1>1, <1>3 DEF RowsWritten, Applied
<1>5. save'[p] = NoSave /\ \A q \in Person \ {p} : save'[q] = save[q]
  BY <1>1, <1>2 DEF AdminTypeOK
<1>6. AdminTypeOK'
  <2>1. db' \in Rows /\ told' \in Rows
    BY <1>1, <1>2, <1>3 DEF AdminTypeOK, Rows, RowsWritten, Applied
  <2>2. \A k \in Key : db'[k] \in Allowed[k] \cup {NoRow}
    BY <1>2, <1>3, <1>4 DEF AdminTypeOK
  <2>3. shared' \subseteq Key
    BY <1>1, <1>2, <1>3, SharedIs DEF AdminTypeOK
  <2>4. behind' \in [Process -> SUBSET Key]
    BY <1>1, <1>2, <1>3 DEF AdminTypeOK
  <2> QED
    BY <1>1, <1>2, <2>1, <2>2, <2>3, <2>4 DEF AdminTypeOK
\* A key nobody else has in hand: what the save writes of it is what it says.
<1>7. ASSUME NEW k \in Touched(s), k \notin shared'
      PROVE  /\ k \notin shared /\ db'[k] = s.form[k]
             /\ \A q \in Others(p) : k \notin Touched(save[q])
  <2>1. k \notin shared /\ k \notin Shared(p)
    BY <1>1, <1>7
  <2>2. s.read[k] = db[k] /\ k \in Key
    BY <1>1, <1>3, <1>7, <2>1 DEF PanelInv, ReadIsStored
  <2> QED
    BY <1>4, <1>7, <2>1, <2>2, SharedIs
<1>8. \A k \in Key : k \notin Touched(s) => db'[k] = db[k] /\ told'[k] = told[k]
  BY <1>4
<1>9. /\ shared \subseteq shared'
      /\ \A w \in Process : behind[w] \subseteq behind'[w]
      /\ \A w \in Process : w # s.at => Touched(s) \subseteq behind'[w]
      /\ \A k \in Touched(s) : k \notin behind'[s.at] => k \notin shared'
  BY <1>1, <1>3
<1> HIDE DEF s
<1>10. ReadIsStored'
  <2> SUFFICES ASSUME NEW q \in Person, save'[q] # NoSave, NEW k \in Touched(save'[q]) \ shared'
               PROVE  save'[q].read[k] = db'[k]
    BY DEF ReadIsStored, Touched
  <2>1. q # p /\ save'[q] = save[q] /\ save[q] # NoSave /\ k \in Key /\ k \notin shared
    BY <1>5, <1>9 DEF Touched
  <2>2. k \notin Touched(s)
    BY <1>7, <2>1 DEF Others
  <2> QED
    BY <1>8, <2>1, <2>2 DEF PanelInv, ReadIsStored
<1>11. ToldIsStored'
  <2> SUFFICES ASSUME NEW k \in Key \ shared' PROVE db'[k] = told'[k]
    BY DEF ToldIsStored
  <2>1. CASE k \in Touched(s)
    BY <1>4, <1>7, <2>1
  <2>2. CASE k \notin Touched(s)
    BY <1>8, <1>9, <2>2 DEF PanelInv, ToldIsStored
  <2> QED
    BY <2>1, <2>2
<1>12. AppliedServes'
  <2> SUFFICES ASSUME NEW q \in Person, save'[q] # NoSave, save'[q].stage = "applied",
                      NEW k \in Touched(save'[q]) \ behind'[save'[q].at], Alone(q, k)'
               PROVE  setting'[save'[q].at][k] = save'[q].form[k]
    BY DEF AppliedServes, Touched
  <2>1. q # p /\ save'[q] = save[q] /\ save[q] # NoSave
    BY <1>5
  <2>2. save[q].at \in Process /\ k \notin behind[save[q].at]
    BY <1>2, <1>9, <2>1, SaveTyped
  <2>3. k \notin Touched(s)
    <3>1. SUFFICES ASSUME k \in Touched(s) PROVE FALSE
      OBVIOUS
    <3>2. save[q].at = s.at /\ k \notin shared'
      BY <1>9, <2>1, <2>2, <3>1
    <3>3. q \in Others(p)
      BY <2>1 DEF Others
    <3> QED
      BY <1>7, <2>1, <3>1, <3>2, <3>3
  <2>4. Alone(q, k)
    BY <1>5, <2>1, <2>3 DEF Alone, Others, Touched, s
  <2> QED
    BY <1>1, <2>1, <2>2, <2>4 DEF PanelInv, AppliedServes
<1>13. ServedAgrees'
  <2> SUFFICES ASSUME NEW v \in Process, NEW k \in Key \ behind'[v], k \notin BeingSet(v)'
               PROVE  setting[v][k] = Overlaid(Default, db')[k]
    BY <1>1 DEF ServedAgrees, Overlaid
  <2>1. \A q \in Person \ {p} :
           save[q] # NoSave /\ save[q].at = v /\ save[q].stage = "applied" => k \notin Touched(save[q])
    BY <1>5 DEF BeingSet, Touched
  <2>2. CASE k \in Touched(s)
    <3>1. v = s.at /\ k \notin shared' /\ k \notin behind[v]
      BY <1>9, <2>2
    <3>2. Alone(p, k) /\ db'[k] = s.form[k]
      BY <1>7, <2>2, <3>1 DEF Alone
    <3>3. setting[v][k] = s.form[k]
      BY <1>1, <2>2, <3>1, <3>2 DEF PanelInv, AppliedServes, s
    <3>4. s.form[k] # NoRow
      BY <1>2, <1>3, <3>3, AdministrationAssumption DEF AdminTypeOK
    <3> QED
      BY <3>2, <3>3, <3>4 DEF Overlaid
  <2>3. CASE k \notin Touched(s)
    <3>1. k \notin BeingSet(v)
      BY <2>1, <2>3, BeingSetIs DEF s
    <3>2. setting[v][k] = Overlaid(Default, db)[k]
      BY <1>9, <3>1 DEF PanelInv, ServedAgrees
    <3> QED
      BY <1>8, <2>3, <3>2 DEF Overlaid
  <2> QED
    BY <2>2, <2>3
<1>14. RowsAllowed'
  BY <1>1 DEF PanelInv, RowsAllowed
<1> QED
  BY <1>6, <1>10, <1>11, <1>12, <1>13, <1>14 DEF PanelInv

\* A save is rolled back, what it applied stays: its process is behind.
LEMMA SaveFailsPanel ==
    ASSUME PanelInv, NEW p \in Person, SaveFails(p)
    PROVE  PanelInv'
<1>1. /\ save[p] # NoSave
      /\ save' = [save EXCEPT ![p] = NoSave]
      /\ behind' = [behind EXCEPT ![save[p].at] = @ \cup Touched(save[p])]
      /\ UNCHANGED <<account, db, setting, load, quiet, raced, shared, told>>
  BY DEF SaveFails
<1>2. AdminTypeOK
  BY DEF PanelInv
<1>3. save'[p] = NoSave /\ \A q \in Person \ {p} : save'[q] = save[q]
  BY <1>1, <1>2 DEF AdminTypeOK
<1>4. /\ save[p].at \in Process /\ Touched(save[p]) \subseteq Key
      /\ behind'[save[p].at] = behind[save[p].at] \cup Touched(save[p])
      /\ \A w \in Process : behind[w] \subseteq behind'[w]
  BY <1>1, <1>2, SaveTyped DEF AdminTypeOK, Touched
<1>5. AdminTypeOK'
  BY <1>1, <1>2, <1>3, <1>4 DEF AdminTypeOK
<1>6. RowsAllowed' /\ ToldIsStored'
  BY <1>1 DEF PanelInv, RowsAllowed, ToldIsStored
<1>7. ReadIsStored'
  BY <1>1, <1>3 DEF PanelInv, ReadIsStored, Touched
<1>8. AppliedServes'
  <2> SUFFICES ASSUME NEW q \in Person, save'[q] # NoSave, save'[q].stage = "applied",
                      NEW k \in Touched(save'[q]) \ behind'[save'[q].at], Alone(q, k)'
               PROVE  setting'[save'[q].at][k] = save'[q].form[k]
    BY DEF AppliedServes, Touched
  <2>1. q # p /\ save'[q] = save[q] /\ save[q] # NoSave
    BY <1>3
  <2>2. k \notin behind[save[q].at] /\ (save[q].at = save[p].at => k \notin Touched(save[p]))
    BY <1>2, <1>4, <2>1, SaveTyped
  <2>3. Alone(q, k)
    BY <1>3, <2>1, <2>2 DEF Alone, Others, Touched
  <2> QED
    BY <1>1, <2>1, <2>2, <2>3 DEF PanelInv, AppliedServes
<1>9. ServedAgrees'
  <2> SUFFICES ASSUME NEW v \in Process, NEW k \in Key \ behind'[v], k \notin BeingSet(v)'
               PROVE  setting[v][k] = Overlaid(Default, db)[k]
    BY <1>1 DEF ServedAgrees, Overlaid
  <2>1. \A q \in Person \ {p} :
           save[q] # NoSave /\ save[q].at = v /\ save[q].stage = "applied" => k \notin Touched(save[q])
    BY <1>3 DEF BeingSet, Touched
  <2>2. k \notin behind[v] /\ (save[p].at = v => k \notin Touched(save[p]))
    BY <1>4
  <2>3. k \notin BeingSet(v)
    BY <2>1, <2>2, BeingSetIs
  <2> QED
    BY <2>2, <2>3 DEF PanelInv, ServedAgrees
<1> QED
  BY <1>5, <1>6, <1>7, <1>8, <1>9 DEF PanelInv

\* A page or a job reads the rows as they are.
LEMMA ReadRowsPanel ==
    ASSUME PanelInv, NEW l \in Loader, ReadRows(l)
    PROVE  PanelInv'
<1>1. /\ load' = [load EXCEPT ![l] = db]
      /\ UNCHANGED <<account, db, setting, save, quiet, raced, shared, behind, told>>
  BY DEF ReadRows
<1>2. AdminTypeOK
  BY DEF PanelInv
<1>3. load'[l] = db /\ \A m \in Loader \ {l} : load'[m] = load[m]
  BY <1>1, <1>2 DEF AdminTypeOK
<1>4. AdminTypeOK'
  BY <1>1, <1>2 DEF AdminTypeOK
<1>5. RowsAllowed'
  BY <1>1, <1>2, <1>3 DEF PanelInv, RowsAllowed, AdminTypeOK
<1>6. ReadIsStored' /\ AppliedServes'
  BY <1>1 DEF PanelInv, ReadIsStored, AppliedServes, Alone, Others, Touched
<1>7. ToldIsStored' /\ ServedAgrees'
  BY <1>1 DEF PanelInv, ToldIsStored, ServedAgrees, BeingSet, Touched, Overlaid
<1> QED
  BY <1>4, <1>5, <1>6, <1>7 DEF PanelInv

\* And applies them to its process: it agrees on the rows that are still what is
\* stored, unless a save is setting them there.
LEMMA ApplyRowsPanel ==
    ASSUME PanelInv, NEW l \in Loader, ApplyRows(l)
    PROVE  PanelInv'
<1> DEFINE w == At(l)
           rows == load[l]
<1>1. /\ rows # NoLoad
      /\ setting' = [setting EXCEPT ![w] = Loaded(w, rows)]
      /\ load' = [load EXCEPT ![l] = NoLoad]
      /\ behind' = [behind EXCEPT ![w] = (@ \ UpToDate(rows)) \cup SetBack(w, rows)]
      /\ UNCHANGED <<account, db, save, quiet, raced, shared, told>>
  BY DEF ApplyRows
<1>2. AdminTypeOK /\ RowsAllowed
  BY DEF PanelInv
<1>3. w \in Process /\ rows \in Rows
  BY <1>1, <1>2, LoadersAt DEF AdminTypeOK
<1>4. load'[l] = NoLoad /\ \A m \in Loader \ {l} : load'[m] = load[m]
  BY <1>1, <1>2 DEF AdminTypeOK
<1>5. \A k \in Key : rows[k] \in Allowed[k] \cup {NoRow}
  BY <1>1, <1>2 DEF RowsAllowed
<1> HIDE DEF w, rows
<1>6. /\ \A k \in Key : setting'[w][k] = IF rows[k] = NoRow THEN setting[w][k] ELSE rows[k]
      /\ \A v \in Process \ {w} : setting'[v] = setting[v] /\ behind'[v] = behind[v]
      /\ behind'[w] = (behind[w] \ UpToDate(rows)) \cup SetBack(w, rows)
  BY <1>1, <1>2, <1>3 DEF AdminTypeOK, Loaded, Overlaid
<1>7. BeingSet(w) \subseteq Key /\ BeingSet(w) \subseteq behind'[w]
  BY <1>2, <1>6, BeingSetIs DEF Touched, SetBack
<1>8. AdminTypeOK'
  <2>1. Loaded(w, rows) \in [Key -> Value]
    BY <1>2, <1>3 DEF AdminTypeOK, Rows, Loaded, Overlaid
  <2>2. \A v \in Process, k \in Key : setting'[v][k] \in Allowed[k] \cup {Default[k]}
    BY <1>2, <1>5, <1>6 DEF AdminTypeOK
  <2>3. behind' \in [Process -> SUBSET Key]
    BY <1>1, <1>2, <1>3, <1>7 DEF AdminTypeOK, SetBack
  <2>4. setting' \in [Process -> [Key -> Value]] /\ load' \in [Loader -> Rows \cup {NoLoad}]
    BY <1>1, <1>2, <2>1 DEF AdminTypeOK
  <2> QED
    BY <1>1, <1>2, <2>2, <2>3, <2>4 DEF AdminTypeOK
<1>9. RowsAllowed'
  BY <1>1, <1>2, <1>4 DEF RowsAllowed
<1>10. ReadIsStored' /\ ToldIsStored'
  BY <1>1 DEF PanelInv, ReadIsStored, ToldIsStored, Touched
<1>11. AppliedServes'
  <2> SUFFICES ASSUME NEW q \in Person, save[q] # NoSave, save[q].stage = "applied",
                      NEW k \in Touched(save[q]) \ behind'[save[q].at], Alone(q, k)
               PROVE  setting'[save[q].at][k] = save[q].form[k]
    BY <1>1 DEF AppliedServes, Touched, Alone, Others
  <2>1. save[q].at \in Process
    BY <1>2, SaveTyped
  <2>2. save[q].at # w
    BY <1>7, BeingSetIs
  <2> QED
    BY <1>6, <2>1, <2>2 DEF PanelInv, AppliedServes
<1>12. ServedAgrees'
  <2> SUFFICES ASSUME NEW v \in Process, NEW k \in Key \ behind'[v], k \notin BeingSet(v)
               PROVE  setting'[v][k] = Overlaid(Default, db)[k]
    BY <1>1 DEF ServedAgrees, Overlaid, BeingSet, Touched
  <2>1. CASE v # w
    BY <1>6, <2>1 DEF PanelInv, ServedAgrees
  <2>2. CASE v = w
    <3>1. rows[k] = db[k]
      BY <1>6, <2>2 DEF SetBack
    <3>2. CASE rows[k] # NoRow
      BY <1>6, <2>2, <3>1, <3>2 DEF Overlaid
    <3>3. CASE rows[k] = NoRow
      <4>1. k \notin behind[w]
        BY <1>6, <2>2, <3>3 DEF UpToDate
      <4> QED
        BY <1>6, <2>2, <3>3, <4>1 DEF PanelInv, ServedAgrees
    <3> QED
      BY <3>2, <3>3
  <2> QED
    BY <2>1, <2>2
<1> QED
  BY <1>8, <1>9, <1>10, <1>11, <1>12 DEF PanelInv

\* A process starts again, from the rows or without them; no save it was serving, and no
\* load of its own, outlives it.
LEMMA RestartPanel ==
    ASSUME PanelInv, NEW w \in Process, Restart(w)
    PROVE  PanelInv'
<1>1. PICK read \in BOOLEAN :
      /\ setting' = [setting EXCEPT ![w] = IF read THEN Overlaid(Default, db) ELSE Default]
      /\ behind' = [behind EXCEPT ![w] = IF read THEN {} ELSE Key]
      /\ save' = [p \in Person |-> IF save[p] # NoSave /\ save[p].at = w THEN NoSave ELSE save[p]]
      /\ load' = [l \in Loader |-> IF At(l) = w THEN NoLoad ELSE load[l]]
      /\ UNCHANGED <<account, db, quiet, raced, shared, told>>
  BY DEF Restart
<1>2. AdminTypeOK /\ RowsAllowed
  BY DEF PanelInv
<1>3. \A q \in Person : save'[q] # NoSave => save'[q] = save[q] /\ save[q].at # w
  BY <1>1
<1>4. \A q \in Person : save[q] # NoSave /\ save[q].at # w => save'[q] = save[q]
  BY <1>1
<1>5. /\ \A v \in Process \ {w} : setting'[v] = setting[v] /\ behind'[v] = behind[v]
      /\ setting'[w] = IF read THEN Overlaid(Default, db) ELSE Default
      /\ behind'[w] = IF read THEN {} ELSE Key
  BY <1>1, <1>2 DEF AdminTypeOK
<1>6. AdminTypeOK'
  <2>1. Overlaid(Default, db) \in [Key -> Value] /\ Default \in [Key -> Value]
    BY <1>2, AdministrationAssumption DEF AdminTypeOK, Rows, Overlaid
  <2>2. \A k \in Key : Overlaid(Default, db)[k] \in Allowed[k] \cup {Default[k]}
    BY <1>2 DEF AdminTypeOK, Overlaid
  <2>3. setting' \in [Process -> [Key -> Value]] /\ behind' \in [Process -> SUBSET Key]
    BY <1>1, <1>2, <2>1 DEF AdminTypeOK
  <2>4. \A v \in Process, k \in Key : setting'[v][k] \in Allowed[k] \cup {Default[k]}
    BY <1>2, <1>5, <2>2 DEF AdminTypeOK
  <2>5. save' \in [Person -> Saving \cup {NoSave}] /\ load' \in [Loader -> Rows \cup {NoLoad}]
    BY <1>1, <1>2 DEF AdminTypeOK
  <2> QED
    BY <1>1, <1>2, <2>3, <2>4, <2>5 DEF AdminTypeOK
<1>7. RowsAllowed'
  BY <1>1, <1>2 DEF RowsAllowed
<1>8. ReadIsStored' /\ ToldIsStored'
  BY <1>1, <1>3 DEF PanelInv, ReadIsStored, ToldIsStored, Touched
<1>9. AppliedServes'
  <2> SUFFICES ASSUME NEW q \in Person, save'[q] # NoSave, save'[q].stage = "applied",
                      NEW k \in Touched(save'[q]) \ behind'[save'[q].at], Alone(q, k)'
               PROVE  setting'[save'[q].at][k] = save'[q].form[k]
    BY DEF AppliedServes, Touched
  <2>1. save'[q] = save[q] /\ save[q] # NoSave /\ save[q].at \in Process /\ save[q].at # w
    BY <1>2, <1>3, SaveTyped
  <2>2. Alone(q, k)
    BY <1>3, <1>4, <2>1 DEF Alone, Others, Touched
  <2> QED
    BY <1>5, <2>1, <2>2 DEF PanelInv, AppliedServes
<1>10. ServedAgrees'
  <2> SUFFICES ASSUME NEW v \in Process, NEW k \in Key \ behind'[v], k \notin BeingSet(v)'
               PROVE  setting'[v][k] = Overlaid(Default, db)[k]
    BY <1>1 DEF ServedAgrees, Overlaid
  <2>1. CASE v = w
    BY <1>5, <2>1
  <2>2. CASE v # w
    <3>1. \A u \in Person : save[u] # NoSave /\ save[u].at = v => save'[u] = save[u]
      BY <1>4, <2>2
    <3>2. k \notin BeingSet(v)
      BY <3>1 DEF BeingSet, Touched
    <3> QED
      BY <1>5, <2>2, <3>2 DEF PanelInv, ServedAgrees
  <2> QED
    BY <2>1, <2>2
<1> QED
  BY <1>6, <1>7, <1>8, <1>9, <1>10 DEF PanelInv

LEMMA AdminStepInv == AdminInv /\ [AdminNext]_adminVars => AdminInv'
<1> SUFFICES ASSUME AdminInv, [AdminNext]_adminVars PROVE AdminInv'
  OBVIOUS
<1>1. AccountTyped /\ AccountInv /\ PanelInv
  BY DEF AdminInv, PanelInv, AdminTypeOK, AccountTyped
<1>2. ASSUME NEW p \in Person, Register(p) \/ Registered(p) \/ RegistrationFails(p)
      PROVE  AdminInv'
  BY <1>1, <1>2, RegisterAccounts, AccountStepPanel DEF AdminInv
<1>3. ASSUME NEW p \in Person, NEW w \in Web, NEW f \in Form, Submit(p, w, f)
      PROVE  AdminInv'
  <2>1. UNCHANGED <<account, raced>>
    BY <1>3 DEF Submit
  <2> QED
    BY <1>1, <1>3, <2>1, AccountUnchanged, SubmitPanel DEF AdminInv
<1>4. ASSUME NEW p \in Person, Apply(p) \/ Commit(p) \/ SaveFails(p)
      PROVE  AdminInv'
  <2>1. UNCHANGED <<account, raced>>
    BY <1>4 DEF Apply, Commit, SaveFails
  <2> QED
    BY <1>1, <1>4, <2>1, AccountUnchanged, ApplyPanel, CommitPanel, SaveFailsPanel DEF AdminInv
<1>5. ASSUME NEW l \in Loader, ReadRows(l) \/ ApplyRows(l)
      PROVE  AdminInv'
  <2>1. UNCHANGED <<account, raced>>
    BY <1>5 DEF ReadRows, ApplyRows
  <2> QED
    BY <1>1, <1>5, <2>1, AccountUnchanged, ReadRowsPanel, ApplyRowsPanel DEF AdminInv
<1>6. ASSUME NEW w \in Process, Restart(w)
      PROVE  AdminInv'
  <2>1. UNCHANGED <<account, raced>>
    BY <1>6 DEF Restart
  <2> QED
    BY <1>1, <1>6, <2>1, AccountUnchanged, RestartPanel DEF AdminInv
<1>7. CASE QuietenDown \/ UNCHANGED adminVars
  <2>1. /\ UNCHANGED <<account, db, setting, save, load, raced, shared, behind, told>>
        /\ quiet' \in BOOLEAN
    BY <1>1, <1>7 DEF QuietenDown, adminVars, PanelInv, AdminTypeOK
  <2>2. AdminTypeOK'
    BY <1>1, <2>1 DEF PanelInv, AdminTypeOK
  <2>3. RowsAllowed' /\ ReadIsStored' /\ AppliedServes'
    BY <1>1, <2>1 DEF PanelInv, RowsAllowed, ReadIsStored, AppliedServes,
                      Alone, Others, Touched
  <2>4. ToldIsStored' /\ ServedAgrees'
    BY <1>1, <2>1 DEF PanelInv, ToldIsStored, ServedAgrees, BeingSet, Touched, Overlaid
  <2> QED
    BY <1>1, <2>1, <2>2, <2>3, <2>4, AccountUnchanged DEF AdminInv, PanelInv
<1> QED
  BY <1>2, <1>3, <1>4, <1>5, <1>6, <1>7 DEF AdminNext

LEMMA AdminInductive == AdminSpec => []AdminInv
<1>1. AdminInv /\ [AdminNext]_adminVars => AdminInv'
  BY AdminStepInv
<1> QED
  BY <1>1, AdminInitInv, PTL DEF AdminSpec

\* The state of accounts, rows and processes is of its types: among others, no process
\* ever goes by a value that its key does not allow.
THEOREM AdministrationTyped == AdminSpec => []AdminTypeOK
<1>1. AdminInv => AdminTypeOK
  BY DEF AdminInv, PanelInv
<1> QED
  BY <1>1, AdminInductive, PTL

\* More than one is two at least.
LEMMA TwoOfMany ==
    ASSUME NEW S, Cardinality(S) > 1
    PROVE  \E x, y \in S : x # y
<1>1. SUFFICES ASSUME \A x, y \in S : x = y PROVE FALSE
  OBVIOUS
<1>2. CASE S = {}
  BY <1>2, FS_EmptySet
<1>3. CASE S # {}
  <2>1. PICK x : S = {x}
    BY <1>1, <1>3
  <2>2. Cardinality(S) = 1
    BY <2>1, FS_Singleton
  <2> QED
    BY <2>2
<1> QED
  BY <1>2, <1>3

\* There is an administrator as soon as there is a profile, and one only unless two
\* registrations counted none.
THEOREM FirstRegisteredAdministers == AdminSpec => []FirstAdministers
<1>1. AdminInv => FirstAdministers
  <2> SUFFICES ASSUME AdminInv PROVE FirstAdministers
    OBVIOUS
  <2> USE DEF AdminInv, AccountInv
  <2>1. Profiles # {} => \E p \in Person : account[p] = "admin"
    BY DEF SomebodyAdministers, Profiles
  <2>2. ASSUME Cardinality({p \in Person : account[p] = "admin"}) > 1
        PROVE  raced
    <3>1. PICK x, y \in {p \in Person : account[p] = "admin"} : x # y
      BY <2>2, TwoOfMany
    <3> QED
      BY <3>1 DEF FirstIsOne
  <2> QED
    BY <2>1, <2>2 DEF FirstAdministers
<1> QED
  BY <1>1, AdminInductive, PTL

\* What an administrator was told is saved is what the rows say, on every key no two
\* saves had in hand at once.
THEOREM ToldIsTrue == AdminSpec => []ToldIsStored
<1>1. AdminInv => ToldIsStored
  BY DEF AdminInv, PanelInv
<1> QED
  BY <1>1, AdminInductive, PTL

\* Every process, of any number, goes by the rows, but for what it is being told to and
\* what has happened behind its back since its last load.
THEOREM ServedAgreesWithRows == AdminSpec => []ServedAgrees
<1>1. AdminInv => ServedAgrees
  BY DEF AdminInv, PanelInv
<1> QED
  BY <1>1, AdminInductive, PTL

-----------------------------------------------------------------------------
(* Summaries.                                                              *)

\* Where no two generations crossed, a request that has a story in hand is alone with
\* it, and what it read of the row is the row.
RequestsAlone ==
    \A r \in Reader, s \in Story \ crossed : Asks(r, s) =>
        /\ request[r].copy = row[s]
        /\ ~ Tries(s)
        /\ \A q \in Reader : Asks(q, s) => q = r

\* The trial too.
TrialAlone == \A s \in Story \ crossed : Tries(s) => trial.copy[s] = row[s]

\* No copy knows of a neutral summary the row does not have.
CopiesBehind ==
    /\ \A r \in Reader, s \in Story :
          Asks(r, s) /\ request[r].copy.neutral # NoText => row[s].neutral # NoText
    /\ \A s \in Story :
          Tries(s) /\ trial.copy[s].neutral # NoText => row[s].neutral # NoText

SummaryInv ==
    /\ TypeOK
    /\ RequestsAlone /\ TrialAlone /\ CopiesBehind
    /\ GuardOfARequest /\ GeneratedIsGuarded /\ NeutralOfASummary

LEMMA SummaryInitInv == Init => SummaryInv
<1> SUFFICES ASSUME Init PROVE SummaryInv
  OBVIOUS
<1> USE ConstantAssumption DEF Init, Asks, Tries, Generates
<1>1. TypeOK
  BY DEF TypeOK, Row
<1>2. RequestsAlone /\ TrialAlone /\ CopiesBehind
  BY DEF RequestsAlone, TrialAlone, CopiesBehind
<1>3. GuardOfARequest /\ GeneratedIsGuarded /\ NeutralOfASummary
  BY DEF GuardOfARequest, GeneratedIsGuarded, NeutralOfASummary
<1> QED
  BY <1>1, <1>2, <1>3 DEF SummaryInv

\* A request at work: its story, its language, the row it has read.
LEMMA RequestTyped ==
    ASSUME TypeOK, NEW r \in Reader, request[r] # NoRequest
    PROVE  /\ request[r] \in Request
           /\ request[r].story \in Story /\ request[r].locale \in Locale
           /\ request[r].stage \in Stage /\ request[r].copy \in Row
           /\ request[r].lacks \subseteq Article /\ request[r].stored \subseteq Article
  BY DEF TypeOK, Request

\* What a generation writes is a row with a summary and a neutral one.
LEMMA WrittenRow ==
    ASSUME TypeOK, NEW s \in Story, NEW copy \in Row, NEW l \in Locale,
           copy.neutral # NoText => row[s].neutral # NoText
    PROVE  /\ Written(s, copy, l) \in [Story -> Row]
           /\ Written(s, copy, l)[s].summaries = copy.summaries \cup {l}
           /\ Written(s, copy, l)[s].neutral =
                 IF copy.neutral = NoText THEN l ELSE row[s].neutral
           /\ Written(s, copy, l)[s].neutral # NoText
           /\ \A t \in Story \ {s} : Written(s, copy, l)[t] = row[t]
<1>1. row \in [Story -> Row]
  BY DEF TypeOK
<1> QED
  BY <1>1, ConstantAssumption DEF Written, Row

\* A reader asks: he is alone with the story, or it is marked as crossed.
LEMMA AskInv ==
    ASSUME SummaryInv, NEW r \in Reader, NEW s \in Story, NEW l \in Locale, Ask(r, s, l)
    PROVE  SummaryInv'
<1> DEFINE stage == IF missing[s] = {} THEN "connecting" ELSE "texts"
<1>1. /\ request[r] = NoRequest
      /\ request' = [request EXCEPT ![r] = Opened(s, l)]
      /\ busy' = IF stage = "texts" THEN busy ELSE busy \cup {s}
      /\ crossed' = IF InHand(s) THEN crossed \cup {s} ELSE crossed
      /\ UNCHANGED <<row, missing, trial, calm>>
  BY DEF Ask, Entered
<1>2. TypeOK
  BY DEF SummaryInv
<1>3. row[s] \in Row /\ Opened(s, l) \in Request
  BY <1>2 DEF TypeOK, Opened, Request, Stage
<1>4. /\ request'[r] = Opened(s, l) /\ request'[r] # NoRequest
      /\ \A q \in Reader \ {r} : request'[q] = request[q]
  BY <1>1, <1>2, <1>3, ConstantAssumption DEF TypeOK
<1>5. /\ request'[r].story = s /\ request'[r].copy = row[s] /\ request'[r].stage = stage
      /\ stage \in {"texts", "connecting"}
  BY <1>4 DEF Opened
<1> HIDE DEF stage
<1>6. TypeOK'
  BY <1>1, <1>2, <1>3 DEF TypeOK
<1>7. /\ \A t \in Story : Asks(r, t)' <=> t = s
      /\ \A q \in Reader \ {r}, t \in Story : Asks(q, t)' <=> Asks(q, t)
      /\ \A t \in Story : ~ Asks(r, t)
      /\ \A t \in Story : Tries(t)' <=> Tries(t)
  BY <1>1, <1>4, <1>5 DEF Asks, Tries
<1>8. RequestsAlone'
  <2> SUFFICES ASSUME NEW q \in Reader, NEW t \in Story \ crossed', Asks(q, t)'
               PROVE  /\ request'[q].copy = row[t] /\ ~ Tries(t)
                      /\ \A u \in Reader : Asks(u, t)' => u = q
    BY <1>1, <1>7 DEF RequestsAlone
  <2>1. CASE q = r
    <3>1. t = s /\ ~ InHand(s)
      BY <1>1, <1>7, <2>1
    <3> QED
      BY <1>5, <1>7, <2>1, <3>1 DEF InHand
  <2>2. CASE q # r
    <3>1. t # s /\ Asks(q, t) /\ t \notin crossed
      BY <1>1, <1>7, <2>2 DEF InHand
    <3> QED
      BY <1>4, <1>7, <2>2, <3>1 DEF SummaryInv, RequestsAlone
  <2> QED
    BY <2>1, <2>2
<1>9. TrialAlone'
  BY <1>1, <1>7 DEF SummaryInv, TrialAlone
<1>10. CopiesBehind'
  BY <1>1, <1>4, <1>5, <1>7 DEF SummaryInv, CopiesBehind
<1>11. GuardOfARequest'
  <2> SUFFICES ASSUME NEW t \in busy' PROVE \E q \in Reader : Generates(q, t)'
    BY DEF GuardOfARequest
  <2>1. CASE t \in busy
    <3>1. PICK q \in Reader : Generates(q, t)
      BY <2>1 DEF SummaryInv, GuardOfARequest
    <3>2. q # r
      BY <1>1, <3>1 DEF Generates, Asks
    <3> QED
      BY <1>4, <3>1, <3>2 DEF Generates, Asks
  <2>2. CASE t \notin busy
    <3>1. t = s /\ stage = "connecting"
      BY <1>1, <1>5, <2>2
    <3> QED
      BY <1>4, <1>5, <3>1 DEF Generates, Asks
  <2> QED
    BY <2>1, <2>2
<1>12. GeneratedIsGuarded'
  <2> SUFFICES ASSUME NEW q \in Reader, NEW t \in Story, Generates(q, t)'
               PROVE  t \in busy' \/ t \in crossed'
    BY DEF GeneratedIsGuarded
  <2>1. CASE q = r
    BY <1>1, <1>5, <1>7, <2>1 DEF Generates
  <2>2. CASE q # r
    <3>1. Generates(q, t)
      BY <1>4, <2>2 DEF Generates, Asks
    <3> QED
      BY <1>1, <3>1 DEF SummaryInv, GeneratedIsGuarded
  <2> QED
    BY <2>1, <2>2
<1>13. NeutralOfASummary'
  BY <1>1 DEF SummaryInv, NeutralOfASummary
<1> QED
  BY <1>6, <1>8, <1>9, <1>10, <1>11, <1>12, <1>13 DEF SummaryInv

\* A request downloads a text, or goes from one stage to the next; when it has the texts
\* it enters the guard.
LEMMA StageInv ==
    ASSUME SummaryInv, NEW r \in Reader, StoreText(r) \/ TextsDone(r) \/ Connect(r)
    PROVE  SummaryInv'
<1> DEFINE s == request[r].story
<1>1. TypeOK
  BY DEF SummaryInv
<1>2. request[r] # NoRequest
  BY DEF StoreText, TextsDone, Connect, Downloads
<1>3. request[r] \in Request /\ s \in Story
  BY <1>1, <1>2, RequestTyped
<1>4. /\ request'[r] \in Request /\ request'[r] # NoRequest
      /\ request'[r].story = s /\ request'[r].copy = request[r].copy
      /\ \A q \in Reader \ {r} : request'[q] = request[q]
      /\ request' \in [Reader -> Request \cup {NoRequest}]
      /\ missing' \in [Story -> SUBSET Article]
      /\ \/ busy' = busy /\ (request'[r].stage = "texts" <=> request[r].stage = "texts")
         \/ busy' = busy \cup {s} /\ request'[r].stage # "texts"
      /\ UNCHANGED <<row, trial, calm, crossed>>
  <2>1. CASE StoreText(r)
    <3>1. PICK a \in request[r].lacks :
            request' = [request EXCEPT ![r].lacks = @ \ {a}, ![r].stored = @ \cup {a}]
      BY <2>1 DEF StoreText
    <3>2. request'[r] = [request[r] EXCEPT !.lacks = @ \ {a}, !.stored = @ \cup {a}]
      BY <1>1, <3>1 DEF TypeOK
    <3>3. /\ request'[r] \in Request
          /\ request'[r].story = s /\ request'[r].copy = request[r].copy
          /\ request'[r].stage = request[r].stage
      BY <1>3, <3>2 DEF Request
    <3> QED
      BY <1>1, <2>1, <3>1, <3>3, ConstantAssumption DEF StoreText, TypeOK
  <2>2. CASE TextsDone(r)
    <3>1. request'[r] = [request[r] EXCEPT !.stage = "connecting", !.lacks = {}, !.stored = {}]
      BY <1>1, <2>2 DEF TextsDone, TypeOK
    <3>2. /\ request'[r] \in Request
          /\ request'[r].story = s /\ request'[r].copy = request[r].copy
          /\ request'[r].stage = "connecting"
      BY <1>3, <3>1 DEF Request, Stage
    <3>3. missing' \in [Story -> SUBSET Article]
      BY <1>1, <2>2 DEF TextsDone, TypeOK
    <3> QED
      BY <1>1, <2>2, <3>2, <3>3, ConstantAssumption DEF TextsDone, Entered, TypeOK
  <2>3. CASE Connect(r)
    <3>1. PICK stage \in Stage \ {"texts"} : To(r, stage)
      BY <2>3 DEF Connect, Stage
    <3>2. request'[r] = [request[r] EXCEPT !.stage = stage]
      BY <1>1, <3>1 DEF To, TypeOK
    <3>3. /\ request'[r] \in Request
          /\ request'[r].story = s /\ request'[r].copy = request[r].copy
          /\ request'[r].stage = stage
      BY <1>3, <3>2 DEF Request
    <3> QED
      BY <1>1, <2>3, <3>1, <3>3, ConstantAssumption DEF Connect, To, TypeOK
  <2> QED
    BY <2>1, <2>2, <2>3
<1>5. TypeOK'
  BY <1>1, <1>3, <1>4 DEF TypeOK
<1>6. /\ \A q \in Reader, t \in Story : Asks(q, t)' <=> Asks(q, t)
      /\ \A t \in Story : Tries(t)' <=> Tries(t)
      /\ \A q \in Reader : request'[q].copy = request[q].copy
      /\ \A q \in Reader : \A t : Generates(q, t) => Generates(q, t)'
      /\ \A t \in Story : Generates(r, t)' => t = s /\ (Generates(r, t) \/ t \in busy')
      /\ \A t \in busy' \ busy : t = s /\ Generates(r, t)'
      /\ busy \subseteq busy'
  BY <1>2, <1>4 DEF Asks, Tries, Generates
<1> HIDE DEF s
<1>7. RequestsAlone' /\ TrialAlone' /\ CopiesBehind'
  BY <1>4, <1>6 DEF SummaryInv, RequestsAlone, TrialAlone, CopiesBehind
<1>8. GuardOfARequest'
  <2> SUFFICES ASSUME NEW t \in busy' PROVE \E q \in Reader : Generates(q, t)'
    BY DEF GuardOfARequest
  <2>1. CASE t \in busy
    <3>1. PICK q \in Reader : Generates(q, t)
      BY <2>1 DEF SummaryInv, GuardOfARequest
    <3> QED
      BY <1>6, <3>1
  <2>2. CASE t \notin busy
    BY <1>6, <2>2
  <2> QED
    BY <2>1, <2>2
<1>9. GeneratedIsGuarded'
  <2> SUFFICES ASSUME NEW q \in Reader, NEW t \in Story, Generates(q, t)'
               PROVE  t \in busy' \/ t \in crossed
    BY <1>4 DEF GeneratedIsGuarded
  <2>1. CASE q = r
    <3>1. Generates(r, t)'
      BY <2>1 DEF Generates, Asks
    <3>2. Generates(r, t) => t \in busy \/ t \in crossed
      BY DEF SummaryInv, GeneratedIsGuarded
    <3> QED
      BY <1>6, <3>1, <3>2
  <2>2. CASE q # r
    <3>1. Generates(q, t)
      BY <1>4, <2>2 DEF Generates, Asks
    <3> QED
      BY <1>4, <3>1 DEF SummaryInv, GeneratedIsGuarded
  <2> QED
    BY <2>1, <2>2
<1>10. NeutralOfASummary'
  BY <1>4 DEF SummaryInv, NeutralOfASummary
<1> QED
  BY <1>5, <1>7, <1>8, <1>9, <1>10 DEF SummaryInv

\* A request ends without a word, before or after it entered the guard.
LEMMA FailInv ==
    ASSUME SummaryInv, NEW r \in Reader, TextsFail(r) \/ Fail(r)
    PROVE  SummaryInv'
<1> DEFINE s == request[r].story
<1>1. /\ request[r] # NoRequest /\ request' = [request EXCEPT ![r] = NoRequest]
      /\ busy' = IF request[r].stage = "texts" THEN busy ELSE busy \ {s}
      /\ UNCHANGED <<row, missing, trial, calm, crossed>>
  BY DEF TextsFail, Fail, Downloads, Ends, Released
<1>2. TypeOK
  BY DEF SummaryInv
<1>3. request'[r] = NoRequest /\ \A q \in Reader \ {r} : request'[q] = request[q]
  BY <1>1, <1>2 DEF TypeOK
<1>4. TypeOK'
  BY <1>1, <1>2 DEF TypeOK
<1>5. /\ \A q \in Reader : \A t : Asks(q, t)' <=> q # r /\ Asks(q, t)
      /\ \A q \in Reader : \A t : Generates(q, t)' <=> q # r /\ Generates(q, t)
      /\ \A t : Tries(t)' <=> Tries(t)
  BY <1>1, <1>3 DEF Asks, Tries, Generates
<1>6. RequestsAlone' /\ TrialAlone' /\ CopiesBehind'
  BY <1>1, <1>3, <1>5 DEF SummaryInv, RequestsAlone, TrialAlone, CopiesBehind
<1>7. Asks(r, s) /\ \A t : Generates(r, t) => t = s /\ request[r].stage # "texts"
  BY <1>1 DEF Asks, Generates
<1> HIDE DEF s
<1>8. GuardOfARequest'
  BY <1>1, <1>5, <1>7 DEF SummaryInv, GuardOfARequest
<1>9. GeneratedIsGuarded'
  <2> SUFFICES ASSUME NEW q \in Reader, NEW t \in Story, Generates(q, t)'
               PROVE  t \in busy' \/ t \in crossed
    BY <1>1 DEF GeneratedIsGuarded
  <2>1. q # r /\ Generates(q, t) /\ Asks(q, t)
    BY <1>5 DEF Generates
  <2>2. t = s => t \in crossed
    BY <1>7, <2>1 DEF SummaryInv, RequestsAlone
  <2> QED
    BY <1>1, <2>1, <2>2 DEF SummaryInv, GeneratedIsGuarded
<1>10. NeutralOfASummary'
  BY <1>1 DEF SummaryInv, NeutralOfASummary
<1> QED
  BY <1>4, <1>6, <1>8, <1>9, <1>10 DEF SummaryInv

\* What a request saves: the row it was alone with, and its summary.
LEMMA SaveWrites ==
    ASSUME SummaryInv, NEW r \in Reader, Save(r)
    PROVE  /\ request[r] # NoRequest /\ Asks(r, request[r].story)
           /\ request[r].story \in Story
           /\ row' \in [Story -> Row]
           /\ \A t \in Story \ {request[r].story} : row'[t] = row[t]
           /\ LET s == request[r].story
              IN  /\ row'[s].summaries # {} /\ row'[s].neutral # NoText
                  /\ s \notin crossed =>
                        /\ row[s].summaries \subseteq row'[s].summaries
                        /\ row[s].neutral # NoText => row'[s].neutral = row[s].neutral
<1> DEFINE s == request[r].story
           c == request[r].copy
           l == request[r].locale
<1>1. request[r] # NoRequest /\ row' = Written(s, c, l)
  BY DEF Save
<1>2. TypeOK /\ s \in Story /\ c \in Row /\ l \in Locale
  BY <1>1, RequestTyped DEF SummaryInv
<1>3. Asks(r, s)
  BY <1>1 DEF Asks
<1>4. c.neutral # NoText => row[s].neutral # NoText
  BY <1>2, <1>3 DEF SummaryInv, CopiesBehind
<1>5. s \notin crossed => c = row[s]
  BY <1>2, <1>3 DEF SummaryInv, RequestsAlone
<1> HIDE DEF s, c, l
<1>6. /\ row' \in [Story -> Row]
      /\ row'[s].summaries = c.summaries \cup {l}
      /\ row'[s].neutral = IF c.neutral = NoText THEN l ELSE row[s].neutral
      /\ row'[s].neutral # NoText
      /\ \A t \in Story \ {s} : row'[t] = row[t]
  BY <1>1, <1>2, <1>4, WrittenRow
<1> QED
  BY <1>1, <1>2, <1>3, <1>5, <1>6 DEF s

\* A request saves its summary and leaves the guard.
LEMMA SaveInv ==
    ASSUME SummaryInv, NEW r \in Reader, Save(r)
    PROVE  SummaryInv'
<1> DEFINE s == request[r].story
<1>1. /\ request' = [request EXCEPT ![r] = NoRequest] /\ busy' = busy \ {s}
      /\ UNCHANGED <<missing, trial, calm, crossed>>
  BY DEF Save, Ends, Released
<1>2. TypeOK
  BY DEF SummaryInv
<1>3. /\ Asks(r, s) /\ s \in Story
      /\ row' \in [Story -> Row] /\ \A t \in Story \ {s} : row'[t] = row[t]
      /\ row'[s].summaries # {} /\ row'[s].neutral # NoText
  BY SaveWrites
<1>4. request'[r] = NoRequest /\ \A q \in Reader \ {r} : request'[q] = request[q]
  BY <1>1, <1>2 DEF TypeOK
<1>5. TypeOK'
  BY <1>1, <1>2, <1>3 DEF TypeOK
<1>6. /\ \A q \in Reader : \A t : Asks(q, t)' <=> q # r /\ Asks(q, t)
      /\ \A q \in Reader : \A t : Generates(q, t)' <=> q # r /\ Generates(q, t)
      /\ \A t : Tries(t)' <=> Tries(t)
  BY <1>1, <1>4 DEF Asks, Tries, Generates
<1>7. \A t : Generates(r, t) => t = s
  BY DEF Asks, Generates
<1> HIDE DEF s
<1>8. RequestsAlone'
  <2> SUFFICES ASSUME NEW q \in Reader, NEW t \in Story \ crossed, Asks(q, t)'
               PROVE  /\ request'[q].copy = row'[t] /\ ~ Tries(t)
                      /\ \A u \in Reader : Asks(u, t)' => u = q
    BY <1>1, <1>6 DEF RequestsAlone
  <2>1. q # r /\ Asks(q, t)
    BY <1>6
  <2>2. request[q].copy = row[t] /\ ~ Tries(t) /\ \A u \in Reader : Asks(u, t) => u = q
    BY <2>1 DEF SummaryInv, RequestsAlone
  <2>3. t # s
    BY <1>3, <2>1, <2>2
  <2> QED
    BY <1>3, <1>4, <1>6, <2>1, <2>2, <2>3
<1>9. TrialAlone'
  <2> SUFFICES ASSUME NEW t \in Story \ crossed, Tries(t) PROVE trial.copy[t] = row'[t]
    BY <1>1, <1>6 DEF TrialAlone
  <2>1. t # s
    BY <1>3 DEF SummaryInv, RequestsAlone
  <2> QED
    BY <1>3, <2>1 DEF SummaryInv, TrialAlone
<1>10. \A t \in Story : row[t].neutral # NoText => row'[t].neutral # NoText
  BY <1>3
<1>11. CopiesBehind'
  BY <1>1, <1>4, <1>6, <1>10 DEF SummaryInv, CopiesBehind
<1>12. GuardOfARequest'
  BY <1>1, <1>6, <1>7 DEF SummaryInv, GuardOfARequest
<1>13. GeneratedIsGuarded'
  <2> SUFFICES ASSUME NEW q \in Reader, NEW t \in Story, Generates(q, t)'
               PROVE  t \in busy' \/ t \in crossed
    BY <1>1 DEF GeneratedIsGuarded
  <2>1. q # r /\ Generates(q, t) /\ Asks(q, t)
    BY <1>6 DEF Generates
  <2>2. t = s => t \in crossed
    BY <1>3, <2>1 DEF SummaryInv, RequestsAlone
  <2> QED
    BY <1>1, <2>1, <2>2 DEF SummaryInv, GeneratedIsGuarded
<1>14. NeutralOfASummary'
  BY <1>3 DEF SummaryInv, NeutralOfASummary
<1> QED
  BY <1>5, <1>8, <1>9, <1>11, <1>12, <1>13, <1>14 DEF SummaryInv

\* The trial takes up to TrialLimit stories; those readers have in hand are crossed.
LEMMA StartTrialInv ==
    ASSUME SummaryInv, NEW l \in Locale, StartTrial(l)
    PROVE  SummaryInv'
<1>1. PICK todo \in SUBSET Needing :
         /\ trial' = [locale |-> l, todo |-> todo, done |-> {}, copy |-> row]
         /\ crossed' = crossed \cup {s \in todo : InHand(s)}
         /\ trial = NoTrial
         /\ UNCHANGED <<row, missing, request, busy, calm>>
  BY DEF StartTrial
<1>2. TypeOK
  BY DEF SummaryInv
<1>3. todo \subseteq Story /\ trial' \in Trying /\ trial' # NoTrial
  BY <1>1, <1>2, ConstantAssumption DEF TypeOK, Needing, Trying
<1>4. TypeOK'
  BY <1>1, <1>2, <1>3 DEF TypeOK
<1>5. /\ \A q \in Reader : \A t : (Asks(q, t)' <=> Asks(q, t)) /\ (Generates(q, t)' <=> Generates(q, t))
      /\ \A t : Tries(t)' <=> t \in todo
      /\ \A t : ~ Tries(t)
  BY <1>1, <1>3 DEF Asks, Generates, Tries
<1>6. RequestsAlone'
  <2> SUFFICES ASSUME NEW q \in Reader, NEW t \in Story \ crossed', Asks(q, t)
               PROVE  /\ request[q].copy = row[t] /\ t \notin todo
                      /\ \A u \in Reader : Asks(u, t) => u = q
    BY <1>1, <1>5 DEF RequestsAlone
  <2>1. t \notin todo /\ t \notin crossed
    BY <1>1 DEF InHand
  <2> QED
    BY <2>1 DEF SummaryInv, RequestsAlone
<1>7. TrialAlone' /\ CopiesBehind'
  BY <1>1, <1>5 DEF SummaryInv, TrialAlone, CopiesBehind
<1>8. GuardOfARequest' /\ GeneratedIsGuarded' /\ NeutralOfASummary'
  BY <1>1, <1>5 DEF SummaryInv, GuardOfARequest, GeneratedIsGuarded, NeutralOfASummary
<1> QED
  BY <1>4, <1>6, <1>7, <1>8 DEF SummaryInv

\* The trial goes on, or is lost: it has fewer stories in hand.
LEMMA TryInv ==
    ASSUME SummaryInv, TryNext \/ FailTrial
    PROVE  SummaryInv'
<1>1. /\ trial # NoTrial /\ UNCHANGED <<row, missing, request, busy, calm, crossed>>
      /\ \/ trial' = NoTrial
         \/ \E s \in trial.todo, made \in BOOLEAN :
               trial' = [trial EXCEPT !.todo = @ \ {s}, !.done = IF made THEN @ \cup {s} ELSE @]
  BY DEF TryNext, FailTrial
<1>2. TypeOK /\ trial \in Trying /\ trial.todo \cap trial.done = {}
  BY <1>1 DEF SummaryInv, TypeOK
<1>3. /\ trial' \in Trying \cup {NoTrial}
      /\ trial' # NoTrial => /\ trial'.copy = trial.copy /\ trial'.todo \cap trial'.done = {}
                             /\ trial'.todo \cup trial'.done \subseteq trial.todo \cup trial.done
  <2>1. CASE trial' = NoTrial
    BY <2>1
  <2>2. ASSUME NEW s \in trial.todo, NEW made \in BOOLEAN,
               trial' = [trial EXCEPT !.todo = @ \ {s}, !.done = IF made THEN @ \cup {s} ELSE @]
        PROVE  /\ trial' \in Trying /\ trial'.copy = trial.copy
               /\ trial'.todo = trial.todo \ {s}
               /\ trial'.done = IF made THEN trial.done \cup {s} ELSE trial.done
    BY <1>2, <2>2 DEF Trying
  <2> QED
    BY <1>1, <1>2, <2>1, <2>2
<1>4. TypeOK'
  BY <1>1, <1>2, <1>3 DEF TypeOK
<1>5. /\ \A q \in Reader : \A t : (Asks(q, t)' <=> Asks(q, t)) /\ (Generates(q, t)' <=> Generates(q, t))
      /\ \A t : Tries(t)' => Tries(t) /\ trial'.copy = trial.copy
  BY <1>1, <1>3 DEF Asks, Generates, Tries
<1>6. RequestsAlone' /\ TrialAlone' /\ CopiesBehind'
  BY <1>1, <1>5 DEF SummaryInv, RequestsAlone, TrialAlone, CopiesBehind
<1>7. GuardOfARequest' /\ GeneratedIsGuarded' /\ NeutralOfASummary'
  BY <1>1, <1>5 DEF SummaryInv, GuardOfARequest, GeneratedIsGuarded, NeutralOfASummary
<1> QED
  BY <1>4, <1>6, <1>7 DEF SummaryInv

\* What the trial writes: its stories, each of which it was alone with.
LEMMA EndTrialWrites ==
    ASSUME SummaryInv, EndTrial
    PROVE  /\ row' \in [Story -> Row]
           /\ \A s \in Story :
                 \/ row'[s] = row[s]
                 \/ /\ Tries(s) /\ row'[s].summaries # {} /\ row'[s].neutral # NoText
                    /\ s \notin crossed =>
                          /\ row[s].summaries \subseteq row'[s].summaries
                          /\ row[s].neutral # NoText => row'[s].neutral = row[s].neutral
<1>1. /\ trial # NoTrial
      /\ row' = [s \in Story |-> IF s \in trial.done
                                 THEN Written(s, trial.copy[s], trial.locale)[s] ELSE row[s]]
  BY DEF EndTrial
<1>2. TypeOK /\ row \in [Story -> Row] /\ trial \in Trying
  BY <1>1 DEF SummaryInv, TypeOK
<1>3. trial.locale \in Locale /\ trial.done \subseteq Story /\ \A s \in Story : trial.copy[s] \in Row
  BY <1>2 DEF Trying
<1>4. ASSUME NEW s \in trial.done
      PROVE  /\ Tries(s) /\ s \in Story
             /\ trial.copy[s].neutral # NoText => row[s].neutral # NoText
             /\ s \notin crossed => trial.copy[s] = row[s]
  BY <1>1, <1>3 DEF Tries, SummaryInv, CopiesBehind, TrialAlone
<1>5. ASSUME NEW s \in trial.done
      PROVE  /\ row'[s] \in Row /\ row'[s].summaries = trial.copy[s].summaries \cup {trial.locale}
             /\ row'[s].neutral = IF trial.copy[s].neutral = NoText THEN trial.locale ELSE row[s].neutral
             /\ row'[s].neutral # NoText
  <2>1. row'[s] = Written(s, trial.copy[s], trial.locale)[s]
    BY <1>1, <1>4
  <2> QED
    BY <1>2, <1>3, <1>4, <2>1, WrittenRow
<1>6. \A s \in Story : s \notin trial.done => row'[s] = row[s]
  BY <1>1
<1>7. row' \in [Story -> Row]
  BY <1>1, <1>2, <1>5
<1> QED
  BY <1>4, <1>5, <1>6, <1>7

LEMMA EndTrialInv ==
    ASSUME SummaryInv, EndTrial
    PROVE  SummaryInv'
<1>1. trial' = NoTrial /\ UNCHANGED <<missing, request, busy, calm, crossed>>
  BY DEF EndTrial
<1>2. /\ row' \in [Story -> Row]
      /\ \A s \in Story : \/ row'[s] = row[s]
                          \/ Tries(s) /\ row'[s].summaries # {} /\ row'[s].neutral # NoText
  BY EndTrialWrites
<1>3. TypeOK'
  BY <1>1, <1>2 DEF SummaryInv, TypeOK
<1>4. /\ \A q \in Reader : \A t : (Asks(q, t)' <=> Asks(q, t)) /\ (Generates(q, t)' <=> Generates(q, t))
      /\ \A t : ~ Tries(t)'
  BY <1>1 DEF Asks, Generates, Tries
<1>5. RequestsAlone'
  <2> SUFFICES ASSUME NEW q \in Reader, NEW t \in Story \ crossed, Asks(q, t)
               PROVE  /\ request[q].copy = row'[t]
                      /\ \A u \in Reader : Asks(u, t) => u = q
    BY <1>1, <1>4 DEF RequestsAlone
  <2>1. request[q].copy = row[t] /\ ~ Tries(t) /\ \A u \in Reader : Asks(u, t) => u = q
    BY DEF SummaryInv, RequestsAlone
  <2> QED
    BY <1>2, <2>1
<1>6. TrialAlone' /\ CopiesBehind'
  BY <1>1, <1>2, <1>4 DEF SummaryInv, TrialAlone, CopiesBehind
<1>7. GuardOfARequest' /\ GeneratedIsGuarded'
  BY <1>1, <1>4 DEF SummaryInv, GuardOfARequest, GeneratedIsGuarded
<1>8. NeutralOfASummary'
  BY <1>2 DEF SummaryInv, NeutralOfASummary
<1> QED
  BY <1>3, <1>5, <1>6, <1>7, <1>8 DEF SummaryInv

LEMMA SummaryStepInv == SummaryInv /\ [Next]_vars => SummaryInv'
<1> SUFFICES ASSUME SummaryInv, [Next]_vars PROVE SummaryInv'
  OBVIOUS
<1>1. CASE \E r \in Reader, s \in Story, l \in Locale : Ask(r, s, l)
  BY <1>1, AskInv
<1>2. CASE \E r \in Reader : StoreText(r) \/ TextsDone(r) \/ Connect(r)
  BY <1>2, StageInv
<1>3. CASE \E r \in Reader : TextsFail(r) \/ Fail(r)
  BY <1>3, FailInv
<1>4. CASE \E r \in Reader : Save(r)
  BY <1>4, SaveInv
<1>5. CASE (\E l \in Locale : StartTrial(l)) \/ TryNext \/ EndTrial \/ FailTrial
  BY <1>5, StartTrialInv, TryInv, EndTrialInv
<1>6. CASE (\E s \in Story : ArticlesChange(s)) \/ CalmDown \/ UNCHANGED vars
  <2>1. UNCHANGED <<row, request, trial, busy, crossed>> /\ calm' \in BOOLEAN
    BY <1>6 DEF ArticlesChange, CalmDown, vars, SummaryInv, TypeOK
  <2>2. missing' \in [Story -> SUBSET Article]
    <3>1. ASSUME NEW s \in Story, ArticlesChange(s) PROVE missing' \in [Story -> SUBSET Article]
      BY <3>1, ConstantAssumption DEF ArticlesChange, SummaryInv, TypeOK
    <3> QED
      BY <1>6, <3>1 DEF CalmDown, vars, SummaryInv, TypeOK
  <2>3. TypeOK' /\ RequestsAlone' /\ TrialAlone' /\ CopiesBehind'
    BY <2>1, <2>2 DEF SummaryInv, TypeOK, RequestsAlone, TrialAlone, CopiesBehind, Asks, Tries
  <2>4. GuardOfARequest' /\ GeneratedIsGuarded' /\ NeutralOfASummary'
    BY <2>1 DEF SummaryInv, GuardOfARequest, GeneratedIsGuarded, NeutralOfASummary, Generates, Asks
  <2> QED
    BY <2>3, <2>4 DEF SummaryInv
<1> QED
  BY <1>1, <1>2, <1>3, <1>4, <1>5, <1>6 DEF Next

LEMMA SummaryInductive == Spec => []SummaryInv
<1> QED
  BY SummaryInitInv, SummaryStepInv, PTL DEF Spec

\* Rows, missing texts, requests, trial and guard are of their types.
THEOREM SummariesTyped == Spec => []TypeOK
<1>1. SummaryInv => TypeOK
  BY DEF SummaryInv
<1> QED
  BY <1>1, SummaryInductive, PTL

\* Nobody is kept out of a story but by a request that is being answered.
THEOREM GuardIsOfARequest == Spec => []GuardOfARequest
<1>1. SummaryInv => GuardOfARequest
  BY DEF SummaryInv
<1> QED
  BY <1>1, SummaryInductive, PTL

\* What is being generated is in the guard, or has been generated twice at once.
THEOREM GuardIsHeld == Spec => []GeneratedIsGuarded
<1>1. SummaryInv => GeneratedIsGuarded
  BY DEF SummaryInv
<1> QED
  BY <1>1, SummaryInductive, PTL

\* The neutral summary is there as soon as any is, whatever requests and trials write
\* over each other.
THEOREM NeutralWithTheFirst == Spec => []NeutralOfASummary
<1>1. SummaryInv => NeutralOfASummary
  BY DEF SummaryInv
<1> QED
  BY <1>1, SummaryInductive, PTL

\* Summaries stay, but where two generations of a story overlapped.
THEOREM SummariesStay == Spec => SummaryForGood
<1> DEFINE Kept ==
      \A s \in Story \ crossed' :
          /\ row[s].summaries \subseteq row'[s].summaries
          /\ row[s].neutral # NoText => row'[s].neutral = row[s].neutral
<1>1. SummaryInv /\ [Next]_vars => [Kept]_vars
  <2> SUFFICES ASSUME SummaryInv, Next PROVE Kept
    OBVIOUS
  <2>1. CASE \E r \in Reader : Save(r)
    <3>1. PICK r \in Reader : Save(r)
      BY <2>1
    <3>2. crossed' = crossed
      BY <3>1 DEF Save, Ends
    <3> QED
      BY <3>1, <3>2, SaveWrites
  <2>2. CASE EndTrial
    <3>1. crossed' = crossed
      BY <2>2 DEF EndTrial
    <3> QED
      BY <2>2, <3>1, EndTrialWrites
  <2>3. CASE ~ EndTrial /\ ~ \E r \in Reader : Save(r)
    <3>1. UNCHANGED row
      BY <2>3 DEF Next, Ask, StoreText, TextsDone, TextsFail, Connect, Fail, ArticlesChange,
                  StartTrial, TryNext, FailTrial, CalmDown
    <3> QED
      BY <3>1
  <2> QED
    BY <2>1, <2>2, <2>3
<1> QED
  BY <1>1, SummaryInductive, PTL DEF Spec, SummaryForGood
=============================================================================
