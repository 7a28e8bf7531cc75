--------------------------- MODULE Administration ---------------------------
(***************************************************************************)
(* Who administers an instance, what they set, and what each process goes  *)
(* by (routers/annotate.py, routers/settings_panel.py,                     *)
(* core/runtime_settings.py).                                              *)
(*                                                                         *)
(* Every process keeps its Settings: the environment's values overlaid     *)
(* with the rows of app_settings.  A save applies the form to the process  *)
(* that serves it before anything is written.  The rows are read again by  *)
(* every page (routers/pages.py), for the process that serves it, and by   *)
(* the job of a scheduler every five minutes, for its own; what was read   *)
(* is applied later, whatever happened meanwhile.  A row is inserted or    *)
(* updated according to what the save had read: an insert where a row has  *)
(* appeared meanwhile is refused, a value equal to the one read is not     *)
(* written.                                                                *)
(***************************************************************************)
EXTENDS FiniteSets, Naturals

CONSTANTS
    Person, Key, Value,
    Allowed,            \* Allowed[k]: what the parser of k accepts
    Default,            \* Default[k]: the environment's value
    Form,               \* bound: the forms submitted; what is not parsed is Blank
    Web, Scheduled,     \* processes that serve pages; that have a scheduler
    Page, ServedBy,     \* bound: the pages being served at once; ServedBy[g]: by whom
    Personal,           \* personal mode: whoever is there administers
    Blank, NoRow, NoSave, NoLoad

Process == Web \cup Scheduled
Loader == Page \cup Scheduled      \* a scheduler runs its job once at a time
At(l) == IF l \in Page THEN ServedBy[l] ELSE l
Rows == [Key -> Value \cup {NoRow}]
Saving == [at : Web, form : Form, read : Rows, stage : {"reading", "applied"}]
Account == {"none", "counting", "first", "later", "reader", "admin"}

ASSUME AdministrationAssumption ==
    /\ Allowed \in [Key -> SUBSET Value] /\ Default \in [Key -> Value]
    /\ Blank \notin Value /\ NoRow \notin Value /\ Personal \in BOOLEAN
    /\ \A f \in Form, k \in Key : f[k] \in Allowed[k] \cup {Blank}
    /\ Page \cap Process = {} /\ ServedBy \in [Page -> Web]
    /\ NoSave \notin Saving /\ NoLoad \notin Rows

VARIABLES
    account,    \* account[p]: of a person; while registering, what was counted
    db,         \* the rows of app_settings
    setting,    \* setting[w]: the Settings of a process
    save,       \* save[p]: the form a person has submitted
    load,       \* load[l]: the rows a page or a job has read and not applied
    quiet,      \* nobody submits any more, nothing fails
    raced,      \* history: two registrations counted none
    shared,     \* history: keys two saves had in hand when one was committed
    behind,     \* history: behind[w]: keys on which w may differ from the rows
    told        \* history: what the last save that succeeded said of each key

adminVars == <<account, db, setting, save, load, quiet, raced, shared, behind, told>>

AdminTypeOK ==
    /\ account \in [Person -> Account]
    /\ db \in Rows /\ \A k \in Key : db[k] \in Allowed[k] \cup {NoRow}
    /\ setting \in [Process -> [Key -> Value]]
    /\ \A w \in Process, k \in Key : setting[w][k] \in Allowed[k] \cup {Default[k]}
    /\ save \in [Person -> Saving \cup {NoSave}]
    /\ load \in [Loader -> Rows \cup {NoLoad}]
    /\ quiet \in BOOLEAN /\ raced \in BOOLEAN
    /\ shared \subseteq Key /\ behind \in [Process -> SUBSET Key] /\ told \in Rows

\* A variant of Overlaid that never looks at the rows.
OverlaidNever(values, rows) == values

Overlaid(values, rows) == [k \in Key |-> IF rows[k] = NoRow THEN values[k] ELSE rows[k]]

AdminInit ==
    /\ account = [p \in Person |-> "none"]
    /\ db = [k \in Key |-> NoRow]
    /\ setting = [w \in Process |-> Default]
    /\ save = [p \in Person |-> NoSave]
    /\ load = [l \in Loader |-> NoLoad]
    /\ quiet = FALSE /\ raced = FALSE
    /\ shared = {} /\ behind = [w \in Process |-> {}]
    /\ told = db

-----------------------------------------------------------------------------
(* Registration: the profiles are counted, then the new one is committed.  *)

Profiles == {p \in Person : account[p] \in {"reader", "admin"}}

\* A variant of IsFirst that counts after the new profile is added.
IsFirstOfOne(p) == Cardinality(Profiles \cup {p}) = 0

IsFirst(p) == Profiles = {}

Register(p) ==
    /\ account[p] = "none"
    /\ account' = [account EXCEPT ![p] = IF IsFirst(p) THEN "first" ELSE "later"]
    /\ raced' = (raced \/ (IsFirst(p) /\ \E q \in Person : account[q] = "first"))
    /\ UNCHANGED <<db, setting, save, load, quiet, shared, behind, told>>

Registered(p) ==
    /\ account[p] \in {"first", "later"}
    /\ account' = [account EXCEPT ![p] = IF @ = "first" THEN "admin" ELSE "reader"]
    /\ UNCHANGED <<db, setting, save, load, quiet, raced, shared, behind, told>>

RegistrationFails(p) ==
    /\ account[p] \in {"first", "later"} /\ ~ quiet
    /\ account' = [account EXCEPT ![p] = "none"]
    /\ UNCHANGED <<db, setting, save, load, quiet, raced, shared, behind, told>>

-----------------------------------------------------------------------------
(* Saving the panel.                                                       *)

MayAdministrate(p) == Personal \/ account[p] = "admin"

Submit(p, w, f) ==
    /\ save[p] = NoSave /\ ~ quiet
    /\ MayAdministrate(p)
    /\ save' = [save EXCEPT ![p] = [at |-> w, form |-> f, read |-> db, stage |-> "reading"]]
    /\ UNCHANGED <<account, db, setting, load, quiet, raced, shared, behind, told>>

Touched(s) == {k \in Key : s.form[k] # Blank}
Others(p) == {q \in Person \ {p} : save[q] # NoSave}
Shared(p) == UNION {Touched(save[p]) \cap Touched(save[q]) : q \in Others(p)}

\* Keys a save has applied to a process and not yet written.
BeingSet(w) ==
    UNION {Touched(save[p]) : p \in {q \in Person : save[q] # NoSave /\ save[q].at = w
                                                    /\ save[q].stage = "applied"}}

\* Fields left empty, or refused, keep what they have.
Applied(values, form) == [k \in Key |-> IF form[k] = Blank THEN values[k] ELSE form[k]]

Apply(p) ==
    /\ save[p] # NoSave /\ save[p].stage = "reading"
    /\ setting' = [setting EXCEPT ![save[p].at] = Applied(@, save[p].form)]
    /\ save' = [save EXCEPT ![p].stage = "applied"]
    /\ UNCHANGED <<account, db, load, quiet, raced, shared, behind, told>>

\* A row that had been inserted meanwhile violates the primary key.
Conflicts(s) == \E k \in Touched(s) : s.read[k] = NoRow /\ db[k] # NoRow

\* A variant of RowsWritten that writes every field the page showed.
RowsWrittenWhole(s) == Applied(Overlaid(Default, s.read), s.form)

RowsWritten(s) ==
    [k \in Key |-> IF k \in Touched(s) /\ s.form[k] # s.read[k] THEN s.form[k] ELSE db[k]]

Commit(p) ==
    LET s == save[p]
    IN  /\ s # NoSave /\ s.stage = "applied"
        /\ ~ Conflicts(s)
        /\ db' = RowsWritten(s)
        /\ save' = [save EXCEPT ![p] = NoSave]
        /\ told' = Applied(told, s.form)
        /\ shared' = shared \cup Shared(p)
        /\ behind' = [w \in Process |->
              behind[w] \cup IF w = s.at THEN Touched(s) \cap shared' ELSE Touched(s)]
        /\ UNCHANGED <<account, setting, load, quiet, raced>>

\* Rolled back; what was applied stays.
SaveFails(p) ==
    /\ save[p] # NoSave /\ save[p].stage = "applied"
    /\ Conflicts(save[p]) \/ ~ quiet
    /\ save' = [save EXCEPT ![p] = NoSave]
    /\ behind' = [behind EXCEPT ![save[p].at] = @ \cup Touched(save[p])]
    /\ UNCHANGED <<account, db, setting, load, quiet, raced, shared, told>>

-----------------------------------------------------------------------------
(* Loading the rows.                                                       *)

\* A variant of ReadRows that looks for rows until some have been applied.
ReadRowsOnce(l) ==
    /\ load[l] = NoLoad
    /\ load' = [load EXCEPT ![l] = IF setting[At(l)] = Default THEN db
                                   ELSE [k \in Key |-> NoRow]]
    /\ UNCHANGED <<account, db, setting, save, quiet, raced, shared, behind, told>>

\* A reading that fails is caught, and changes nothing.
ReadRows(l) ==
    /\ load[l] = NoLoad
    /\ load' = [load EXCEPT ![l] = db]
    /\ UNCHANGED <<account, db, setting, save, quiet, raced, shared, behind, told>>

\* A variant of Loaded that applies the rows to the environment's values only.
LoadedOnce(w, rows) ==
    [k \in Key |-> IF setting[w][k] = Default[k] THEN Overlaid(Default, rows)[k]
                   ELSE setting[w][k]]

\* Rows that are not there leave what was applied.
Loaded(w, rows) == Overlaid(setting[w], rows)

\* What a process is brought up to date with, and what it is set back to: rows that
\* have changed since they were read, and what a save has applied and not yet written.
UpToDate(rows) == {k \in Key : rows[k] = db[k] /\ rows[k] # NoRow}
SetBack(w, rows) == {k \in Key : rows[k] # db[k]} \cup BeingSet(w)

ApplyRows(l) ==
    LET w == At(l)
    IN  /\ load[l] # NoLoad
        /\ setting' = [setting EXCEPT ![w] = Loaded(w, load[l])]
        /\ load' = [load EXCEPT ![l] = NoLoad]
        /\ behind' = [behind EXCEPT ![w] = (@ \ UpToDate(load[l])) \cup SetBack(w, load[l])]
        /\ UNCHANGED <<account, db, save, quiet, raced, shared, told>>

\* A process is started again; what it was doing is lost.  One that serves pages reads
\* the rows before it does; if it cannot, and in a worker, whose first job comes later,
\* the environment's values hold.
Restart(w) ==
    /\ ~ quiet
    /\ \E read \in IF w \in Web THEN BOOLEAN ELSE {FALSE} :
          /\ setting' = [setting EXCEPT ![w] = IF read THEN Overlaid(Default, db) ELSE Default]
          /\ behind' = [behind EXCEPT ![w] = IF read THEN {} ELSE Key]
    /\ save' = [p \in Person |-> IF save[p] # NoSave /\ save[p].at = w THEN NoSave ELSE save[p]]
    /\ load' = [l \in Loader |-> IF At(l) = w THEN NoLoad ELSE load[l]]
    /\ UNCHANGED <<account, db, quiet, raced, shared, told>>

QuietenDown ==
    /\ ~ quiet /\ quiet' = TRUE
    /\ UNCHANGED <<account, db, setting, save, load, raced, shared, behind, told>>

AdminNext ==
    \/ \E p \in Person :
          \/ Register(p) \/ Registered(p) \/ RegistrationFails(p)
          \/ \E w \in Web, f \in Form : Submit(p, w, f)
          \/ Apply(p) \/ Commit(p) \/ SaveFails(p)
    \/ \E l \in Loader : ReadRows(l) \/ ApplyRows(l)
    \/ \E w \in Process : Restart(w)
    \/ QuietenDown

AdminSpec == AdminInit /\ [][AdminNext]_adminVars

\* Requests are answered, the scheduler reads the rows again and again; nobody need
\* ask for a page.
AdminFairSpec ==
    /\ AdminSpec
    /\ WF_adminVars(QuietenDown)
    /\ \A p \in Person : WF_adminVars(Apply(p) \/ Commit(p) \/ SaveFails(p))
    /\ \A l \in Page : WF_adminVars(ApplyRows(l))
    /\ \A l \in Scheduled : WF_adminVars(ReadRows(l) \/ ApplyRows(l))

-----------------------------------------------------------------------------
(* Safety.                                                                 *)

\* An instance with profiles has an administrator, whoever registered at once
\* and failed, and one only unless two counted none.
FirstAdministers ==
    /\ Profiles # {} => \E p \in Person : account[p] = "admin"
    /\ Cardinality({p \in Person : account[p] = "admin"}) > 1 => raced

\* What the administrators were last told is saved is what the rows say, although
\* saves overlap on other keys, fail or lose their process.
ToldIsStored == \A k \in Key \ shared : db[k] = told[k]

\* A process goes by the rows, and by the environment's values where there are none,
\* however saves and loads in all the processes follow one another; but for the keys
\* a save is setting there, and those on which, since it last loaded a row that was
\* still the one stored, it was set back by an older one, another process saved, a
\* save of its own failed or crossed another, or it started without the rows.
ServedAgrees ==
    \A w \in Process : \A k \in Key \ (behind[w] \cup BeingSet(w)) :
        setting[w][k] = Overlaid(Default, db)[k]

(* Liveness.                                                               *)

Follows(w) == \A k \in Key : db[k] # NoRow => setting[w][k] = db[k]
ReadAt(w) == \E l \in Loader : At(l) = w /\ ReadRows(l)

\* What is saved reaches every process, whichever served the save and whatever was
\* being read meanwhile: those with a scheduler by themselves, those that only serve
\* pages if they are asked for pages again and again.
EveryProcessFollows ==
    /\ \A w \in Scheduled : <>[]Follows(w)
    /\ \A w \in Web : []<><<ReadAt(w)>>_adminVars => <>[]Follows(w)
=============================================================================
