----------------------------- MODULE ConfigTui -----------------------------
(***************************************************************************)
(* The provider configuration and `memeloop config'.                       *)
(*                                                                         *)
(* The files: memeloop-cli.yaml of the working directory, the one of the   *)
(* home directory it hides, and the API keys of auth.yaml.  The operators  *)
(* on them take a disk and return a disk: each of the functions they stand *)
(* for reads the files afresh and writes them whole, without an await in   *)
(* between.                                                                *)
(*                                                                         *)
(* The program: its views, the forms behind them and what each key makes   *)
(* of the files.  A key press is one step; a text is typed into a field by *)
(* one step, whatever its length.  Texts are typed without blanks around   *)
(* them.                                                                   *)
(***************************************************************************)
EXTENDS Naturals, Sequences, SequencesExt, FiniteSets

CONSTANTS Names,       \* names of providers
          Urls,        \* base URLs
          Keys,        \* API keys
          Unset,       \* a field that is not there
          Blank,       \* the empty text
          Presets,     \* [name, url] of the built-in providers, in order
          Imports,     \* texts for the import view: sequences of entries
          Tools,       \* what other tools' files may hold: sequences of entries
          FirstDisks,  \* what the files may hold at first
          MaxSubmits,  \* bound: how often a form is submitted
          MaxChecks    \* bound: diagnostics under way at one time

Maybe(fields) == fields \cup {Unset, Blank}

\* An entry of a file, with its own apiKey: a placeholder, or the value it stands for.
Entries == [name : Names, url : Maybe(Urls), opt : Maybe(Urls), models : BOOLEAN,
            secret : {Unset, "placeholder", "value"}]
Configs == [providers : Seq(Entries), cloud : BOOLEAN]
Disks == [cwd : Configs \cup {Unset}, home : Configs \cup {Unset}, auth : [Names -> Maybe(Keys)]]

\* What an import text and another tool's file give.
Imported == [name : Names \cup {Blank}, url : Maybe(Urls), key : Maybe(Keys), models : BOOLEAN]
Found == [name : Names, url : Maybe(Urls), key : Maybe(Keys)]

ASSUME ConfigAssumption ==
    /\ Unset # Blank
    /\ {Unset, Blank} \cap (Names \cup Urls \cup Keys) = {} /\ Unset \notin Configs
    /\ Presets \in Seq([name : Names, url : Urls]) /\ Imports \subseteq Seq(Imported)
    /\ Tools \subseteq Seq(Found) /\ FirstDisks \subseteq Disks

VARIABLES disk,      \* the files
          view,      \* the view shown
          listed,    \* providers, as they were last read
          selected,  \* selectedIndex, from 1; one more than the providers is "Add"
          form,      \* the fields of the add, edit and cloud forms, and the field typed into
          picked,    \* presetIndex, from 1; or the names selected for migration
          text,      \* importText: a member of Imports or Blank
          pending,   \* asynchronous work: cloud saves and diagnostics
          running,   \* diagRunning
          submits    \* how many forms were submitted

configVars == <<disk, view, listed, selected, form, picked, text, pending, running, submits>>

-----------------------------------------------------------------------------
(* The files *)

\* A provider entry: baseUrl, options.baseURL, whether it has models, and its own apiKey.
Entry(name, url, models) ==
    [name |-> name, url |-> url, opt |-> Unset, models |-> models, secret |-> Unset]

NoConfig == [providers |-> <<>>, cloud |-> FALSE]

HasName(ps, name) == \E i \in DOMAIN ps : ps[i].name = name

IndexOf(ps, name) ==
    CHOOSE i \in DOMAIN ps : ps[i].name = name /\ \A j \in 1..(i - 1) : ps[j].name # name

\* ${env:X} in an entry is read as the value of the variable.
ResolveProviderInterpolation(p) ==
    IF p.secret = "placeholder" THEN [p EXCEPT !.secret = "value"] ELSE p

\* The first file that exists and holds an object.
LoadConfig(d) ==
    LET cfg == IF d.cwd # Unset THEN d.cwd ELSE IF d.home # Unset THEN d.home ELSE NoConfig
    IN [cfg EXCEPT !.providers = [i \in DOMAIN @ |-> ResolveProviderInterpolation(@[i])]]

\* Whatever file was read, the one of the working directory is written.
SaveConfig(d, cfg) == [d EXCEPT !.cwd = cfg]

GetApiKey(d, name) == d.auth[name]

SetApiKey(d, name, key) == [d EXCEPT !.auth[name] = key]

HasApiKey(d, name) == GetApiKey(d, name) \notin {Unset, Blank}

ListProviders(d) ==
    LET ps == LoadConfig(d).providers IN
    [i \in DOMAIN ps |->
        [name |-> ps[i].name,
         url |-> IF ps[i].url # Unset THEN ps[i].url ELSE ps[i].opt,
         key |-> IF HasApiKey(d, ps[i].name) THEN GetApiKey(d, ps[i].name) ELSE Unset,
         models |-> ps[i].models]]

\* An entry of that name is changed in place, and its key replaced whatever the new one is.
AddProvider(d, name, url, key, models) ==
    LET cfg == LoadConfig(d)
        ps == IF HasName(cfg.providers, name)
              THEN LET i == IndexOf(cfg.providers, name) IN
                   [cfg.providers EXCEPT ![i].url = url, ![i].models = @ \/ models]
              ELSE Append(cfg.providers, Entry(name, url, models))
        withOption == IF url \in {Unset, Blank} THEN ps
                      ELSE [ps EXCEPT ![IndexOf(ps, name)].opt = url]
    IN SetApiKey(SaveConfig(d, [cfg EXCEPT !.providers = withOption]), name, key)

\* The key of the provider stays in auth.yaml.
RemoveProvider(d, name) ==
    LET cfg == LoadConfig(d) IN
    IF ~HasName(cfg.providers, name) THEN d
    ELSE SaveConfig(d, [cfg EXCEPT !.providers = RemoveAt(@, IndexOf(@, name))])

\* Mutant: the entry after the one that is meant is changed as well.
UpdateFrom(d, name, url) ==
    LET cfg == LoadConfig(d) IN
    IF ~HasName(cfg.providers, name) THEN d
    ELSE SaveConfig(d, [cfg EXCEPT !.providers =
             [i \in DOMAIN @ |-> IF i >= IndexOf(@, name) /\ url # Blank
                                 THEN [@[i] EXCEPT !.url = url, !.opt = url]
                                 ELSE @[i]]])

\* updateProvider as the editor calls it: under the same name, a blank URL changes nothing.
UpdateProvider(d, name, url) ==
    LET cfg == LoadConfig(d) IN
    IF ~HasName(cfg.providers, name) THEN d
    ELSE SaveConfig(d, [cfg EXCEPT !.providers =
             [i \in DOMAIN @ |-> IF i = IndexOf(@, name) /\ url # Blank
                                 THEN [@[i] EXCEPT !.url = url, !.opt = url]
                                 ELSE @[i]]])

ImportOne(d, p) ==
    LET cfg == LoadConfig(d) IN
    IF p.name = Blank THEN d
    ELSE IF p.key \notin {Unset, Blank}
         THEN AddProvider(d, p.name, IF p.url = Unset THEN Blank ELSE p.url, p.key, p.models)
    ELSE IF HasName(cfg.providers, p.name) THEN d
    ELSE SaveConfig(d, [cfg EXCEPT !.providers = Append(@, Entry(p.name, p.url, p.models))])

\* Each entry is imported into what the one before it left.
ImportProviders(d, ps) ==
    LET after[i \in 0..Len(ps)] == IF i = 0 THEN d ELSE ImportOne(after[i - 1], ps[i])
    IN after[Len(ps)]

\* What exportProviders(FALSE) writes and an import of it reads.
ExportProviders(d) == ListProviders(d)

SaveCloud(d) == SaveConfig(d, [LoadConfig(d) EXCEPT !.cloud = TRUE])

-----------------------------------------------------------------------------
(* The program *)

NoForm == [orig |-> Unset, name |-> Blank, url |-> Blank, key |-> Blank, field |-> 0]
NoPick == [preset |-> 1, tool |-> <<>>, names |-> {}]

FormViews == {"add_manual", "edit"}

Next3(i) == (i + 1) % 3
Previous3(i) == (i + 2) % 3

Refresh(d) == listed' = ListProviders(d) /\ selected' = 1

\* Every view that has a form fills it when it is entered: what is left there is forgotten.
Forget == form' = NoForm /\ picked' = NoPick /\ text' = Blank

\* Mutant: the list is not read afresh.
SaveOnly(d) ==
    /\ disk' = d
    /\ view' = "main"
    /\ Forget
    /\ UNCHANGED <<listed, selected, pending, running>>

\* The files become d, and the list is read afresh.
SaveAndLeave(d) ==
    /\ disk' = d
    /\ view' = "main"
    /\ Refresh(d)
    /\ Forget
    /\ UNCHANGED <<pending, running>>

Show(v) == view' = v /\ UNCHANGED <<disk, listed, selected, pending, running, submits>>

Submit == submits < MaxSubmits /\ submits' = submits + 1

----------------------------------------------------------------------------
(* The main view                                                           *)

MoveSelection ==
    /\ view = "main"
    /\ \E i \in {selected - 1, selected + 1} : i \in 1..(Len(listed) + 1) /\ selected' = i
    /\ UNCHANGED <<disk, view, listed, form, picked, text, pending, running, submits>>

EnterAddPreset ==
    /\ view = "main"
    /\ Show("add_preset")
    /\ picked' = [picked EXCEPT !.preset = 1]
    /\ UNCHANGED <<form, text>>

EnterAddManual ==
    /\ view \in {"main", "add_preset"}
    /\ Show("add_manual")
    /\ form' = NoForm
    /\ UNCHANGED <<picked, text>>

EnterEdit ==
    /\ view = "main" /\ selected <= Len(listed)
    /\ Show("edit")
    /\ LET p == listed[selected] IN
       form' = [orig |-> p.name, name |-> p.name,
                url |-> IF p.url = Unset THEN Blank ELSE p.url, key |-> Blank, field |-> 0]
    /\ UNCHANGED <<picked, text>>

AskDelete ==
    /\ view = "main" /\ selected <= Len(listed)
    /\ Show("delete_confirm")
    /\ UNCHANGED <<form, picked, text>>

EnterImport ==
    /\ view = "main"
    /\ Show("import_text")
    /\ text' = Blank
    /\ UNCHANGED <<form, picked>>

\* The export is made when its view is entered; nothing is read from it but by the user.
EnterExport ==
    /\ view = "main"
    /\ Show("export_show")
    /\ UNCHANGED <<form, picked, text>>

\* Without another tool's file the main view stays.
EnterMigration ==
    /\ view = "main"
    /\ \E t \in Tools \cup {<<>>} :
          IF t = <<>>
          THEN UNCHANGED <<view, picked>>
          ELSE view' = "migration" /\ picked' = [picked EXCEPT !.tool = t]
    /\ UNCHANGED <<disk, listed, selected, form, text, pending, running, submits>>

EnterNode ==
    /\ view = "main"
    /\ Show("node")
    /\ UNCHANGED <<form, picked, text>>

\* Each visit starts the checks anew, beside those of an earlier visit.
EnterDiagnostics ==
    /\ view = "main" /\ pending.checks < MaxChecks
    /\ view' = "diagnostics"
    /\ running' = TRUE
    /\ pending' = [pending EXCEPT !.checks = @ + 1]
    /\ UNCHANGED <<disk, listed, selected, form, picked, text, submits>>

EnterCloud ==
    /\ view = "main"
    /\ Show("cloud")
    /\ form' = NoForm
    /\ UNCHANGED <<picked, text>>

----------------------------------------------------------------------------
(* The other views                                                         *)

MovePreset ==
    /\ view = "add_preset"
    /\ \E i \in {picked.preset - 1, picked.preset + 1} :
          i \in DOMAIN Presets /\ picked' = [picked EXCEPT !.preset = i]
    /\ UNCHANGED <<disk, view, listed, selected, form, text, pending, running, submits>>

ChoosePreset ==
    /\ view = "add_preset" /\ picked.preset \in DOMAIN Presets
    /\ Show("add_manual")
    /\ LET p == Presets[picked.preset] IN
       form' = [NoForm EXCEPT !.name = p.name, !.url = p.url, !.field = 2]
    /\ UNCHANGED <<picked, text>>

MoveField ==
    /\ \/ /\ view \in FormViews
          /\ \E f \in {Next3(form.field), Previous3(form.field)} : form' = [form EXCEPT !.field = f]
       \/ view = "cloud" /\ form' = [form EXCEPT !.field = 1 - @]
    /\ UNCHANGED <<disk, view, listed, selected, picked, text, pending, running, submits>>

\* Characters and backspaces reach the field the form points at.
Type ==
    /\ \/ /\ view \in FormViews
          /\ \/ form.field = 0 /\ \E n \in Names \cup {Blank} : form' = [form EXCEPT !.name = n]
             \/ form.field = 1 /\ \E u \in Urls \cup {Blank} : form' = [form EXCEPT !.url = u]
             \/ form.field = 2 /\ \E k \in Keys \cup {Blank} : form' = [form EXCEPT !.key = k]
          /\ text' = text
       \/ /\ view = "cloud"
          /\ \/ form.field = 0 /\ \E u \in Urls \cup {Blank} : form' = [form EXCEPT !.url = u]
             \/ form.field = 1 /\ \E k \in Keys \cup {Blank} : form' = [form EXCEPT !.key = k]
          /\ text' = text
       \/ /\ view = "import_text"
          /\ \E t \in Imports : text' = t
          /\ form' = form
    /\ UNCHANGED <<disk, view, listed, selected, picked, pending, running, submits>>

SubmitAdd ==
    /\ view = "add_manual" /\ form.field = 2
    /\ form.name # Blank /\ form.key # Blank
    /\ Submit
    /\ SaveAndLeave(AddProvider(disk, form.name, IF form.url = Blank THEN Unset ELSE form.url,
                           form.key, FALSE))

\* Under another name the provider is removed and added again.
EditSubmission(d, f) ==
    IF f.name # f.orig
    THEN AddProvider(RemoveProvider(d, f.orig), f.name,
                     IF f.url = Blank THEN Unset ELSE f.url, f.key, FALSE)
    ELSE LET updated == UpdateProvider(d, f.orig, f.url) IN
         IF f.key = Blank THEN updated ELSE SetApiKey(updated, f.name, f.key)

SubmitEdit ==
    /\ view = "edit" /\ form.field = 2 /\ form.name # Blank
    /\ Submit
    /\ SaveAndLeave(EditSubmission(disk, form))

\* A text that cannot be imported leaves the view as it is.
SubmitImport ==
    /\ view = "import_text" /\ text # Blank
    /\ Submit
    /\ SaveAndLeave(ImportProviders(disk, text))

ConfirmDelete ==
    /\ view = "delete_confirm"
    /\ Submit
    /\ SaveAndLeave(RemoveProvider(disk, listed[selected].name))

SelectForMigration ==
    /\ view = "migration"
    /\ LET all == {picked.tool[i].name : i \in DOMAIN picked.tool} IN
       \E names \in {all} \cup (IF picked.names # {} THEN {{}} ELSE {}) :
          picked' = [picked EXCEPT !.names = names]
    /\ UNCHANGED <<disk, view, listed, selected, form, text, pending, running, submits>>

MigrateOne(d, p, names) ==
    IF p.name \notin names THEN d
    ELSE AddProvider(d, p.name, IF p.url = Unset THEN Blank ELSE p.url,
                     IF p.key = Unset THEN Blank ELSE p.key, FALSE)

Migrate(d, ps, names) ==
    LET after[i \in 0..Len(ps)] == IF i = 0 THEN d ELSE MigrateOne(after[i - 1], ps[i], names)
    IN after[Len(ps)]

SubmitMigration ==
    /\ view = "migration"
    /\ Submit
    /\ SaveAndLeave(Migrate(disk, picked.tool, picked.names))

\* Escape; the confirmations and `q' in the migration go back without reading the list again.
Leave ==
    /\ view # "main"
    /\ view' = "main"
    /\ IF view \in {"export_show", "delete_confirm"}
       THEN UNCHANGED <<listed, selected>>
       ELSE \/ Refresh(disk)
            \/ view = "migration" /\ UNCHANGED <<listed, selected>>
    /\ Forget
    /\ UNCHANGED <<disk, pending, running, submits>>

\* The form is not locked while a save is under way.
SubmitCloud ==
    /\ view = "cloud" /\ form.field < 2
    /\ IF form.field = 0
       THEN form' = [form EXCEPT !.field = 1] /\ UNCHANGED <<pending, submits>>
       ELSE /\ form.url # Blank /\ form.key # Blank
            /\ Submit
            /\ pending' = [pending EXCEPT !.saves = @ + 1]
            /\ form' = form
    /\ UNCHANGED <<disk, view, listed, selected, picked, text, running>>

\* After its await the save reads and writes the file in one go.
CloudSaved ==
    /\ pending.saves > 0
    /\ pending' = [pending EXCEPT !.saves = @ - 1]
    /\ disk' = SaveCloud(disk)
    /\ UNCHANGED <<view, listed, selected, form, picked, text, running, submits>>

\* Mutant: the indicator is left.
ChecksForgotten ==
    /\ pending.checks > 0
    /\ pending' = [pending EXCEPT !.checks = @ - 1]
    /\ UNCHANGED <<disk, view, listed, selected, form, picked, text, running, submits>>

\* The first checks that end stop the indicator of all.
ChecksEnd ==
    /\ pending.checks > 0
    /\ pending' = [pending EXCEPT !.checks = @ - 1]
    /\ running' = FALSE
    /\ UNCHANGED <<disk, view, listed, selected, form, picked, text, submits>>

----------------------------------------------------------------------------

ConfigInit ==
    /\ disk \in FirstDisks
    /\ view = "main" /\ listed = ListProviders(disk) /\ selected = 1
    /\ form = NoForm /\ picked = NoPick /\ text = Blank
    /\ pending = [saves |-> 0, checks |-> 0] /\ running = FALSE
    /\ submits = 0

ConfigNext ==
    \/ MoveSelection \/ EnterAddPreset \/ EnterAddManual \/ EnterEdit \/ AskDelete
    \/ EnterImport \/ EnterExport \/ EnterMigration \/ EnterNode \/ EnterDiagnostics \/ EnterCloud
    \/ MovePreset \/ ChoosePreset \/ MoveField \/ Type
    \/ SubmitAdd \/ SubmitEdit \/ SubmitImport \/ ConfirmDelete
    \/ SelectForMigration \/ SubmitMigration \/ Leave
    \/ SubmitCloud \/ CloudSaved \/ ChecksEnd

ConfigFairness == WF_configVars(CloudSaved) /\ WF_configVars(ChecksEnd)

ConfigSpec == ConfigInit /\ [][ConfigNext]_configVars

----------------------------------------------------------------------------
(* Properties                                                              *)

\* What the main view lists is what the files hold, whichever way the program came there and
\* whatever was saved behind it: the next key acts on what is seen (refresh and its callers).
ListIsCurrent == view = "main" => listed = ListProviders(disk)

\* The names the user pointed at, in the view the step starts from.
Meant ==
    CASE view = "add_manual"     -> {form.name}
      [] view = "edit"           -> {form.orig, form.name}
      [] view = "delete_confirm" -> {listed[selected].name}
      [] view = "import_text"    -> {text[i].name : i \in DOMAIN text}
      [] view = "migration"      -> picked.names
      [] OTHER                   -> {}

Row(d, n) ==
    LET ps == ListProviders(d) IN IF HasName(ps, n) THEN ps[IndexOf(ps, n)] ELSE Unset

\* No step changes, adds or removes a provider the user did not point at, although each save
\* replaces the files and may move them from the home directory to the working directory
\* (addProvider, removeProvider, updateProvider,
\* importProviders and the forms that call them).
OthersUntouched ==
    [][\A n \in Names : Row(disk', n) # Row(disk, n) => n \in Meant]_configVars

\* The diagnostics do not run for ever (enterDiagnostics: every request has a time limit).
ChecksStop == []<>~running
=============================================================================
