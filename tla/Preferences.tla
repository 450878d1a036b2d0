----------------------------- MODULE Preferences -----------------------------
(***************************************************************************)
(* The preferences of one account (ADR 0014): clients read the list,       *)
(* change it and put it back; the user sets the birth date, which is also  *)
(* a preference, in the dialog of the Settings page of Accounts.  The      *)
(* page has saves under way, numbered in the order of submission, and at   *)
(* most one read, of its query client.  Settings are for active accounts,  *)
(* which stay active.                                                      *)
(***************************************************************************)
EXTENDS Integers, FiniteSets

CONSTANTS
  Kept,      \* preferences in the app.bsky namespace
  Foreign,   \* one that is not
  Personal,  \* FULL_ACCESS_ONLY, with a birth date
  Clients,
  Entered,   \* what users type as a date: [year, month, day]
  Days,      \* bound: the days that pass, a sequence of dates
  Ages,      \* 13, 16 and 18
  FirstYear, \* 1900
  MaxSaves,  \* bound: how many saves the page submits
  NoDate, Hidden, NotRead

Saves == 1..MaxSaves

VARIABLES
  birthDate,    \* the columns of the account's row
  preferences,
  got,          \* what each client read last
  today,        \* index of the day
  shown,        \* the page: the cached birth date, Hidden before and after reads that fail
  reading,      \* its read: where it is, how often it failed, what it found
  dialog,       \* whether the dialog is open
  save,         \* the saves, and whether they are of the dialog on the page
  attached,     \* the save whose outcome the dialog waits for, or 0
  stored        \* history: what the birth date has been

Dates == [year : Int, month : Int, day : Int]

page == <<shown, reading, dialog, save, attached>>
prefVars == <<birthDate, preferences, got, today, page, stored>>

StoredDates == Entered \cup {NoDate}

\* Everything that a list of preferences may hold, in the account or in a client.
Prefs == Kept \cup {Foreign, Personal} \cup {[declared |-> ages] : ages \in SUBSET Ages}

Saving ==
  [pc : {"new", "done"}, date : {NoDate}, own : {FALSE}] \cup
  [pc : {"sent", "late", "stored"}, date : Entered, own : BOOLEAN]

PrefTypeOK ==
  /\ birthDate \in StoredDates /\ stored \subseteq StoredDates /\ preferences \subseteq Prefs
  /\ got \in [Clients -> (SUBSET Prefs) \cup {NotRead}]
  /\ today \in DOMAIN Days
  /\ shown \in StoredDates \cup {Hidden} /\ dialog \in BOOLEAN /\ attached \in Saves \cup {0}
  /\ reading \in [pc : {"none", "sent", "found"}, tries : {0, 1}, found : StoredDates]
  /\ save \in [Saves -> Saving]

Done == [pc |-> "done", date |-> NoDate, own |-> FALSE]
NoRead == [pc |-> "none", tries |-> 0, found |-> NoDate]

PrefInit ==
  /\ birthDate = NoDate /\ preferences = {} /\ stored = {NoDate}
  /\ got = [c \in Clients |-> NotRead]
  /\ today = 1
  /\ shown = Hidden /\ reading = [NoRead EXCEPT !.pc = "sent"]
  /\ dialog = FALSE /\ attached = 0
  /\ save = [s \in Saves |-> [Done EXCEPT !.pc = "new"]]

-----------------------------------------------------------------------------
(* Dates *)

Later(a, b) ==
  \/ a.year > b.year
  \/ a.year = b.year /\ a.month > b.month
  \/ a.year = b.year /\ a.month = b.month /\ a.day > b.day

DaysIn(m, y) ==
  IF m = 2 THEN IF y % 4 = 0 /\ (y % 100 # 0 \/ y % 400 = 0) THEN 29 ELSE 28
  ELSE IF m \in {4, 6, 9, 11} THEN 30 ELSE 31

Declared(over) == [declared |-> over]

ASSUME PrefAssumption ==
  /\ Entered \subseteq Dates
  /\ 1 \in DOMAIN Days
  /\ \A i \in DOMAIN Days : i \in Int /\ Days[i] \in Dates
  /\ \A i, j \in DOMAIN Days : i <= j => ~ Later(Days[i], Days[j])
  /\ Foreign \notin Kept /\ Personal \notin Kept
  /\ \A ages \in SUBSET Ages : Declared(ages) \notin Kept \cup {Foreign, Personal}

\* findInvalidField finds nothing.
FieldsValid(d) ==
  /\ d.year <= Days[today].year /\ d.year >= FirstYear
  /\ d.day \in 1..DaysIn(d.month, d.year)

\* putBirthDateSchema, in the page and in the route.
BirthDateValid(d) ==
  /\ d.month \in 1..12 /\ d.day \in 1..DaysIn(d.month, d.year)
  /\ ~ Later([year |-> FirstYear, month |-> 1, day |-> 1], d)
  /\ ~ Later(d, Days[today])

\* ageOf
AgeOf(d) ==
  LET t == Days[today]
      hadBirthday == t.month > d.month \/ (t.month = d.month /\ t.day >= d.day)
  IN  t.year - d.year - (IF hadBirthday THEN 0 ELSE 1)

-----------------------------------------------------------------------------
(* The PDS *)

IsDeclared(p) == p \notin Kept \cup {Foreign, Personal}

\* get: the stored list and the age derived today.
Answered ==
  IF birthDate = NoDate THEN preferences
  ELSE preferences \cup {Declared({a \in Ages : AgeOf(birthDate) >= a})}

GetPreferences(c) ==
  /\ got' = [got EXCEPT ![c] = Answered]
  /\ UNCHANGED <<birthDate, preferences, today, page, stored>>

\* put refuses lists with these.
Allowed(ps) == ps \cap {Foreign, Personal} = {}

\* Fault: a list that was read is stored as it was read.
WrittenAsRead(ps) == ps

Written(ps) == {p \in ps : ~ IsDeclared(p)}

\* A client puts back the list that it read with one preference more or less.
PutPreferences(c, p) ==
  /\ got[c] # NotRead
  /\ \E ps \in {got[c] \cup {p}, got[c] \ {p}} :
       preferences' = IF Allowed(ps) THEN Written(ps) ELSE preferences
  /\ UNCHANGED <<birthDate, got, today, page, stored>>

\* putBirthDate
Store(d) == birthDate' = d /\ stored' = stored \cup {d}

\* The same user saves a date in another window.
SaveElsewhere(d) ==
  /\ BirthDateValid(d)
  /\ Store(d)
  /\ UNCHANGED <<preferences, got, today, page>>

-----------------------------------------------------------------------------
(* The page *)

\* The page shows d.  A dialog to add a date and one to change it are not the same one:
\* what replaces the other is closed, and waits for nothing.  If no date is shown, there
\* is none.
Show(d, saves, open) ==
  LET replaced == d = Hidden \/ (d = NoDate) # (shown = NoDate)
  IN  /\ shown' = d
      /\ dialog' = (open /\ ~ replaced)
      /\ attached' = IF replaced THEN 0 ELSE attached
      /\ save' = IF replaced
                 THEN [s \in Saves |-> [saves[s] EXCEPT !.own = FALSE]] ELSE saves

(* It reads: when it is opened, and again when it gets the focus *)

Read ==
  /\ reading.pc = "none"
  /\ reading' = [NoRead EXCEPT !.pc = "sent"]
  /\ UNCHANGED <<birthDate, preferences, got, today, shown, dialog, save, attached, stored>>

GetBirthDate ==
  /\ reading.pc = "sent"
  /\ reading' = [reading EXCEPT !.pc = "found", !.found = birthDate]
  /\ UNCHANGED <<birthDate, preferences, got, today, shown, dialog, save, attached, stored>>

ReadAnswered ==
  /\ reading.pc = "found"
  /\ Show(reading.found, save, dialog)
  /\ reading' = NoRead
  /\ UNCHANGED <<birthDate, preferences, got, today, stored>>

\* A read is retried once; then the date is hidden, with its dialog.
ReadFails ==
  /\ reading.pc # "none"
  /\ IF reading.tries = 0
     THEN /\ reading' = [NoRead EXCEPT !.pc = "sent", !.tries = 1]
          /\ UNCHANGED <<shown, dialog, save, attached>>
     ELSE reading' = NoRead /\ Show(Hidden, save, FALSE)
  /\ UNCHANGED <<birthDate, preferences, got, today, stored>>

-----------------------------------------------------------------------------
(* The dialog *)

\* reset: the fields are filled anew, and an earlier save is forgotten.
OpenDialog ==
  /\ shown # Hidden /\ ~ dialog
  /\ dialog' = TRUE /\ attached' = 0
  /\ UNCHANGED <<birthDate, preferences, got, today, shown, reading, save, stored>>

\* A save that was submitted goes on.
CloseDialog ==
  /\ dialog
  /\ dialog' = FALSE
  /\ UNCHANGED <<birthDate, preferences, got, today, shown, reading, save, attached, stored>>

\* edit: so does one whose fields the user edits.
Edit ==
  /\ dialog /\ attached # 0
  /\ attached' = 0
  /\ UNCHANGED <<birthDate, preferences, got, today, shown, reading, dialog, save, stored>>

\* The button is disabled.
SavePending == attached # 0 /\ save[attached].pc \in {"sent", "stored"}

\* Fault: the page shows the date before the PDS has it.
ShownOnSubmit(d) == d

ShownBefore(d) == shown

\* submit, the fields holding d.
Submit(s, d) ==
  /\ dialog /\ ~ SavePending
  /\ FieldsValid(d) /\ BirthDateValid(d)
  /\ save[s].pc = "new" /\ \A r \in Saves : r < s => save[r].pc # "new"
  /\ save' = [save EXCEPT ![s] = [pc |-> "sent", date |-> d, own |-> TRUE]]
  /\ attached' = s
  /\ shown' = ShownBefore(d)
  /\ UNCHANGED <<birthDate, preferences, got, today, reading, dialog, stored>>

\* The route stores the date, also when nobody waits for its answer any more.
PutBirthDate(s) ==
  /\ save[s].pc \in {"sent", "late"} /\ BirthDateValid(save[s].date)
  /\ Store(save[s].date)
  /\ save' = [save EXCEPT ![s] = IF @.pc = "sent" THEN [@ EXCEPT !.pc = "stored"] ELSE Done]
  /\ UNCHANGED <<preferences, got, today, shown, reading, dialog, attached>>

\* onSuccess, whichever save the dialog is about by now.
SaveAnswered(s) ==
  /\ save[s].pc = "stored"
  /\ Show(save[s].date, [save EXCEPT ![s] = Done], dialog /\ ~ save[s].own)
  /\ UNCHANGED <<birthDate, preferences, got, today, reading, stored>>

\* The request or its answer is lost, or it is refused.
SaveFails(s) ==
  /\ save[s].pc \in {"sent", "stored"}
  /\ \/ save[s].pc = "sent" /\ save' = [save EXCEPT ![s].pc = "late"]
     \/ save' = [save EXCEPT ![s] = Done]
  /\ UNCHANGED <<birthDate, preferences, got, today, shown, reading, dialog, attached, stored>>

-----------------------------------------------------------------------------

NextDay ==
  /\ today + 1 \in DOMAIN Days
  /\ today' = today + 1
  /\ UNCHANGED <<birthDate, preferences, got, page, stored>>

PrefNext ==
  \/ \E c \in Clients :
       \/ GetPreferences(c)
       \/ \E p \in Kept \cup {Foreign, Personal} : PutPreferences(c, p)
  \/ \E d \in Entered : SaveElsewhere(d)
  \/ Read \/ GetBirthDate \/ ReadAnswered \/ ReadFails
  \/ OpenDialog \/ CloseDialog \/ Edit
  \/ \E s \in Saves :
       \/ \E d \in Entered : Submit(s, d)
       \/ PutBirthDate(s) \/ SaveAnswered(s) \/ SaveFails(s)
  \/ NextDay

PrefSpec == PrefInit /\ [][PrefNext]_prefVars

-----------------------------------------------------------------------------

\* Birthdays that have come, counted one by one.
Birthdays(d) ==
  {y \in d.year + 1 .. Days[today].year : ~ Later([d EXCEPT !.year = y], Days[today])}

\* A client is told one age: the one that the birth date gives today, although clients
\* put back the ages that they were told earlier, or for another date, and it never is
\* told the date itself (preferences.ts 31-47, 62-82, PDS README 87-89).
OneAge ==
  /\ {p \in Answered : IsDeclared(p)} =
       IF birthDate = NoDate THEN {}
       ELSE {Declared({a \in Ages : Cardinality(Birthdays(birthDate)) >= a})}
  /\ Allowed(Answered)

\* Whatever fails, is late or overtakes what, and whichever dialog an answer finds, the
\* page shows a date that the PDS has had, never one that could not be saved
\* (birth-date-settings.tsx 104-121).
ShownWasStored == shown \in stored \cup {Hidden}
=============================================================================
