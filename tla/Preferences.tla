----------------------------- MODULE Preferences ----------------------------
(***************************************************************************)
(* The settings: the file and the Store that writes it (settings.rs), the  *)
(* panel (bridge/prefs.rs), what the window remembers by itself (state.rs) *)
(* and what the engine is told.                                            *)
(*                                                                         *)
(* Every handler runs on the window's thread, and so does a write, one     *)
(* call on the file system at a time; the process may be killed between    *)
(* two of them.                                                            *)
(***************************************************************************)
EXTENDS Integers

CONSTANTS
  MaxEdits,     \* bound: how often the user changes something
  MaxBegins,  \* bound: how often the program is started
  Users         \* what the user touches in each behaviour, and what may happen

ASSUME EditsAssumption == MaxEdits \in Nat /\ MaxBegins \in Nat

(* A field stands for those that travel as it does: `limits` and `quiet`   *)
(* are the two pairs and `alt` the switch between them, `port` also uTP,   *)
(* UPnP and encryption, `view` the sort, the columns and the drawer,       *)
(* `shelves` the categories and what is on them.                           *)
Typed == {"limits", "quiet", "active", "port"}
Switches == {"alt", "paused"}
Folders == {"download", "keep", "watch"}
Chosen == {"theme", "density", "language"}
Fields == Typed \cup Switches \cup Folders \cup Chosen \cup {"view", "shelves"}

(* The default, another value, and one no control produces: a figure past  *)
(* its ceiling, a list of another length, a name nobody knows.             *)
Default == 0
Nonsense == 2
Values == {Default, 1, Nonsense}

Defaults == [f \in Fields |-> Default]

VARIABLES
  process,   \* "off", "on", "leaving", "left" or "killed"
  current,   \* the settings in memory
  pending,   \* whether the timer of the Store is to write them
  saving,    \* the call of save() that comes next
  disk,      \* the file, the one it is written through, and the one put aside
  shown,     \* what the window is drawn with
  titles,    \* the language of the column headings
  told,      \* what the engine holds once it has taken what it was sent
  asking,    \* the folder dialogs that are open
  failed,    \* the last write failed
  unheeded,  \* the user's last edit of the file, until it is read
  edits, launches, user

settingVars == <<process, current, pending, saving, disk, shown, titles, told, asking, failed, unheeded,
          edits, launches, user>>

Settings == [Fields -> Values]
Engine == {"limits", "active", "port", "paused", "download", "keep", "watch"}

(* `broken` does not parse, `foreign` is not UTF-8, `partial` ends midway. *)
File == [kind : {"none", "good", "broken", "foreign", "partial"}, has : Settings]
File_(kind) == [kind |-> kind, has |-> Defaults]
Good(s) == [kind |-> "good", has |-> s]

Touches(f) == f \in user.touches
Might(mishap) == mishap \in user.mishaps

SettingsTypeOK ==
  /\ process \in {"off", "on", "leaving", "left", "killed"}
  /\ current \in Settings
  /\ pending \in BOOLEAN
  /\ saving \in {"no", "create", "write", "rename"}
  /\ disk \in [file : File, temp : File, aside : File]
  /\ shown \in Settings
  /\ titles \in Values
  /\ told \in [Engine -> Values]
  /\ asking \subseteq Folders
  /\ failed \in BOOLEAN
  /\ unheeded \in {"none", "good", "broken", "foreign"}
  /\ edits \in 0 .. MaxEdits /\ launches \in 0 .. MaxBegins
  /\ user \in Users
  /\ ~Might("hands") => \A f \in Engine : told[f] # Nonsense

SettingsInit ==
  /\ process = "off"
  /\ current = Defaults /\ pending = FALSE /\ saving = "no"
  /\ disk = [file |-> File_("none"), temp |-> File_("none"), aside |-> File_("none")]
  /\ shown = Defaults /\ titles = Default /\ told = [f \in Engine |-> Default]
  /\ asking = {}
  /\ failed = FALSE /\ unheeded = "none"
  /\ edits = 0 /\ launches = 0
  /\ user \in Users

(***************************************************************************)
(* What a value becomes.                                                   *)
(***************************************************************************)
(* typed() keeps a figure under its ceiling; a port that was never going   *)
(* to work becomes the default.                                            *)
Kept(f, v) ==
  IF v # Nonsense THEN v ELSE IF f = "port" THEN Default ELSE 1

(* What the window makes of a field: restore_view drops what does not fit, *)
(* a language nobody knows resolves to the source's, a height is clamped.  *)
Drawn(f, v) ==
  IF v # Nonsense THEN v
  ELSE CASE f \in {"view", "language"} -> Default
         [] f = "density" -> 1
         [] OTHER -> v

InForce(s) == IF s["alt"] = Default THEN s["limits"] ELSE s["quiet"]

(* EngineConfig, and the limits that follow it.                            *)
Config(s) == [f \in Engine |-> IF f = "limits" THEN InForce(s) ELSE s[f]]

(***************************************************************************)
(* The Store.                                                              *)
(***************************************************************************)
(* update(): a change, and nothing else, has the timer started again.      *)
Update(s) ==
  /\ current' = s
  /\ pending' = (pending \/ s # current)

Idle == process = "on" /\ saving = "no"

(* The timer, once nothing has changed for QUIET.                          *)
StoreTimerFires ==
  /\ Idle /\ pending
  /\ pending' = FALSE /\ saving' = "create"
  /\ UNCHANGED <<process, current, disk, shown, titles, told, asking, failed, unheeded, edits,
                 launches, user>>

Saved(step) ==
  /\ saving' = step
  /\ UNCHANGED <<process, current, pending, shown, titles, told, asking, unheeded, edits, launches,
                 user>>

Create ==
  /\ saving = "create"
  /\ disk' = [disk EXCEPT !.temp = File_("partial")]
  /\ UNCHANGED failed
  /\ Saved("write")

(* write_all and sync_all.                                                 *)
WriteTemp ==
  /\ saving = "write"
  /\ disk' = [disk EXCEPT !.temp = Good(current)]
  /\ UNCHANGED failed
  /\ Saved("rename")

Rename ==
  /\ saving = "rename"
  /\ disk' = [disk EXCEPT !.file = disk.temp, !.temp = File_("none")]
  /\ failed' = FALSE
  /\ Saved("no")

(* Any of the calls may fail, and nothing is tried again.                  *)
SaveFails ==
  /\ Might("writes") /\ saving # "no"
  /\ failed' = TRUE
  /\ UNCHANGED disk
  /\ Saved("no")

(***************************************************************************)
(* The start and the end of the process.                                   *)
(***************************************************************************)
(* load(): what does not parse is put aside, when it can be.               *)
Reads ==
  IF disk.file.kind \in {"broken", "partial"} /\ ~Might("renames")
    THEN [disk EXCEPT !.aside = disk.file, !.file = File_("none")]
    ELSE disk

Loaded == IF disk.file.kind = "good" THEN disk.file.has ELSE Defaults

(* Store::open writes the file when there is none; then the engine and the *)
(* window are built from the settings.                                     *)
Begin ==
  /\ process \in {"off", "left", "killed"} /\ launches < MaxBegins
  /\ launches' = launches + 1
  /\ process' = "on"
  /\ current' = Loaded /\ pending' = FALSE
  /\ saving' = "no"
  /\ \E written \in {TRUE, ~Might("writes")} :
       /\ disk' = IF Reads.file.kind = "none" /\ written
                    THEN [Reads EXCEPT !.file = Good(Loaded)] ELSE Reads
       /\ failed' = (Reads.file.kind = "none" /\ ~written)
  /\ shown' = [f \in Fields |-> Drawn(f, Loaded[f])]
  /\ titles' = Drawn("language", Loaded["language"])
  /\ told' = Config(Loaded)
  /\ unheeded' = IF disk.file.kind = "good" THEN "none" ELSE unheeded
  /\ UNCHANGED <<asking, edits, user>>

(* flush().                                                                *)
Flush(waiting) == IF waiting THEN "create" ELSE "no"

(* The event loop is over: save_view, and flush.                           *)
Close ==
  /\ Idle
  /\ process' = "leaving"
  /\ LET kept == [current EXCEPT !["view"] = shown["view"]]
     IN  /\ current' = kept
         /\ saving' = Flush(pending \/ kept # current)
  /\ pending' = FALSE /\ asking' = {}
  /\ UNCHANGED <<disk, shown, titles, told, failed, unheeded, edits, launches, user>>

Exit ==
  /\ process = "leaving" /\ saving = "no"
  /\ process' = "left"
  /\ UNCHANGED <<current, pending, saving, disk, shown, titles, told, asking, failed, unheeded, edits,
                 launches, user>>

Kill ==
  /\ Might("kills") /\ process \in {"on", "leaving"}
  /\ process' = "killed"
  /\ saving' = "no" /\ pending' = FALSE /\ asking' = {}
  /\ UNCHANGED <<current, disk, shown, titles, told, failed, unheeded, edits, launches, user>>

(* The user's editor, while the program is off: one value, or a mistake.   *)
EditFile ==
  /\ Might("hands") /\ process \in {"off", "left", "killed"} /\ edits < MaxEdits
  /\ edits' = edits + 1
  /\ \/ /\ disk.file.kind = "good"
        /\ \E f \in user.touches, v \in Values :
             disk' = [disk EXCEPT !.file = Good([disk.file.has EXCEPT ![f] = v])]
     \/ disk' = [disk EXCEPT !.file = File_("broken")]
     \/ Might("foreign") /\ disk' = [disk EXCEPT !.file = File_("foreign")]
  /\ unheeded' = disk'.file.kind
  /\ UNCHANGED <<process, current, pending, saving, shown, titles, told, asking, failed, launches,
                 user>>

(***************************************************************************)
(* The panel.                                                              *)
(***************************************************************************)
Handles(f) ==
  /\ Idle /\ Touches(f) /\ edits < MaxEdits
  /\ edits' = edits + 1
  /\ UNCHANGED <<process, saving, disk, failed, unheeded, launches, user>>

Tells(f, s) ==
  told' = IF f \in {"limits", "quiet", "alt"} THEN [told EXCEPT !["limits"] = InForce(s)]
          ELSE IF f \in Engine \ {"port"} THEN [told EXCEPT ![f] = s[f]]
          ELSE told

(* A field that is typed, a switch, the theme and the density: kept, sent  *)
(* and shown as it was kept.                                               *)
Set(f, v) ==
  /\ f \in Typed \cup Switches \cup Chosen /\ (v = Nonsense => f \in Typed)
  /\ Handles(f)
  /\ LET s == [current EXCEPT ![f] = Kept(f, v)]
     IN  /\ Update(s)
         /\ shown' = [shown EXCEPT ![f] = s[f]]
         /\ Tells(f, s)
         /\ titles' = IF f = "language" THEN s[f] ELSE titles
  /\ UNCHANGED asking

(* A native dialog on a thread of its own: any number of them.             *)
AskFolder(f) ==
  /\ f \in Folders /\ f \notin asking
  /\ Handles(f)
  /\ asking' = asking \cup {f}
  /\ UNCHANGED <<current, pending, shown, titles, told>>

(* The answer, which comes back to a window that has moved on.             *)
Picked(f, v) ==
  /\ Idle /\ f \in asking /\ v # Nonsense
  /\ asking' = asking \ {f}
  /\ IF v = current[f] THEN UNCHANGED <<current, pending, shown, told>>
     ELSE LET s == [current EXCEPT ![f] = v]
          IN  Update(s) /\ Tells(f, s) /\ shown' = [shown EXCEPT ![f] = v]
  /\ UNCHANGED <<process, saving, disk, titles, failed, unheeded, edits, launches, user>>

Dismissed(f) ==
  /\ Idle /\ f \in asking
  /\ asking' = asking \ {f}
  /\ UNCHANGED <<process, current, pending, saving, disk, shown, titles, told, failed, unheeded, edits,
                 launches, user>>

(* The switches that turn moving and watching off.                         *)
Clear(f) ==
  /\ f \in {"keep", "watch"} /\ current[f] # Default
  /\ Handles(f)
  /\ LET s == [current EXCEPT ![f] = Default]
     IN  Update(s) /\ Tells(f, s) /\ shown' = [shown EXCEPT ![f] = Default]
  /\ UNCHANGED <<titles, asking>>

(* A heading clicked, an edge dragged, a shelf named: the window changes   *)
(* first, and is then written down.                                        *)
Arrange(f, v) ==
  /\ f \in {"view", "shelves"} /\ v # Nonsense
  /\ Handles(f)
  /\ shown' = [shown EXCEPT ![f] = v]
  /\ Update([current EXCEPT ![f] = v])
  /\ UNCHANGED <<titles, told, asking>>

(* Mutant: the engine keeps what it was told.                              *)
ToldAgain_Never(s) == told

(* "Everything the engine was told, told again."                           *)
ToldAgain(s) ==
  [told EXCEPT !["limits"] = InForce(s), !["active"] = s["active"], !["paused"] = s["paused"],
               !["keep"] = Default, !["watch"] = Default]

(* What reset_all puts back in memory and leaves as it was in the window.  *)
NotRedrawn == {"density", "view", "shelves"}

Reset(s) == [Defaults EXCEPT !["download"] = s["download"]]

ResetAll ==
  /\ user.resets /\ Idle /\ edits < MaxEdits
  /\ edits' = edits + 1
  /\ LET s == Reset(current)
     IN  /\ Update(s)
         /\ told' = ToldAgain(s)
         /\ shown' = [f \in Fields |-> IF f \in NotRedrawn THEN shown[f] ELSE s[f]]
  /\ UNCHANGED <<process, saving, disk, titles, asking, failed, unheeded, launches, user>>

Panel ==
  \/ \E f \in Fields, v \in Values : Set(f, v) \/ Picked(f, v) \/ Arrange(f, v)
  \/ \E f \in Fields : AskFolder(f) \/ Dismissed(f) \/ Clear(f)
  \/ ResetAll

Save == StoreTimerFires \/ Create \/ WriteTemp \/ Rename \/ SaveFails

SettingsNext == Begin \/ Save \/ Close \/ Exit \/ Kill \/ EditFile \/ Panel

(* The timer fires, a write ends, and so does a process that leaves.       *)
SettingsFairness == WF_settingVars(Save) /\ WF_settingVars(Exit)

SettingsSpec == SettingsInit /\ [][SettingsNext]_settingVars /\ SettingsFairness

-----------------------------------------------------------------------------
(* The engine holds what the panel holds: nothing changed in one place     *)
(* only, whichever of two pairs of limits was edited and whatever was      *)
(* reset.  The port waits for the next launch.                             *)
EngineIsTold ==
  process = "on" => \A f \in Engine \ {"port"} : told[f] = Config(current)[f]

(* The window is drawn with the settings, but for what a reset forgets.    *)
ShownAsKept ==
  process = "on" =>
    /\ \A f \in Fields : (user.resets => f \notin NotRedrawn) => shown[f] = Drawn(f, current[f])
    /\ user.resets \/ titles = Drawn("language", current["language"])

(* "A crash mid-write must not leave a truncated file where the settings   *)
(* were".                                                                  *)
NeverTorn == disk.file.kind # "partial"

(* A change made a fraction of a second before the window closed is on the *)
(* disk when the process ends, unless the write failed.                    *)
NothingLostOnTheWayOut ==
  process = "leaving" /\ saving = "no" /\ ~failed /\ unheeded # "foreign" /\ ~Might("renames")
    => disk.file = Good(current)

(* What somebody edited by hand is read, or "is still there to look at".   *)
(* A file that is not UTF-8 is not: it counts as none, and the next change *)
(* overwrites it.                                                          *)
HandEditsSurvive ==
  unheeded \in {"good", "broken"} /\ ~Might("renames")
    => unheeded \in {disk.file.kind, disk.aside.kind}

(* "A reset of preferences, not a rearrangement of a disk": the download   *)
(* folder changes by its picker only.                                      *)
FolderStays ==
  [][process = "on" /\ process' = "on" /\ current'["download"] # current["download"]
       => "download" \in asking \ asking']_settingVars

(* A change is written once the user stops changing things.                *)
ChangesAreWritten ==
  pending ~> \/ disk.file = Good(current) \/ failed \/ process # "on"

(* The file, the window and the engine all have the settings as they were  *)
(* last changed, through failed writes, kills, resets and edits by hand    *)
(* (settings.rs, bridge/prefs.rs).                                         *)
SettingsAreKept ==
  /\ [](/\ SettingsTypeOK /\ NeverTorn /\ NothingLostOnTheWayOut /\ HandEditsSurvive
        /\ EngineIsTold /\ ShownAsKept)
  /\ FolderStays
=============================================================================
