------------------------------ MODULE MCProcess ------------------------------
(* One of three parts of the process at a time: its launches, its updates, *)
(* its settings.                                                           *)
EXTENDS Instance, Updates, Preferences

VARIABLE part

all == <<part, vars, updateVars, settingVars>>

User_(touches, mishaps, resets) ==
  [touches |-> touches, mishaps |-> mishaps, resets |-> resets]

MCUsers ==
  {User_({"limits", "quiet", "alt"}, {}, TRUE),
   User_({"active", "port"}, {"hands"}, FALSE),
   User_({"keep", "download"}, {"writes"}, TRUE),
   User_({"view", "paused"}, {"kills", "hands"}, FALSE),
   User_({"language", "shelves"}, {"kills", "writes"}, FALSE),
   User_({"watch", "theme", "density"}, {}, TRUE),
   User_({"view"}, {"hands", "foreign", "renames"}, FALSE)}

MCWorlds ==
  {{"sticks", "quits", "relaunches", "hangs"}, {"together", "quits"}, {"late", "quits"},
   {"dies", "together"}, {"slow start", "sticks"}, {"slow exit", "relaunches"},
   {"slow release", "sticks", "midway"}, {"long", "sticks", "quits"}, {"long", "several", "quits"}}

(* Nothing but launches that come together.                                *)
MCTogether == {{"together"}}

(* The part that is not checked starts in one of its states and stays.     *)
MCInit ==
  /\ part \in {"launches", "updates", "settings"}
  /\ Init /\ UpdatesInit /\ SettingsInit
  /\ part # "launches" => world = {"late", "quits"}
  /\ part # "updates" => self /\ early
  /\ part # "settings" => user = User_({"view", "paused"}, {"kills", "hands"}, FALSE)

Launches(step) == part = "launches" /\ step /\ UNCHANGED <<part, updateVars, settingVars>>
Updating(step) == part = "updates" /\ step /\ UNCHANGED <<part, vars, settingVars>>
Settling(step) == part = "settings" /\ step /\ UNCHANGED <<part, vars, updateVars>>

MCNext == Launches(Next) \/ Updating(UpdatesNext) \/ Settling(SettingsNext)

MCFairness ==
  /\ WF_all(Launches(Release)) /\ WF_all(Launches(Server))
  /\ \A p \in Procs : WF_all(Launches(Step(p)))
  /\ WF_all(Updating(Feed)) /\ \A i \in Installs : WF_all(Updating(Worker(i)))
  /\ WF_all(Settling(Save)) /\ WF_all(Settling(Exit))

MCSpec == MCInit /\ [][MCNext]_all /\ MCFairness

(* Every launch comes up or has its argument taken, but for the one        *)
(* EveryLaunchIsAnswered excepts; the build that replaced another one      *)
(* comes up, the panel of the updates does not stay at work, and a setting *)
(* that was changed gets written.                                          *)
EveryWaitEnds == EveryLaunchIsAnswered /\ UpdateComesUp /\ WorkEnds /\ ChangesAreWritten
=============================================================================
