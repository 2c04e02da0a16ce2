------------------------------- MODULE Updates ------------------------------
(***************************************************************************)
(* The update row of the About panel (bridge/updates.rs) and what it does  *)
(* to the program on the disk (update.rs, and swap of zerem-shell).        *)
(*                                                                         *)
(* Every check and every install runs on a thread of its own; its answer   *)
(* comes back to the event loop.  The one button is drawn from `panel`.    *)
(***************************************************************************)
EXTENDS Integers, FiniteSets

CONSTANTS
  MaxChecks,    \* bound: how often the feed is asked
  MaxInstalls   \* bound: how often Install is pressed

Checks == 1 .. MaxChecks
Installs == 1 .. MaxInstalls

(* The releases a feed may name, by version; this build is version 1.      *)
ThisBuild == 1
Offers == {0, 1, 2}

VARIABLES
  panel,     \* Prefs.update
  found,     \* FOUND: a release that may be installed
  quiet,     \* the one-shot timer of watch_for_new_builds
  check,     \* [asked by, and what the feed answered] of each check
  install,   \* where each install is
  staged,    \* the file in the temp directory
  program,   \* the file this program was started from
  self,      \* install_kind() = Itself
  early      \* whether a press may come before the quiet check is over

updateVars == <<panel, found, quiet, check, install, staged, program, self, early>>

Panels == {"idle", "checking", "current", "available", "installing", "installed", "failed"}
Files == {"none", "old", "new", "partial", "forged"}

UpdatesTypeOK ==
  /\ panel \in Panels
  /\ found \in BOOLEAN
  /\ quiet \in {"armed", "fired", "off"}
  /\ check \in [Checks -> {"none", "user", "timer", "over"}]
  /\ install \in [Installs -> {"none", "fetching", "verifying", "writing", "swapping", "swapped",
                               "failing", "refused", "over", "littered"}]
  /\ staged \in Files
  /\ program \in Files
  /\ self \in BOOLEAN /\ early \in BOOLEAN
  /\ panel = "available" => found

UpdatesInit ==
  /\ panel = "idle" /\ found = FALSE
  /\ self \in BOOLEAN /\ early \in BOOLEAN
  /\ quiet = IF self THEN "armed" ELSE "off"
  /\ check = [c \in Checks |-> "none"]
  /\ install = [i \in Installs |-> "none"]
  /\ staged = "none" /\ program = "old"

(***************************************************************************)
(* Asking the feed.                                                        *)
(***************************************************************************)
Ask(who) ==
  \E c \in Checks :
    /\ check[c] = "none" /\ \A d \in Checks : d < c => check[d] # "none"
    /\ check' = [check EXCEPT ![c] = who]
    /\ panel' = "checking"

(* The button is drawn only on a copy that may replace itself.             *)
Enabled == self /\ panel \notin {"checking", "installing"}

(* The press of the button that neither installs nor restarts.             *)
PressCheck ==
  /\ Enabled /\ panel \notin {"installed", "available"}
  /\ early \/ (quiet # "armed" /\ "timer" \notin {check[c] : c \in Checks})
  /\ Ask("user")
  /\ UNCHANGED <<found, quiet, install, staged, program, self, early>>

(* SETTLE after the launch, whatever the panel says.                       *)
TimerFires ==
  /\ quiet = "armed"
  /\ quiet' = "fired"
  /\ Ask("timer")
  /\ UNCHANGED <<found, install, staged, program, self, early>>

(* A feed that offers a downgrade, or this very build, offers nothing.     *)
IsNewer(v) == v > ThisBuild

Over(c) == check' = [check EXCEPT ![c] = "over"]

(* A feed that names a version: what newest() makes of it.                 *)
Answer(c, v) ==
  /\ check[c] \in {"user", "timer"}
  /\ Over(c)
  /\ IF IsNewer(v) THEN panel' = "available" /\ found' = TRUE
                   ELSE panel' = "current" /\ UNCHANGED found
  /\ UNCHANGED <<quiet, install, staged, program, self, early>>

Report(who) == who = "user"

(* No network, or a feed that is not one.                                  *)
NoAnswer(c) ==
  /\ check[c] \in {"user", "timer"}
  /\ Over(c)
  /\ panel' = IF Report(check[c]) THEN "failed" ELSE "idle"
  /\ UNCHANGED <<found, quiet, install, staged, program, self, early>>

(***************************************************************************)
(* Installing what was found: fetch_and_apply on a thread of its own.      *)
(***************************************************************************)
At(i, where) == install' = [install EXCEPT ![i] = where]

PressInstall ==
  /\ Enabled /\ panel = "available" /\ found
  /\ \E i \in Installs :
       /\ install[i] = "none" /\ \A j \in Installs : j < i => install[j] # "none"
       /\ At(i, "fetching")
  /\ panel' = "installing"
  /\ UNCHANGED <<found, quiet, check, staged, program, self, early>>

Fetch(i) ==
  /\ install[i] = "fetching"
  /\ \E outcome \in {"verifying", "failing"} : At(i, outcome)
  /\ UNCHANGED <<panel, found, quiet, check, staged, program, self, early>>

(* Mutant: what is downloaded is not looked at.                            *)
Verdicts_Any == {"new", "forged"}

(* The downloads verify() lets through.                                    *)
Verdicts == {"new"}

(* verify(); then the file is truncated, before anything is written to it. *)
Verify(i) ==
  /\ install[i] = "verifying"
  /\ \/ At(i, "failing") /\ UNCHANGED staged
     \/ At(i, "writing") /\ staged' = "partial"
  /\ UNCHANGED <<panel, found, quiet, check, program, self, early>>

WriteStaged(i) ==
  /\ install[i] = "writing"
  /\ \/ \E bytes \in Verdicts : staged' = bytes /\ At(i, "swapping")
     \/ At(i, "failing") /\ UNCHANGED staged
  /\ UNCHANGED <<panel, found, quiet, check, program, self, early>>

(* self_replace: a copy of the staged file takes the program's place.      *)
Swap(i) ==
  /\ install[i] = "swapping" /\ staged # "none"
  /\ program' = staged
  /\ At(i, "swapped")
  /\ UNCHANGED <<panel, found, quiet, check, staged, self, early>>

SwapFails(i) ==
  /\ install[i] = "swapping"
  /\ At(i, "refused")
  /\ UNCHANGED <<panel, found, quiet, check, staged, program, self, early>>

(* "Either way: a failed swap should not leave a whole verified binary".   *)
Cleans(i) == install[i] \in {"swapped", "refused"}

(* The end of the thread, which the event loop is told.  A removal of the  *)
(* staged file that fails is not reported.                                 *)
Tell(i) ==
  /\ install[i] \in {"swapped", "refused", "failing"}
  /\ \/ At(i, "over") /\ staged' = IF Cleans(i) THEN "none" ELSE staged
     \/ Cleans(i) /\ At(i, "littered") /\ UNCHANGED staged
  /\ panel' = IF install[i] = "swapped" THEN "installed" ELSE "failed"
  /\ UNCHANGED <<found, quiet, check, program, self, early>>

Feed == \E c \in Checks : NoAnswer(c) \/ \E v \in Offers : Answer(c, v)

Worker(i) ==
  Fetch(i) \/ Verify(i) \/ WriteStaged(i) \/ Swap(i) \/ SwapFails(i) \/ Tell(i)

UpdatesNext == PressCheck \/ TimerFires \/ PressInstall \/ Feed \/ \E i \in Installs : Worker(i)

(* Requests end: the client's timeout is PATIENCE.                         *)
UpdatesFairness == WF_updateVars(Feed) /\ \A i \in Installs : WF_updateVars(Worker(i))

UpdatesSpec == UpdatesInit /\ [][UpdatesNext]_updateVars /\ UpdatesFairness
-----------------------------------------------------------------------------
Working == \E i \in Installs : install[i] \notin {"none", "over", "littered"}

(* "Nothing to press while it is working": no second install writes the    *)
(* file the first is about to swap in.  A press before the quiet check is  *)
(* over lets that check enable the button again.                           *)
NothingToPressWhileWorking == Working /\ ~early => ~Enabled

(* What is swapped in is a whole download signed with the key, whatever    *)
(* fails on the way.                                                       *)
SignedOnly == ~early => program \in {"old", "new"}

(* A verified binary stays in the temp directory after an install only     *)
(* where its removal failed.  What a failed write left there stays.        *)
NothingStaysStaged ==
  ~Working /\ staged = "new" => \E i \in Installs : install[i] = "littered"

(* "A hung server does not leave the About panel saying checking until the *)
(* app is closed".                                                         *)
WorkEnds == panel \in {"checking", "installing"} ~> panel \notin {"checking", "installing"}

(* What takes the program's place is a whole download signed with the key, *)
(* one install at a time, unless a press came before the quiet check was   *)
(* over; a verified binary stays in the temp directory only where its      *)
(* removal failed (update.rs, bridge/updates.rs).                          *)
UpdateIsSafe ==
  UpdatesTypeOK /\ SignedOnly /\ NothingStaysStaged /\ NothingToPressWhileWorking
=============================================================================
