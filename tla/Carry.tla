-------------------------------- MODULE Carry --------------------------------
(***************************************************************************)
(* carry() of zerem-engine/relocate.rs: the files of a finished download   *)
(* go to where they are kept, by renaming them and, when that fails for    *)
(* any of them, by copying all, checking every length, and deleting the    *)
(* originals only then.                                                    *)
(*                                                                         *)
(* One action is one call on the file system: each of them may fail, and   *)
(* the process may die between two.  `Mishaps` are the failures of calls   *)
(* whose result the code throws away, or leaves something behind by:       *)
(* "undo", "partial", "metadata", "removal", "stranger", "folder".         *)
(***************************************************************************)
EXTENDS Integers

CONSTANTS
  LastStep,        \* the number of steps of the plan
  Depth,       \* how deep under the torrent's folder each file lies
  Mishaps,     \* the failures nobody looks at that may happen in this instance
  MaxTries     \* bound: how often the plan is carried out

Steps == 1 .. LastStep

(* A plan has a number of steps, each of a file somewhere under a folder.  *)
Plan == LastStep \in Nat /\ Depth \in [Steps -> Nat] /\ MaxTries \in Nat

ASSUME CarryAssumption == Plan

VARIABLES
  from, to,    \* what is at the two ends of every step
  dirs,        \* the folders left where the files came from
  at,          \* the call that comes next
  n,           \* the step it is about
  done,        \* `renamed`, and then the `done` of copy_all
  todo,        \* the folders prune() has still to try
  result,      \* what carry() returned
  before,      \* `from` and `to` when it was called
  tries,
  mishaps      \* the failures that may happen in this behaviour

carryVars == <<from, to, dirs, at, n, done, todo, result, before, tries, mishaps>>

(* One folder inside another, known by their depths: those of the files    *)
(* and those above them.                                                   *)
Above == UNION {0 .. Depth[f] : f \in Steps}

Content == {"none", "mine", "short", "theirs"}

Calls == {"idle", "check", "folders", "rename", "undo", "copy", "verify", "uncopy",
          "delete", "prune"}

CarryTypeOK ==
  /\ from \in [Steps -> {"none", "mine"}]
  /\ to \in [Steps -> Content]
  /\ dirs \subseteq Above
  /\ at \in Calls
  /\ n \in 1 .. LastStep + 1
  /\ done \subseteq Steps
  /\ todo \subseteq Above
  /\ result \in {"none", "running", "moved", "refused", "died"}
  /\ before \in [from : [Steps -> {"none", "mine"}], to : [Steps -> Content]]
  /\ tries \in 0 .. MaxTries
  /\ mishaps \subseteq Mishaps

(* A file left out may never have been written; a destination may be taken *)
(* by somebody's file before anything is carried.                          *)
CarryInit ==
  /\ from \in [Steps -> {"none", "mine"}]
  /\ to \in [Steps -> {"none", "theirs"}]
  /\ dirs = Above
  /\ at = "idle" /\ n = 1 /\ done = {} /\ todo = {}
  /\ result = "none"
  /\ before = [from |-> from, to |-> to]
  /\ tries = 0
  /\ mishaps \in SUBSET Mishaps

Return(r) ==
  /\ at' = "idle"
  /\ result' = r
  /\ n' = 1 /\ done' = {} /\ todo' = {}

Call ==
  /\ at = "idle" /\ tries < MaxTries
  /\ tries' = tries + 1
  /\ result' = "running"
  /\ before' = [from |-> from, to |-> to]
  /\ at' = "check"
  /\ UNCHANGED <<from, to, dirs, n, done, todo, mishaps>>

(* Both ends have to exist for it to be a collision.                       *)
Taken(f) == to[f] # "none" /\ from[f] # "none"

Check ==
  /\ at = "check"
  /\ IF \E f \in Steps : Taken(f)
     THEN Return("refused")
     ELSE at' = "folders" /\ UNCHANGED <<n, done, todo, result>>
  /\ UNCHANGED <<from, to, dirs, before, tries, mishaps>>

Folders ==
  /\ at = "folders"
  /\ \/ at' = "rename" /\ UNCHANGED <<n, done, todo, result>>
     \/ Return("refused")
  /\ UNCHANGED <<from, to, dirs, before, tries, mishaps>>

(* fs::rename replaces what is at the destination.                         *)
Rename ==
  /\ at = "rename" /\ n \in Steps
  /\ \/ /\ from[n] # "none"
        /\ from' = [from EXCEPT ![n] = "none"]
        /\ to' = [to EXCEPT ![n] = from[n]]
        /\ done' = done \cup {n}
        /\ n' = n + 1
        /\ UNCHANGED at
     \/ at' = "undo" /\ UNCHANGED <<from, to, n, done>>
  /\ UNCHANGED <<dirs, todo, result, before, tries, mishaps>>

Renamed ==
  /\ at = "rename" /\ n = LastStep + 1
  /\ at' = "prune"
  /\ todo' = {Depth[f] : f \in Steps}
  /\ UNCHANGED <<from, to, dirs, n, done, result, before, tries, mishaps>>

(* The renames that worked go back, the first one first.                   *)
Undo ==
  /\ at = "undo" /\ done # {}
  /\ \E f \in done :
       /\ \A g \in done : f <= g
       /\ done' = done \ {f}
       /\ \/ from' = [from EXCEPT ![f] = to[f]] /\ to' = [to EXCEPT ![f] = "none"]
          \/ "undo" \in mishaps /\ UNCHANGED <<from, to>>
  /\ UNCHANGED <<dirs, at, n, todo, result, before, tries, mishaps>>

Undone ==
  /\ at = "undo" /\ done = {}
  /\ at' = "copy" /\ n' = 1
  /\ UNCHANGED <<from, to, dirs, done, todo, result, before, tries, mishaps>>

(* copy_all(): a step whose file is there already is skipped.              *)
There(f) == from[f] = "none" /\ to[f] # "none"

SkipCopy ==
  /\ at = "copy" /\ n \in Steps /\ There(n)
  /\ n' = n + 1
  /\ UNCHANGED <<from, to, dirs, at, done, todo, result, before, tries, mishaps>>

Copy ==
  /\ at = "copy" /\ n \in Steps /\ ~There(n)
  /\ \/ /\ from[n] # "none"
        /\ \E c \in {"mine", "short"} : to' = [to EXCEPT ![n] = c]
        /\ at' = "verify"
     \/ /\ at' = "uncopy"
        /\ \/ UNCHANGED to
           \/ "partial" \in mishaps /\ from[n] # "none" /\ to' = [to EXCEPT ![n] = "short"]
  /\ UNCHANGED <<from, dirs, n, done, todo, result, before, tries, mishaps>>

(* Mutant: whatever was copied is taken for the file.                      *)
Verify_Trusts ==
  /\ at = "verify"
  /\ done' = done \cup {n} /\ n' = n + 1 /\ at' = "copy"
  /\ UNCHANGED <<from, to, dirs, todo, result, before, tries, mishaps>>

(* Mutant: a short copy stays.                                             *)
Verify_LeavesShort ==
  /\ at = "verify"
  /\ IF to[n] = "mine" THEN done' = done \cup {n} /\ n' = n + 1 /\ at' = "copy"
                       ELSE at' = "uncopy" /\ UNCHANGED <<n, done>>
  /\ UNCHANGED <<from, to, dirs, todo, result, before, tries, mishaps>>

(* The length of the copy against that of the original.                    *)
Verify ==
  /\ at = "verify"
  /\ \/ /\ to[n] = "mine"
        /\ done' = done \cup {n} /\ n' = n + 1 /\ at' = "copy"
        /\ UNCHANGED to
     \/ /\ to[n] = "short"
        /\ to' = [to EXCEPT ![n] = "none"]
        /\ at' = "uncopy"
        /\ UNCHANGED <<n, done>>
     \/ "metadata" \in mishaps /\ at' = "uncopy" /\ UNCHANGED <<to, n, done>>
  /\ UNCHANGED <<from, dirs, todo, result, before, tries, mishaps>>

Uncopy ==
  /\ at = "uncopy" /\ done # {}
  /\ \E f \in done :
       /\ \A g \in done : f <= g
       /\ done' = done \ {f}
       /\ \/ to' = [to EXCEPT ![f] = "none"]
          \/ "removal" \in mishaps /\ UNCHANGED to
  /\ UNCHANGED <<from, dirs, at, n, todo, result, before, tries, mishaps>>

Uncopied ==
  /\ at = "uncopy" /\ done = {}
  /\ Return("refused")
  /\ UNCHANGED <<from, to, dirs, before, tries, mishaps>>

Copied ==
  /\ at = "copy" /\ n = LastStep + 1
  /\ at' = "delete" /\ n' = 1
  /\ UNCHANGED <<from, to, dirs, done, todo, result, before, tries, mishaps>>

(* An original somebody has open stays, and the move goes on.              *)
Delete ==
  /\ at = "delete" /\ n \in Steps
  /\ n' = n + 1
  /\ from' = [from EXCEPT ![n] = "none"] \/ UNCHANGED from
  /\ UNCHANGED <<to, dirs, at, done, todo, result, before, tries, mishaps>>

Deleted ==
  /\ at = "delete" /\ n = LastStep + 1
  /\ at' = "prune"
  /\ todo' = {Depth[f] : f \in Steps}
  /\ UNCHANGED <<from, to, dirs, n, done, result, before, tries, mishaps>>

Emptied(d) ==
  /\ \A f \in Steps : Depth[f] = d => from[f] = "none"
  /\ \A e \in dirs : e <= d

(* prune(): the folders of the files, the deepest first.  remove_dir       *)
(* refuses one that has something in it, and nobody asks what it said.     *)
Prune ==
  /\ at = "prune" /\ todo # {}
  /\ \E d \in todo :
       /\ \A e \in todo : e <= d
       /\ todo' = todo \ {d}
       /\ \/ Emptied(d) /\ dirs' = dirs \ {d}
          \/ (Emptied(d) => "folder" \in mishaps) /\ UNCHANGED dirs
  /\ UNCHANGED <<from, to, at, n, done, result, before, tries, mishaps>>

Pruned ==
  /\ at = "prune" /\ todo = {}
  /\ Return("moved")
  /\ UNCHANGED <<from, to, dirs, before, tries, mishaps>>

(* Somebody puts a file where one of ours is going, while we carry.        *)
Stranger ==
  /\ "stranger" \in mishaps /\ at # "idle"
  /\ \E f \in Steps : to[f] = "none" /\ to' = [to EXCEPT ![f] = "theirs"]
  /\ UNCHANGED <<from, dirs, at, n, done, todo, result, before, tries, mishaps>>

(* The process dies; the next one finds the torrent complete where it was. *)
CarryDies ==
  /\ at # "idle"
  /\ Return("died")
  /\ UNCHANGED <<from, to, dirs, before, tries, mishaps>>

Work == Check \/ Folders \/ Rename \/ Renamed \/ Undo \/ Undone \/ SkipCopy \/ Copy \/ Verify
        \/ Uncopy \/ Uncopied \/ Copied \/ Delete \/ Deleted \/ Prune \/ Pruned

CarryNext == Call \/ Work \/ Stranger \/ CarryDies

CarrySpec == CarryInit /\ [][CarryNext]_carryVars

-----------------------------------------------------------------------------
(* Where a file is in full.                                                *)
Held(ends) == [f \in Steps |-> (IF ends.from[f] = "mine" THEN {"from"} ELSE {})
                               \cup (IF ends.to[f] = "mine" THEN {"to"} ELSE {})]

Promise == INSTANCE Move WITH
  Files   <- Steps,
  place   <- Held([from |-> from, to |-> to]),
  before  <- Held(before),
  outcome <- result,
  clean   <- mishaps \cap {"undo", "metadata", "removal"} = {}

(* "Nothing is moved onto anything": a file of somebody else at a          *)
(* destination is there after the move as before (relocate.rs carry), if   *)
(* it was there when the plan was looked through.                          *)
NothingOverwritten ==
  [][\A f \in Steps : to[f] = "theirs" /\ "stranger" \notin mishaps => to'[f] = "theirs"]_carryVars

(* The calls, their failures and a death between any two of them keep what *)
(* the caller is promised: everything at the destination on success,       *)
(* everything where it was on a fault, every file somewhere always, and    *)
(* nobody else's file replaced (relocate.rs carry).                        *)
MoveIsSafe == Promise!Spec /\ NothingOverwritten

(* A refused move leaves nothing of its own at the far end, so the next    *)
(* attempt does not take its own leavings for somebody's files             *)
(* (relocate.rs carry: "nothing has changed that the caller has to clean   *)
(* up").                                                                   *)
NothingLeftBehind ==
  result = "refused" /\ mishaps \cap {"undo", "partial", "metadata", "removal"} = {} =>
    \A f \in Steps : to[f] \in {"mine", "short"} => before.to[f] = to[f]

(* The folders the move emptied are gone when it is over (relocate.rs      *)
(* prune).                                                                 *)
NoEmptyFolder ==
  result = "moved" /\ "folder" \notin mishaps =>
    \A d \in dirs : \E f \in Steps : d <= Depth[f] /\ from[f] # "none"

(* A move that is over, for good or ill, leaves nothing of its own that it *)
(* should have taken away: no copies at the far end after a refusal, no    *)
(* folders it emptied after a success (relocate.rs carry, prune).          *)
LeavesNothing == CarryTypeOK /\ NothingLeftBehind /\ NoEmptyFolder
=============================================================================
