---------------------------- MODULE IntakeProofs ----------------------------
(***************************************************************************)
(* The add dialog and the watched folder keep their record straight, for   *)
(* every set of links, torrents and files, every way the two may be used,  *)
(* and however late an answer comes.                                       *)
(*                                                                         *)
(* Inv types every variable and says of every message under way what its   *)
(* reader relies on.  Quiet is what holds besides while no question is     *)
(* asked before the one in the window is answered and nothing is handed in *)
(* twice: it ties the question in the window, in the snapshot, in the      *)
(* engine and in the commands on their way to one link.                    *)
(***************************************************************************)
EXTENDS Intake, TLAPS

(* The types of what is kept and of what travels.                          *)
Statuses == {"none", "fetching", "ready", "failed"}
Message  == [cmd : Commands, link : Links \cup Torrents \cup {None}, ticks : SUBSET Nat,
             all : BOOLEAN, q : 0 .. MaxAsks]
Question == [link : Links \cup {None}, st : Statuses, q : 0 .. MaxAsks]
Read     == [link : Links, ok : BOOLEAN]
Entry    == [in : BOOLEAN, only : SUBSET Nat, folder : Torrents \cup {None}, stopped : BOOLEAN,
             shown : Torrents \cup {None}, ticked : SUBSET Nat]
Dialog   == [open : BOOLEAN, link : Links \cup {None}, rows : Nat, ticks : SUBSET Nat,
             st : Statuses, q : 0 .. MaxAsks]

(* Types of the state of the engine, of the watched folder and of the      *)
(* window.                                                                 *)
Engine ==
  /\ at \in {"select", "adding", "sweep", "names", "publish"}
  /\ inbox \in Seq(Message) /\ reads \in Seq(Read)
  /\ pending \in Question /\ bytes \in Torrents \cup {None}
  /\ task \in Links \cup {None} /\ adding \in Links \cup {None}
  /\ at = "adding" => adding \in Links
  /\ list \in [Torrents -> Entry]
  /\ since \in 0 .. Every - 1 /\ names \subseteq Files

Folder ==
  /\ waiting \in [Files -> Torrents \cup {None, Broken}]
  /\ added \in [Files -> Torrents \cup {None}]
  /\ failed \in [Files -> {None, Broken}]

Screen ==
  /\ published \in Question /\ news \in BOOLEAN
  /\ dialog \in Dialog /\ dialog.ticks \subseteq 1 .. dialog.rows
  /\ assigned \subseteq Torrents

Tally == habits \in Worlds /\ handed \subseteq Torrents /\ asks \in 0 .. MaxAsks

(* The commands on their way to the engine.                                *)
Sent == {inbox[i] : i \in 1 .. Len(inbox)}

(* What is asked about is a link; what was read is a torrent.              *)
Legible(p) ==
  /\ p.st # "none" => p.link \in Links
  /\ p.st = "ready" => Of[p.link] \in Torrents

Drawable(d) ==
  /\ d.open => d.link \in Links
  /\ d.st = "ready" => d.link \in Links /\ Of[d.link] \in Torrents /\ d.rows = Rows[Of[d.link]]

Readable ==
  /\ Legible(pending) /\ Legible(published) /\ Drawable(dialog)
  /\ \A i \in 1 .. Len(reads) : reads[i].ok => Of[reads[i].link] \in Torrents

(* What the engine relies on in a command: a confirmation is of a torrent  *)
(* that was read, and ticks rows of it.                                    *)
Sensible(c) ==
  /\ c.cmd \in {"inspect", "add", "confirm"} => c.link \in Links
  /\ c.cmd = "stop" => c.link \in Torrents
  /\ c.cmd = "confirm" => /\ Of[c.link] \in Torrents
                          /\ c.ticks \subseteq RowsOf(Of[c.link])
                          /\ c.all <=> c.ticks = RowsOf(Of[c.link])

AllSensible == \A c \in Sent : Sensible(c)

(* Only files of the torrent are selected.                                 *)
Picked == \A t \in Torrents : list[t].only \subseteq RowsOf(t)

(* The inductive invariant; its last two parts are the properties          *)
(* themselves.                                                             *)
Inv == /\ Engine /\ Folder /\ Screen /\ Tally /\ Readable /\ AllSensible /\ Picked
       /\ AnswersItsQuestion /\ RecordTellsTruth

(* One element more, at the end.                                           *)
LEMMA Appended ==
  ASSUME NEW S, NEW s \in Seq(S), NEW e \in S
  PROVE  /\ Append(s, e) \in Seq(S)
         /\ \A i \in 1 .. Len(Append(s, e)) :
              \/ i \in 1 .. Len(s) /\ Append(s, e)[i] = s[i]
              \/ i = Len(s) + 1 /\ Append(s, e)[i] = e
OBVIOUS

(* One element less, from the front.                                       *)
LEMMA Taken ==
  ASSUME NEW S, NEW s \in Seq(S), s # <<>>
  PROVE  /\ Tail(s) \in Seq(S) /\ Head(s) = s[1] /\ Head(s) \in S /\ 1 \in 1 .. Len(s)
         /\ \A i \in 1 .. Len(Tail(s)) : i + 1 \in 1 .. Len(s) /\ Tail(s)[i] = s[i + 1]
OBVIOUS

(* A command more, at the end; one less, from the front.                   *)
LEMMA Posted ==
  ASSUME inbox \in Seq(Message), NEW e \in Message, inbox' = Append(inbox, e)
  PROVE  /\ inbox' \in Seq(Message)
         /\ Sent' \subseteq Sent \cup {e}
         /\ \A i \in 1 .. Len(inbox') : \/ i \in 1 .. Len(inbox) /\ inbox'[i] = inbox[i]
                                        \/ i = Len(inbox) + 1 /\ inbox'[i] = e
<1>1. /\ inbox' \in Seq(Message)
      /\ \A i \in 1 .. Len(inbox') : \/ i \in 1 .. Len(inbox) /\ inbox'[i] = inbox[i]
                                     \/ i = Len(inbox) + 1 /\ inbox'[i] = e
  BY Appended
<1>2. Sent' \subseteq Sent \cup {e}
  BY <1>1 DEF Sent
<1> QED BY <1>1, <1>2

(* One command less: those left are those that were behind it.             *)
LEMMA Fetched ==
  ASSUME inbox \in Seq(Message), inbox # <<>>, inbox' = Tail(inbox)
  PROVE  /\ inbox' \in Seq(Message)
         /\ Head(inbox) = inbox[1] /\ Head(inbox) \in Sent /\ Head(inbox) \in Message
         /\ Sent' \subseteq Sent
         /\ \A i \in 1 .. Len(inbox') : i + 1 \in 1 .. Len(inbox) /\ inbox'[i] = inbox[i + 1]
<1>1. /\ inbox' \in Seq(Message) /\ Head(inbox) = inbox[1] /\ Head(inbox) \in Message
      /\ 1 \in 1 .. Len(inbox)
      /\ \A i \in 1 .. Len(inbox') : i + 1 \in 1 .. Len(inbox) /\ inbox'[i] = inbox[i + 1]
  BY Taken
<1>2. Sent' \subseteq Sent /\ Head(inbox) \in Sent
  BY <1>1 DEF Sent
<1> QED BY <1>1, <1>2

(* The rows of a torrent are numbers, and its folder is its own or none.   *)
LEMMA RowsAreNumbers ==
  ASSUME NEW t \in Torrents
  PROVE  RowsOf(t) \in SUBSET Nat /\ Rows[t] \in Nat /\ Own(t) \in Torrents \cup {None}
BY RowAssumption DEF RowsOf, Own

(* What a dialog shows after a snapshot.                                   *)
LEMMA DrawnIs ==
  ASSUME NEW d \in Dialog, d.ticks \subseteq 1 .. d.rows, Drawable(d),
         NEW p \in Question, Legible(p)
  PROVE  /\ Drawn(d, p) \in Dialog /\ Drawn(d, p).ticks \subseteq 1 .. Drawn(d, p).rows
         /\ Drawable(Drawn(d, p))
         /\ Drawn(d, p).open => p.st # "none" /\ Drawn(d, p).link = p.link
<1>1. Count(p) \in Nat /\ (1 .. Count(p)) \in SUBSET Nat
  BY RowsAreNumbers DEF Count, Known, Legible
<1>2. p.st = "ready" => Count(p) = Rows[Of[p.link]]
  BY LinkAssumption DEF Count, Known, Legible
<1>3. CASE p.st = "none"
  BY <1>3 DEF Drawn, Dialog, Drawable
<1>4. CASE p.st # "none" /\ (d.link # p.link \/ d.rows # Count(p))
  <2>1. Drawn(d, p) = [open |-> TRUE, link |-> p.link, rows |-> Count(p), ticks |-> 1 .. Count(p),
                       st |-> p.st, q |-> p.q]
    BY <1>4 DEF Drawn
  <2> QED BY <1>1, <1>2, <1>4, <2>1 DEF Dialog, Drawable, Legible, Question
<1>5. CASE p.st # "none" /\ d.link = p.link /\ d.rows = Count(p)
  <2>1. Drawn(d, p) = [d EXCEPT !.open = TRUE, !.st = p.st, !.q = p.q]
    BY <1>5 DEF Drawn
  <2> QED BY <1>1, <1>2, <1>5, <2>1 DEF Dialog, Drawable, Legible, Question
<1> QED BY <1>3, <1>4, <1>5

(* What an entry of the list holds after an add.                           *)
LEMMA EnteredIs ==
  ASSUME list \in [Torrents -> Entry], NEW t \in Torrents, list[t].only \subseteq RowsOf(t),
         NEW only \in SUBSET RowsOf(t), NEW where \in Torrents \cup {None},
         NEW shown \in Torrents \cup {None}, NEW ticked \in SUBSET Nat
  PROVE  /\ Entered(t, only, where, shown, ticked) \in Entry
         /\ Entered(t, only, where, shown, ticked).in
         /\ Entered(t, only, where, shown, ticked).only \subseteq RowsOf(t)
         /\ Entered(t, only, where, shown, ticked).shown = shown
BY RowsAreNumbers DEF Entered, Entry

(* What the list holds after the watched folder or the command line added  *)
(* something: whoever is in stays in, and nothing a dialog showed          *)
(* changes.                                                                *)
LEMMA AddedIs ==
  ASSUME list \in [Torrents -> Entry], Picked, NEW x
  PROVE  /\ AfterAdd(x) \in [Torrents -> Entry]
         /\ \A t \in Torrents :
              /\ AfterAdd(x)[t].only \subseteq RowsOf(t)
              /\ AfterAdd(x)[t].in <=> list[t].in \/ t = x
              /\ AfterAdd(x)[t] = list[t] \/ (t = x /\ AfterAdd(x)[t].shown = None)
<1>1. CASE x \notin Torrents
  BY <1>1 DEF AfterAdd, Picked
<1>2. CASE x \in Torrents
  <2> DEFINE e == Entered(x, RowsOf(x), Own(x), None, {})
  <2>1. e \in Entry /\ e.in /\ e.only \subseteq RowsOf(x) /\ e.shown = None
    BY <1>2, EnteredIs, RowsAreNumbers DEF Picked
  <2>2. AfterAdd(x) = [list EXCEPT ![x] = e]
    BY <1>2 DEF AfterAdd
  <2> HIDE DEF e
  <2> QED BY <1>2, <2>1, <2>2 DEF Picked
<1> QED BY <1>1, <1>2

(* The two commands that carry an answer, or a question.                   *)
LEMMA InspectIs ==
  ASSUME NEW l \in Links, asks + 1 \in 0 .. MaxAsks
  PROVE  Inspect(l) \in Message /\ Inspect(l).cmd = "inspect" /\ Inspect(l).link = l
<1>1. Inspect(l) \in Message
  BY DEF Inspect, Plain, Message, Commands
<1>2. Inspect(l).cmd = "inspect" /\ Inspect(l).link = l
  BY DEF Inspect, Plain
<1> QED BY <1>1, <1>2

(* What the dialog sends when Add is pressed.                              *)
Confirmation(l, t, e) == [Plain("confirm", l) EXCEPT !.ticks = t, !.all = e]

(* A confirmation carries the link, the ticks and whether they are all.    *)
LEMMA ConfirmationIs ==
  ASSUME NEW l \in Links \cup {None}, NEW t \in SUBSET Nat, NEW e \in BOOLEAN
  PROVE  /\ Confirmation(l, t, e) \in Message
         /\ Confirmation(l, t, e).cmd = "confirm" /\ Confirmation(l, t, e).link = l
         /\ Confirmation(l, t, e).ticks = t /\ Confirmation(l, t, e).all = e
<1> DEFINE p == Plain("confirm", l)
           m == [p EXCEPT !.ticks = t, !.all = e]
<1>1. p \in Message /\ p.cmd = "confirm" /\ p.link = l
  BY BoundAssumption DEF Plain, Message, Commands
<1> HIDE DEF p
<1>2. m \in Message
  BY <1>1 DEF Message
<1>3. m.cmd = "confirm" /\ m.link = l /\ m.ticks = t /\ m.all = e
  BY <1>1 DEF Message
<1> QED BY <1>2, <1>3 DEF p, Confirmation

----------------------------------------------------------------------------
(* A question from the window keeps the invariant: it is about a link.     *)
LEMMA AskInv ==
  ASSUME Inv, NEW l \in Links, Ask(l)
  PROVE  Inv'
<1> USE DEF Ask, engine, folder, window
<1>1. Inspect(l) \in Message /\ Sensible(Inspect(l))
  <2>1. asks + 1 \in 0 .. MaxAsks
    BY BoundAssumption DEF HandIn, Inv, Tally
  <2> QED BY <2>1, InspectIs DEF Sensible
<1>2. inbox' \in Seq(Message) /\ Sent' \subseteq Sent \cup {Inspect(l)}
  BY <1>1, Posted DEF Inv, Engine
<1>3. /\ Drawn(dialog, published) \in Dialog /\ Drawable(Drawn(dialog, published))
      /\ Drawn(dialog, published).ticks \subseteq 1 .. Drawn(dialog, published).rows
  BY DrawnIs DEF Inv, Screen, Readable
<1>4. asks' \in 0 .. MaxAsks /\ handed' \subseteq Torrents
  BY BoundAssumption DEF HandIn, Inv, Tally
<1>5. Engine'
  BY <1>2 DEF Inv, Engine
<1>6. Folder' /\ Picked' /\ AnswersItsQuestion' /\ RecordTellsTruth'
  BY DEF Inv, Folder, Picked, AnswersItsQuestion, RecordTellsTruth
<1>7. Screen'
  BY <1>3 DEF Inv, Screen
<1>8. Tally'
  BY <1>4 DEF Inv, Tally
<1>9. Readable'
  BY <1>3 DEF Inv, Readable
<1>10. AllSensible'
  BY <1>1, <1>2 DEF Inv, AllSensible
<1> QED BY <1>5, <1>6, <1>7, <1>8, <1>9, <1>10 DEF Inv

(* So does a link from the command line.                                   *)
LEMMA LaunchInv ==
  ASSUME Inv, NEW l \in Links, Launch(l)
  PROVE  Inv'
<1> USE DEF Launch, engine, folder, window
<1>1. Plain("add", l) \in Message /\ Sensible(Plain("add", l))
  BY BoundAssumption DEF Plain, Message, Commands, Sensible
<1>2. inbox' \in Seq(Message) /\ Sent' \subseteq Sent \cup {Plain("add", l)}
  BY <1>1, Posted DEF Inv, Engine
<1>3. asks' \in 0 .. MaxAsks /\ handed' \subseteq Torrents
  BY BoundAssumption DEF HandIn, Inv, Tally
<1>4. Engine'
  BY <1>2 DEF Inv, Engine
<1>5. /\ Folder' /\ Screen' /\ Readable' /\ Picked' /\ AnswersItsQuestion'
      /\ RecordTellsTruth'
  BY DEF Inv, Folder, Screen, Readable, Picked, AnswersItsQuestion, RecordTellsTruth
<1>6. Tally'
  BY <1>3 DEF Inv, Tally
<1>7. AllSensible'
  BY <1>1, <1>2 DEF Inv, AllSensible
<1> QED BY <1>4, <1>5, <1>6, <1>7 DEF Inv

(* So does a file dropped into the watched folder.                         *)
LEMMA DropInv ==
  ASSUME Inv, NEW n \in Files, NEW t \in Torrents \cup {Broken}, Drop(n, t)
  PROVE  Inv'
<1> USE DEF Drop, engine, folder, window
<1>1. Sent' = Sent
  BY DEF Sent
<1>2. asks' \in 0 .. MaxAsks /\ handed' \subseteq Torrents
  BY BoundAssumption DEF HandIn, Inv, Tally
<1>3. /\ Engine' /\ Folder' /\ Screen' /\ Readable' /\ Picked' /\ AnswersItsQuestion'
      /\ RecordTellsTruth'
  BY DEF Inv, Engine, Folder, Screen, Readable, Picked, AnswersItsQuestion, RecordTellsTruth
<1>4. Tally'
  BY <1>2 DEF Inv, Tally
<1>5. AllSensible'
  BY <1>1 DEF Inv, AllSensible
<1> QED BY <1>3, <1>4, <1>5 DEF Inv

(* So does a tick in the dialog: it stays within its rows.                 *)
LEMMA ToggleInv ==
  ASSUME Inv, NEW i \in Nat, Toggle(i)
  PROVE  Inv'
<1> USE DEF Toggle, engine, folder, window
<1>1. Sent' = Sent
  BY DEF Sent
<1>2. dialog' \in Dialog /\ dialog'.ticks \subseteq 1 .. dialog'.rows
      /\ Drawable(dialog')
  BY DEF Inv, Screen, Dialog, Readable, Drawable, Click
<1>3. /\ Engine' /\ Folder' /\ Tally' /\ Picked' /\ AnswersItsQuestion'
      /\ RecordTellsTruth'
  BY DEF Inv, Engine, Folder, Tally, Picked, AnswersItsQuestion, RecordTellsTruth
<1>4. Screen'
  BY <1>2 DEF Inv, Screen
<1>5. Readable'
  BY <1>2 DEF Inv, Readable
<1>6. AllSensible'
  BY <1>1 DEF Inv, AllSensible
<1> QED BY <1>3, <1>4, <1>5, <1>6 DEF Inv

(* So does the Add button: the torrent was read, since the dialog is       *)
(* ready, and its rows are those the ticks are chosen from.                *)
LEMMA ConfirmInv ==
  ASSUME Inv, NEW shelf \in BOOLEAN, Confirm(shelf)
  PROVE  Inv'
<1> USE DEF Confirm, engine, folder, window
<1> DEFINE c == Confirmation(dialog.link, dialog.ticks, dialog.ticks = 1 .. dialog.rows)
<1>1. /\ c \in Message /\ c.cmd = "confirm" /\ c.link = dialog.link /\ c.ticks = dialog.ticks
      /\ c.all = (dialog.ticks = 1 .. dialog.rows)
  <2>1. dialog.ticks \in SUBSET Nat /\ dialog.link \in Links \cup {None}
    BY DEF Inv, Screen, Dialog
  <2> DEFINE e == dialog.ticks = 1 .. dialog.rows
             m == Confirmation(dialog.link, dialog.ticks, e)
  <2>2. e \in BOOLEAN
    OBVIOUS
  <2> HIDE DEF e
  <2>3. /\ m \in Message /\ m.cmd = "confirm" /\ m.link = dialog.link
        /\ m.ticks = dialog.ticks /\ m.all = e
    BY <2>1, <2>2, ConfirmationIs
  <2> QED BY <2>3 DEF e
<1>2. Sensible(c)
  <2>1. /\ dialog.link \in Links /\ Of[dialog.link] \in Torrents
        /\ dialog.rows = Rows[Of[dialog.link]] /\ dialog.ticks \subseteq 1 .. dialog.rows
    BY DEF Inv, Screen, Readable, Drawable
  <2>2. RowsOf(Of[dialog.link]) = 1 .. dialog.rows
    BY <2>1 DEF RowsOf
  <2> QED BY <1>1, <2>1, <2>2 DEF Sensible
<1> HIDE DEF c
<1>3. inbox' = Append(inbox, c)
  BY DEF c, Confirmation
<1>4. inbox' \in Seq(Message) /\ Sent' \subseteq Sent \cup {c}
  BY <1>1, <1>3, Posted DEF Inv, Engine
<1>5. /\ dialog' \in Dialog /\ Drawable(dialog') /\ dialog'.ticks \subseteq 1 .. dialog'.rows
  <2>1. /\ [dialog EXCEPT !.open = FALSE] \in Dialog /\ Drawable([dialog EXCEPT !.open = FALSE])
        /\ [dialog EXCEPT !.open = FALSE].ticks \subseteq 1 .. [dialog EXCEPT !.open = FALSE].rows
    BY DEF Inv, Screen, Readable, Drawable, Dialog
  <2> QED BY <2>1, DrawnIs DEF Inv, Screen, Readable
<1>6. assigned' \subseteq Torrents
  BY LinkAssumption DEF Inv, Screen, Readable, Legible, Known
<1>7. Engine'
  BY <1>4 DEF Inv, Engine
<1>8. Folder' /\ Tally' /\ Picked' /\ AnswersItsQuestion' /\ RecordTellsTruth'
  BY DEF Inv, Folder, Tally, Picked, AnswersItsQuestion, RecordTellsTruth
<1>9. Screen'
  BY <1>5, <1>6 DEF Inv, Screen
<1>10. Readable'
  BY <1>5 DEF Inv, Readable
<1>11. AllSensible'
  BY <1>2, <1>4 DEF Inv, AllSensible
<1> QED BY <1>7, <1>8, <1>9, <1>10, <1>11 DEF Inv

(* So does the Cancel button.                                              *)
LEMMA CancelInv ==
  ASSUME Inv, Cancel
  PROVE  Inv'
<1> USE DEF Cancel, engine, folder, window
<1>1. Plain("cancel", None) \in Message /\ Sensible(Plain("cancel", None))
  BY BoundAssumption DEF Plain, Message, Commands, Sensible
<1>2. inbox' \in Seq(Message) /\ Sent' \subseteq Sent \cup {Plain("cancel", None)}
  BY <1>1, Posted DEF Inv, Engine
<1>3. dialog' \in Dialog /\ dialog'.ticks \subseteq 1 .. dialog'.rows
      /\ Drawable(dialog')
  BY DEF Inv, Screen, Dialog, Readable, Drawable
<1>4. Engine'
  BY <1>2 DEF Inv, Engine
<1>5. Folder' /\ Tally' /\ Picked' /\ AnswersItsQuestion' /\ RecordTellsTruth'
  BY DEF Inv, Folder, Tally, Picked, AnswersItsQuestion, RecordTellsTruth
<1>6. Screen'
  BY <1>3 DEF Inv, Screen
<1>7. Readable'
  BY <1>3 DEF Inv, Readable
<1>8. AllSensible'
  BY <1>1, <1>2 DEF Inv, AllSensible
<1> QED BY <1>4, <1>5, <1>6, <1>7, <1>8 DEF Inv

(* So does the Stop button.                                                *)
LEMMA PressStopInv ==
  ASSUME Inv, NEW t \in Torrents, PressStop(t)
  PROVE  Inv'
<1> USE DEF PressStop, engine, folder, window
<1>1. Plain("stop", t) \in Message /\ Sensible(Plain("stop", t))
  BY BoundAssumption DEF Plain, Message, Commands, Sensible
<1>2. inbox' \in Seq(Message) /\ Sent' \subseteq Sent \cup {Plain("stop", t)}
  BY <1>1, Posted DEF Inv, Engine
<1>3. Engine'
  BY <1>2 DEF Inv, Engine
<1>4. /\ Folder' /\ Screen' /\ Tally' /\ Readable' /\ Picked' /\ AnswersItsQuestion'
      /\ RecordTellsTruth'
  BY DEF Inv, Folder, Screen, Tally, Readable, Picked, AnswersItsQuestion, RecordTellsTruth
<1>5. AllSensible'
  BY <1>1, <1>2 DEF Inv, AllSensible
<1> QED BY <1>3, <1>4, <1>5 DEF Inv

(* So does a snapshot drawn in the window.                                 *)
LEMMA DrawInv ==
  ASSUME Inv, Draw
  PROVE  Inv'
<1> USE DEF Draw, engine, folder, window
<1>1. Sent' = Sent
  BY DEF Sent
<1>2. /\ Drawn(dialog, published) \in Dialog /\ Drawable(Drawn(dialog, published))
      /\ Drawn(dialog, published).ticks \subseteq 1 .. Drawn(dialog, published).rows
  BY DrawnIs DEF Inv, Screen, Readable
<1>3. /\ Engine' /\ Folder' /\ Tally' /\ Picked' /\ AnswersItsQuestion'
      /\ RecordTellsTruth'
  BY DEF Inv, Engine, Folder, Tally, Picked, AnswersItsQuestion, RecordTellsTruth
<1>4. Screen'
  BY <1>2 DEF Inv, Screen
<1>5. Readable'
  BY <1>2 DEF Inv, Readable
<1>6. AllSensible'
  BY <1>1 DEF Inv, AllSensible
<1> QED BY <1>3, <1>4, <1>5, <1>6 DEF Inv

(* So does an answer of librqbit, whenever it comes: it says of which      *)
(* link it is, and what it read is a torrent.                              *)
LEMMA AnswerInv ==
  ASSUME Inv, Answer
  PROVE  Inv'
<1> USE DEF Answer, engine, folder, window
<1>1. Sent' = Sent
  BY DEF Sent
<1>2. PICK ok \in BOOLEAN : /\ ok => Of[task] # None
                          /\ reads' = Append(reads, [link |-> task, ok |-> ok])
  OBVIOUS
<1> DEFINE r == [link |-> task, ok |-> ok]
<1>3. r \in Read /\ (r.ok => Of[r.link] \in Torrents)
  BY <1>2, LinkAssumption DEF Inv, Engine, Read
<1> HIDE DEF r
<1>4. /\ reads' \in Seq(Read)
      /\ \A i \in 1 .. Len(reads') : reads'[i].ok => Of[reads'[i].link] \in Torrents
  <2>1. reads' = Append(reads, r) /\ reads \in Seq(Read)
    BY <1>2 DEF r, Inv, Engine
  <2> QED BY <1>3, <2>1, Appended DEF Inv, Readable
<1>5. Engine'
  BY <1>4 DEF Inv, Engine
<1>6. /\ Folder' /\ Screen' /\ Tally' /\ Picked' /\ AnswersItsQuestion'
      /\ RecordTellsTruth'
  BY DEF Inv, Folder, Screen, Tally, Picked, AnswersItsQuestion, RecordTellsTruth
<1>7. Readable'
  BY <1>4 DEF Inv, Readable
<1>8. AllSensible'
  BY <1>1 DEF Inv, AllSensible
<1> QED BY <1>5, <1>6, <1>7, <1>8 DEF Inv

(* So does the tick of the engine.                                         *)
LEMMA TickTurnInv ==
  ASSUME Inv, TickTurn
  PROVE  Inv'
<1> USE DEF TickTurn, engine, folder, window
<1>1. Sent' = Sent
  BY DEF Sent
<1>2. /\ Engine' /\ Folder' /\ Screen' /\ Tally' /\ Readable' /\ Picked'
      /\ AnswersItsQuestion' /\ RecordTellsTruth'
  BY DEF Inv, Engine, Folder, Screen, Tally, Readable, Picked, AnswersItsQuestion,
         RecordTellsTruth
<1>3. AllSensible'
  BY <1>1 DEF Inv, AllSensible
<1> QED BY <1>2, <1>3 DEF Inv

(* So does adopt_read: an answer of another link than the one in question  *)
(* is dropped, and this is what keeps the bytes with their question.       *)
LEMMA TakeReadInv ==
  ASSUME Inv, TakeRead
  PROVE  Inv'
<1> USE DEF TakeRead, engine, folder, window
<1>1. Sent' = Sent
  BY DEF Sent
<1>2. /\ Head(reads) \in Read /\ (Head(reads).ok => Of[Head(reads).link] \in Torrents)
      /\ reads' \in Seq(Read)
      /\ \A i \in 1 .. Len(reads') : reads'[i].ok => Of[reads'[i].link] \in Torrents
  BY Taken DEF Inv, Engine, Readable
<1>3. /\ pending' \in Question /\ Legible(pending')
      /\ bytes' \in Torrents \cup {None}
      /\ pending'.st = "ready" => bytes' = Of[pending'.link]
      /\ pending'.st = "failed" => bytes' = None
  <2>1. CASE Adopts(Head(reads))
    <3>1. /\ pending.link = Head(reads).link
          /\ bytes' = IF Head(reads).ok THEN Of[Head(reads).link] ELSE None
          /\ pending' = [pending EXCEPT !.st = IF Head(reads).ok THEN "ready" ELSE "failed"]
      BY <2>1 DEF Adopts
    <3>2. pending \in Question /\ Head(reads).link \in Links /\ Head(reads).ok \in BOOLEAN
      BY <1>2 DEF Inv, Engine, Read
    <3> HIDE DEF TakeRead
    <3> QED BY <1>2, <3>1, <3>2 DEF Question, Statuses, Legible
  <2>2. CASE ~Adopts(Head(reads))
    BY <2>2 DEF Inv, Engine, Readable, AnswersItsQuestion
  <2> QED BY <2>1, <2>2
<1>4. Engine'
  BY <1>2, <1>3 DEF Inv, Engine
<1>5. Folder' /\ Screen' /\ Tally' /\ Picked' /\ RecordTellsTruth'
  BY DEF Inv, Folder, Screen, Tally, Picked, RecordTellsTruth
<1>6. Readable'
  BY <1>2, <1>3 DEF Inv, Readable
<1>7. AllSensible'
  BY <1>1 DEF Inv, AllSensible
<1>8. AnswersItsQuestion'
  BY <1>3 DEF AnswersItsQuestion
<1> QED BY <1>4, <1>5, <1>6, <1>7, <1>8 DEF Inv

(* So does a new question, which takes the place of the one before.        *)
LEMMA TakeInspectInv ==
  ASSUME Inv, TakeInspect
  PROVE  Inv'
<1> USE DEF TakeInspect, engine, folder, window, Takes
<1>1. inbox \in Seq(Message) /\ inbox # <<>> /\ inbox' = Tail(inbox)
  BY DEF Inv, Engine, Takes
<1>2. /\ inbox' \in Seq(Message) /\ Sent' \subseteq Sent
      /\ Head(inbox) \in Sent /\ Head(inbox) \in Message
  BY <1>1, Fetched
<1>3. /\ pending' \in Question /\ Legible(pending') /\ pending'.st = "fetching"
      /\ task' \in Links
  <2>1. Head(inbox).link \in Links
    BY <1>2 DEF Inv, AllSensible, Sensible, Takes
  <2> QED BY <1>2, <2>1 DEF Fetching, Question, Statuses, Legible, Message
<1>4. Engine'
  BY <1>2, <1>3 DEF Inv, Engine, Takes
<1>5. Folder' /\ Tally' /\ Picked' /\ RecordTellsTruth'
  BY DEF Inv, Folder, Tally, Picked, RecordTellsTruth
<1>6. Screen'
  BY <1>3 DEF Inv, Screen
<1>7. Readable'
  BY <1>3 DEF Inv, Readable
<1>8. AllSensible'
  BY <1>2 DEF Inv, AllSensible
<1>9. AnswersItsQuestion'
  BY <1>3 DEF AnswersItsQuestion
<1> QED BY <1>4, <1>5, <1>6, <1>7, <1>8, <1>9 DEF Inv

(* So does confirm: it enters the bytes read, with the files of them the   *)
(* command ticks, or changes nothing.                                      *)
LEMMA TakeConfirmInv ==
  ASSUME Inv, TakeConfirm
  PROVE  Inv'
<1> USE DEF TakeConfirm, engine, folder, window, Takes
<1>1. inbox \in Seq(Message) /\ inbox # <<>> /\ inbox' = Tail(inbox)
  BY DEF Inv, Engine, Takes
<1>2. /\ inbox' \in Seq(Message) /\ Sent' \subseteq Sent
      /\ Head(inbox) \in Sent /\ Head(inbox) \in Message
  BY <1>1, Fetched
<1>3. NoPending \in Question /\ Legible(NoPending) /\ NoPending.st = "none"
  BY BoundAssumption DEF NoPending, Question, Statuses, Legible
<1>4. /\ list' \in [Torrents -> Entry]
      /\ \A t \in Torrents : list'[t].only \subseteq RowsOf(t) /\ (list[t].in => list'[t].in)
  <2>1. CASE UNCHANGED list
    BY <2>1 DEF Inv, Engine, Picked
  <2>2. CASE ~UNCHANGED list
    <3> DEFINE c == Head(inbox)
               e == Entered(bytes, IF c.all THEN RowsOf(bytes) ELSE c.ticks,
                            IF Count(pending) > 1 THEN Known(pending) ELSE None, Of[c.link], c.ticks)
    <3>1. /\ bytes \in Torrents /\ list' = [list EXCEPT ![bytes] = e]
          /\ c.all \/ c.ticks \subseteq RowsOf(bytes)
      BY <2>2 DEF Inv, Engine
    <3>2. Of[c.link] \in Torrents /\ c.ticks \in SUBSET Nat
      BY <1>2 DEF Inv, AllSensible, Sensible, Takes, Message
    <3>3. (IF Count(pending) > 1 THEN Known(pending) ELSE None) \in Torrents \cup {None}
      BY LinkAssumption DEF Known, Inv, Readable, Legible
    <3>4. (IF c.all THEN RowsOf(bytes) ELSE c.ticks) \in SUBSET RowsOf(bytes)
      BY <3>1
    <3>5. e \in Entry /\ e.in /\ e.only \subseteq RowsOf(bytes)
      BY <3>1, <3>2, <3>3, <3>4, EnteredIs DEF Inv, Engine, Picked
    <3> HIDE DEF e
    <3> QED BY <3>1, <3>5 DEF Inv, Engine, Picked
  <2> QED BY <2>1, <2>2
<1>5. (bytes' = bytes /\ pending' = pending) \/ (bytes' = None /\ pending' = NoPending)
  OBVIOUS
<1>6. Engine'
  BY <1>2, <1>3, <1>4, <1>5 DEF Inv, Engine, Takes
<1>7. Folder' /\ Screen' /\ Tally'
  BY DEF Inv, Folder, Screen, Tally
<1>8. Readable'
  BY <1>3, <1>5 DEF Inv, Readable
<1>9. AllSensible'
  BY <1>2 DEF Inv, AllSensible
<1>10. Picked'
  BY <1>4 DEF Picked
<1>11. AnswersItsQuestion'
  BY <1>3, <1>5 DEF Inv, AnswersItsQuestion
<1>12. RecordTellsTruth'
  BY <1>4 DEF Inv, RecordTellsTruth
<1> QED BY <1>6, <1>7, <1>8, <1>9, <1>10, <1>11, <1>12 DEF Inv

(* So does cancel.                                                         *)
LEMMA TakeCancelInv ==
  ASSUME Inv, TakeCancel
  PROVE  Inv'
<1> USE DEF TakeCancel, engine, folder, window, Takes
<1>1. inbox \in Seq(Message) /\ inbox # <<>> /\ inbox' = Tail(inbox)
  BY DEF Inv, Engine, Takes
<1>2. /\ inbox' \in Seq(Message) /\ Sent' \subseteq Sent
      /\ Head(inbox) \in Sent /\ Head(inbox) \in Message
  BY <1>1, Fetched
<1>3. NoPending \in Question /\ Legible(NoPending) /\ NoPending.st = "none"
  BY BoundAssumption DEF NoPending, Question, Statuses, Legible
<1>4. Engine'
  BY <1>2, <1>3 DEF Inv, Engine, Takes
<1>5. Folder' /\ Screen' /\ Tally' /\ Picked' /\ RecordTellsTruth'
  BY DEF Inv, Folder, Screen, Tally, Picked, RecordTellsTruth
<1>6. Readable'
  BY <1>3 DEF Inv, Readable
<1>7. AllSensible'
  BY <1>2 DEF Inv, AllSensible
<1>8. AnswersItsQuestion'
  BY <1>3 DEF AnswersItsQuestion
<1> QED BY <1>4, <1>5, <1>6, <1>7, <1>8 DEF Inv

(* So does a stop.                                                         *)
LEMMA TakeStopInv ==
  ASSUME Inv, TakeStop
  PROVE  Inv'
<1> USE DEF TakeStop, engine, folder, window, Takes
<1>1. inbox \in Seq(Message) /\ inbox # <<>> /\ inbox' = Tail(inbox)
  BY DEF Inv, Engine, Takes
<1>2. /\ inbox' \in Seq(Message) /\ Sent' \subseteq Sent
      /\ Head(inbox) \in Sent /\ Head(inbox) \in Message
  BY <1>1, Fetched
<1>3. /\ list' \in [Torrents -> Entry]
      /\ \A t \in Torrents : list'[t].only = list[t].only /\ list'[t].in = list[t].in
  <2>1. Head(inbox).link \in Torrents
    BY <1>2 DEF Inv, AllSensible, Sensible, Takes
  <2> DEFINE t == Head(inbox).link
  <2>2. list[t] \in Entry /\ list \in [Torrents -> Entry]
    BY <2>1 DEF Inv, Engine
  <2>3. [list[t] EXCEPT !.stopped = TRUE] \in Entry
    BY <2>2 DEF Entry
  <2>4. list' = [list EXCEPT ![t] = [list[t] EXCEPT !.stopped = TRUE]]
    OBVIOUS
  <2>5. [list[t] EXCEPT !.stopped = TRUE].only = list[t].only /\ [list[t] EXCEPT !.stopped = TRUE].in = list[t].in
    BY <2>2 DEF Entry
  <2> HIDE DEF TakeStop, t
  <2> QED BY <2>1, <2>2, <2>3, <2>4, <2>5 DEF t
<1>4. Engine'
  BY <1>2, <1>3 DEF Inv, Engine, Takes
<1>5. Folder' /\ Screen' /\ Tally' /\ Readable' /\ AnswersItsQuestion'
  BY DEF Inv, Folder, Screen, Tally, Readable, AnswersItsQuestion
<1>6. AllSensible'
  BY <1>2 DEF Inv, AllSensible
<1>7. Picked'
  BY <1>3 DEF Inv, Picked
<1>8. RecordTellsTruth'
  BY <1>3 DEF Inv, RecordTellsTruth
<1> QED BY <1>4, <1>5, <1>6, <1>7, <1>8 DEF Inv

(* So does the start of an add.                                            *)
LEMMA TakeAddInv ==
  ASSUME Inv, TakeAdd
  PROVE  Inv'
<1> USE DEF TakeAdd, engine, folder, window, Takes
<1>1. inbox \in Seq(Message) /\ inbox # <<>> /\ inbox' = Tail(inbox)
  BY DEF Inv, Engine, Takes
<1>2. /\ inbox' \in Seq(Message) /\ Sent' \subseteq Sent
      /\ Head(inbox) \in Sent /\ Head(inbox) \in Message
  BY <1>1, Fetched
<1>3. Head(inbox).link \in Links
  BY <1>2 DEF Inv, AllSensible, Sensible, Takes
<1>4. Engine'
  BY <1>2, <1>3 DEF Inv, Engine, Takes
<1>5. /\ Folder' /\ Screen' /\ Tally' /\ Readable' /\ Picked' /\ AnswersItsQuestion'
      /\ RecordTellsTruth'
  BY DEF Inv, Folder, Screen, Tally, Readable, Picked, AnswersItsQuestion, RecordTellsTruth
<1>6. AllSensible'
  BY <1>2 DEF Inv, AllSensible
<1> QED BY <1>4, <1>5, <1>6 DEF Inv

(* So does its end.                                                        *)
LEMMA AddedInv ==
  ASSUME Inv, Added
  PROVE  Inv'
<1> USE DEF Added, engine, folder, window
<1>1. Sent' = Sent
  BY DEF Sent
<1>2. /\ list' \in [Torrents -> Entry] /\ Picked'
      /\ \A t \in Torrents : list'[t].in <=> list[t].in \/ t = Of[adding]
  BY AddedIs DEF Inv, Engine, Picked
<1>3. Engine'
  BY <1>2 DEF Inv, Engine
<1>4. Folder' /\ Screen' /\ Tally' /\ Readable' /\ AnswersItsQuestion'
  BY DEF Inv, Folder, Screen, Tally, Readable, AnswersItsQuestion
<1>5. AllSensible'
  BY <1>1 DEF Inv, AllSensible
<1>6. Picked'
  BY <1>2
<1>7. RecordTellsTruth'
  BY <1>2 DEF Inv, RecordTellsTruth
<1> QED BY <1>3, <1>4, <1>5, <1>6, <1>7 DEF Inv

(* So does a look at the watched folder.                                   *)
LEMMA SweepInv ==
  ASSUME Inv, Sweep
  PROVE  Inv'
<1> USE DEF Sweep, engine, folder, window
<1>1. Sent' = Sent
  BY DEF Sent
<1>2. since' \in 0 .. Every - 1
  BY EveryAssumption DEF Inv, Engine
<1>3. Engine'
  BY <1>2 DEF Inv, Engine
<1>4. /\ Folder' /\ Screen' /\ Tally' /\ Readable' /\ Picked' /\ AnswersItsQuestion'
      /\ RecordTellsTruth'
  BY DEF Inv, Folder, Screen, Tally, Readable, Picked, AnswersItsQuestion, RecordTellsTruth
<1>5. AllSensible'
  BY <1>1 DEF Inv, AllSensible
<1> QED BY <1>3, <1>4, <1>5 DEF Inv

(* So does each file it finds: what is recorded as added is in the list    *)
(* by then, and what is recorded as failed could not be read.              *)
LEMMA SweepOneInv ==
  ASSUME Inv, SweepOne
  PROVE  Inv'
<1> USE DEF SweepOne, engine, folder, window
<1>1. Sent' = Sent
  BY DEF Sent
<1>2. PICK n \in names : /\ names' = names \ {n} /\ list' = AfterAdd(waiting[n])
                      /\ Park(n)
  OBVIOUS
<1>3. /\ list' \in [Torrents -> Entry] /\ Picked'
      /\ \A t \in Torrents : list'[t].in <=> list[t].in \/ t = waiting[n]
  BY <1>2, AddedIs DEF Inv, Engine, Picked
<1>4. n \in Files /\ waiting[n] \in Torrents \cup {None, Broken}
  BY <1>2 DEF Inv, Engine, Folder
<1>5. Engine'
  BY <1>2, <1>3 DEF Inv, Engine
<1>6. Folder'
  <2> HIDE DEF SweepOne
  <2>1. waiting' = waiting \/ waiting' = [waiting EXCEPT ![n] = None]
    BY <1>2 DEF Park, folder
  <2>2. added' = added \/ (waiting[n] # Broken /\ added' = [added EXCEPT ![n] = waiting[n]])
    BY <1>2 DEF Park, folder
  <2>3. failed' = failed \/ (waiting[n] = Broken /\ failed' = [failed EXCEPT ![n] = waiting[n]])
    BY <1>2 DEF Park, folder
  <2> QED BY <1>4, <2>1, <2>2, <2>3 DEF Inv, Folder
<1>7. Screen' /\ Tally' /\ Readable' /\ AnswersItsQuestion'
  BY DEF Inv, Screen, Tally, Readable, AnswersItsQuestion
<1>8. AllSensible'
  BY <1>1 DEF Inv, AllSensible
<1>9. Picked'
  BY <1>3
<1>10. RecordTellsTruth'
  <2> HIDE DEF SweepOne
  <2>1. added' = added \/ (waiting[n] # Broken /\ added' = [added EXCEPT ![n] = waiting[n]])
    BY <1>2 DEF Park, folder
  <2>2. failed' \in [Files -> {None, Broken}] /\ added \in [Files -> Torrents \cup {None}]
    BY <1>6 DEF Inv, Folder
  <2>3. \A m \in Files : added'[m] \in Torrents \cup {None} /\ (added'[m] = added[m] \/ added'[m] = waiting[n])
    BY <1>4, <2>1, <2>2
  <2> QED BY <1>3, <2>2, <2>3, LinkAssumption DEF Inv, RecordTellsTruth
<1> QED BY <1>5, <1>6, <1>7, <1>8, <1>9, <1>10 DEF Inv

(* So does the end of the sweep.                                           *)
LEMMA SweptInv ==
  ASSUME Inv, Swept
  PROVE  Inv'
<1> USE DEF Swept, engine, folder, window
<1>1. Sent' = Sent
  BY DEF Sent
<1>2. /\ Engine' /\ Folder' /\ Screen' /\ Tally' /\ Readable' /\ Picked'
      /\ AnswersItsQuestion' /\ RecordTellsTruth'
  BY DEF Inv, Engine, Folder, Screen, Tally, Readable, Picked, AnswersItsQuestion,
         RecordTellsTruth
<1>3. AllSensible'
  BY <1>1 DEF Inv, AllSensible
<1> QED BY <1>2, <1>3 DEF Inv

(* So does the snapshot.                                                   *)
LEMMA PublishInv ==
  ASSUME Inv, Publish
  PROVE  Inv'
<1> USE DEF Publish, engine, folder, window
<1>1. Sent' = Sent
  BY DEF Sent
<1>2. /\ Engine' /\ Folder' /\ Screen' /\ Tally' /\ Readable' /\ Picked'
      /\ AnswersItsQuestion' /\ RecordTellsTruth'
  BY DEF Inv, Engine, Folder, Screen, Tally, Readable, Picked, AnswersItsQuestion,
         RecordTellsTruth
<1>3. AllSensible'
  BY <1>1 DEF Inv, AllSensible
<1> QED BY <1>2, <1>3 DEF Inv

----------------------------------------------------------------------------
(* Every step keeps the invariant.                                         *)
LEMMA StepInv == ASSUME Inv, Next PROVE Inv'
<1>1. CASE User
  <2> USE <1>1
  <2>1. \A t \in Torrents : RowsOf(t) \subseteq Nat
    BY RowsAreNumbers
  <2> QED BY <2>1, AskInv, LaunchInv, DropInv, ToggleInv, PressStopInv, ConfirmInv,
             CancelInv DEF User
<1>2. CASE Draw \/ Answer \/ TickTurn \/ TakeRead
  BY <1>2, DrawInv, AnswerInv, TickTurnInv, TakeReadInv
<1>3. CASE Command
  BY <1>3, TakeInspectInv, TakeConfirmInv, TakeCancelInv, TakeStopInv, TakeAddInv DEF Command
<1>4. CASE Rest
  BY <1>4, AddedInv, SweepInv, SweepOneInv, SweptInv, PublishInv DEF Rest
<1> QED BY <1>1, <1>2, <1>3, <1>4 DEF Next

(* And so does a step that changes nothing.                                *)
LEMMA StutterInv == ASSUME Inv, UNCHANGED vars PROVE Inv'
<1> USE DEF vars, engine, folder, window
<1>1. Engine' /\ Folder' /\ Screen' /\ Tally'
  BY DEF Inv, Engine, Folder, Screen, Tally
<1>2. Readable' /\ AllSensible' /\ Picked'
  BY DEF Inv, Readable, AllSensible, Sent, Picked
<1>3. AnswersItsQuestion' /\ RecordTellsTruth'
  BY DEF Inv, AnswersItsQuestion, RecordTellsTruth
<1> QED BY <1>1, <1>2, <1>3 DEF Inv

(* It holds at the start, with nothing asked, sent, read or listed.        *)
LEMMA InitInv == ASSUME Init PROVE Inv
<1> USE DEF Init
<1>1. NoPending \in Question /\ Legible(NoPending) /\ NoPending.st = "none"
  BY BoundAssumption DEF NoPending, Question, Statuses, Legible
<1>2. Absent \in Entry /\ ~Absent.in /\ Absent.only = {}
  BY DEF Absent, Entry
<1>3. NoDialog \in Dialog /\ NoDialog.ticks = {} /\ Drawable(NoDialog)
  BY BoundAssumption DEF NoDialog, Dialog, Statuses, Drawable
<1>4. inbox \in Seq(Message) /\ reads \in Seq(Read) /\ Len(inbox) = 0 /\ Len(reads) = 0 /\ Sent = {}
  BY DEF Sent
<1>5. Engine
  BY <1>1, <1>2, <1>4, EveryAssumption DEF Engine
<1>6. Folder
  BY DEF Folder
<1>7. Screen
  BY <1>1, <1>3 DEF Screen
<1>8. Tally
  BY BoundAssumption DEF Tally
<1>9. Readable
  BY <1>1, <1>3, <1>4 DEF Readable
<1>10. AllSensible /\ Picked
  BY <1>2, <1>4 DEF AllSensible, Picked
<1>11. AnswersItsQuestion /\ RecordTellsTruth
  BY <1>1, LinkAssumption DEF AnswersItsQuestion, RecordTellsTruth
<1> QED BY <1>5, <1>6, <1>7, <1>8, <1>9, <1>10, <1>11 DEF Inv

(* The invariant holds throughout every behaviour of the intake            *)
(* (session.rs, watch.rs, the add dialog of the window).                   *)
THEOREM Invariance == Spec => []Inv
<1>1. Init => Inv
  BY InitInv
<1>2. Inv /\ [Next]_vars => Inv'
  BY StepInv, StutterInv
<1> QED BY <1>1, <1>2, PTL DEF Spec

(* Every variable stays within its type.                                   *)
THEOREM TypeCorrect == Spec => []TypeOK
<1>1. Inv => TypeOK
  <2> SUFFICES ASSUME Inv PROVE TypeOK
    OBVIOUS
  <2>1. \A i \in 1 .. Len(inbox) : inbox[i] \in Message
    BY DEF Inv, Engine
  <2>2. \A i \in 1 .. Len(reads) : reads[i] \in Read
    BY DEF Inv, Engine
  <2>3. \A i \in 1 .. Len(inbox) : inbox[i].cmd \in Commands
    BY <2>1 DEF Message
  <2>4. {pending, published} \subseteq Pendings
    BY DEF Inv, Engine, Screen, Question, Statuses, Pendings
  <2>5. {bytes} \cup assigned \subseteq Torrents \cup {None} /\ {task, adding} \subseteq Links \cup {None}
    BY DEF Inv, Engine, Screen
  <2>6. \A t \in Torrents : list[t].in \in BOOLEAN /\ list[t].only \subseteq RowsOf(t)
    BY DEF Inv, Engine, Entry, Picked
  <2>7. {waiting, added, failed} \subseteq [Files -> Torrents \cup {None, Broken}]
    BY DEF Inv, Folder
  <2>8. dialog.open \in BOOLEAN /\ dialog.ticks \subseteq 1 .. dialog.rows
    BY DEF Inv, Screen, Dialog
  <2> QED BY <2>2, <2>3, <2>4, <2>5, <2>6, <2>7, <2>8 DEF Inv, Engine, Screen, Read, TypeOK
<1> QED BY <1>1, Invariance, PTL

(* The bytes the engine keeps are those of the link in question, however   *)
(* late or often an answer comes (session.rs adopt_read).                  *)
THEOREM AnswersOnlyItsQuestion == Spec => []AnswersItsQuestion
BY Invariance, PTL DEF Inv

(* What the watched folder records as added is in the list, and what it    *)
(* records as failed could not be added (watch.rs).                        *)
THEOREM RecordIsTrue == Spec => []RecordTellsTruth
BY Invariance, PTL DEF Inv

----------------------------------------------------------------------------
(* No question is put before the last one is done with, and nothing is     *)
(* handed in twice.                                                        *)
Calm == habits \cap {"overlaps", "again"} = {}

(* A question on its way is alone: nothing is asked, shown or confirmed.   *)
OneQuestion ==
  \A i \in 1 .. Len(inbox) : inbox[i].cmd = "inspect" =>
    /\ i = 1 /\ pending.st = "none" /\ published.st = "none" /\ ~dialog.open
    /\ \A c \in Sent : c.cmd # "confirm"

(* The window, the snapshot and a confirmation are about the link in       *)
(* question.                                                               *)
SameQuestion ==
  pending.st # "none" =>
    /\ published.st # "none" => published.link = pending.link
    /\ dialog.open => dialog.link = pending.link
    /\ \A c \in Sent : c.cmd = "confirm" => c.link = pending.link

(* Bytes are kept only with a question that was answered.                  *)
BytesAreRead == bytes # None => pending.st = "ready"

(* What is asked about is new: it is not in the list and on no other way   *)
(* there.                                                                  *)
Asked(l) == \/ \E c \in Sent : c.cmd = "inspect" /\ c.link = l
            \/ pending.st # "none" /\ pending.link = l

AskedIsNew ==
  \A l \in Links : Asked(l) /\ Of[l] \in Torrents =>
    /\ Of[l] \in handed /\ ~list[Of[l]].in
    /\ \A c \in Sent : c.cmd = "add" => Of[c.link] # Of[l]
    /\ at = "adding" => Of[adding] # Of[l]
    /\ \A n \in Files : waiting[n] # Of[l]

(* Whatever is in the list or on its way there was handed in.              *)
HandedIn ==
  /\ \A t \in Torrents : list[t].in => t \in handed
  /\ \A c \in Sent : c.cmd \in {"add", "inspect"} => Of[c.link] \in handed \cup {None}
  /\ at = "adding" => Of[adding] \in handed \cup {None}
  /\ \A n \in Files : waiting[n] \in handed \cup {None, Broken}

(* What a dialog entered is what it showed.                                *)
AsShown ==
  \A t \in Torrents : list[t].in /\ list[t].shown # None =>
    list[t].shown = t /\ list[t].only = list[t].ticked /\ list[t].folder = Own(t)

(* The inductive invariant of the calm.                                    *)
Quiet == OneQuestion /\ SameQuestion /\ BytesAreRead /\ AskedIsNew /\ HandedIn /\ AsShown

----------------------------------------------------------------------------
(* A question is put when nothing else is asked, about something new.      *)
LEMMA AskQuiet ==
  ASSUME Inv, Calm, Quiet, NEW l \in Links, Ask(l)
  PROVE  Quiet'
<1> USE DEF Ask, engine, folder, window
<1>1. /\ Inspect(l) \in Message /\ Inspect(l).cmd = "inspect" /\ Inspect(l).link = l
  <2>1. asks + 1 \in 0 .. MaxAsks
    BY BoundAssumption DEF HandIn, Inv, Tally
  <2> QED BY <2>1, InspectIs
<1>2. /\ Sent' \subseteq Sent \cup {Inspect(l)}
      /\ \A i \in 1 .. Len(inbox') : \/ i \in 1 .. Len(inbox) /\ inbox'[i] = inbox[i]
                                     \/ i = Len(inbox) + 1 /\ inbox'[i] = Inspect(l)
  BY <1>1, Posted DEF Inv, Engine
<1>3. "overlaps" \notin habits /\ "again" \notin habits
  BY DEF Calm
<1>4. /\ pending.st = "none" /\ published.st = "none" /\ inbox = <<>> /\ Of[l] \notin handed
      /\ handed' = handed \cup ({Of[l]} \cap Torrents)
  BY <1>3 DEF Free, NoPending, HandIn, Fresh
<1>5. ~dialog'.open
  BY <1>3, <1>4, DrawnIs DEF Free, Inv, Screen, Readable
<1>6. Sent = {} /\ Len(inbox) = 0
  BY <1>4 DEF Sent
<1>7. OneQuestion'
  <2>1. \A i \in 1 .. Len(inbox') : i = 1
    BY <1>2, <1>6
  <2>2. \A c \in Sent' : c.cmd # "confirm"
    BY <1>1, <1>2, <1>6
  <2> QED BY <1>4, <1>5, <2>1, <2>2 DEF OneQuestion
<1>8. SameQuestion'
  BY <1>4 DEF SameQuestion
<1>9. BytesAreRead' /\ AsShown'
  BY DEF Quiet, BytesAreRead, AsShown
<1>10. AskedIsNew'
  <2> SUFFICES ASSUME NEW x \in Links, Asked(x)', Of[x] \in Torrents
               PROVE  /\ Of[x] \in handed' /\ ~list[Of[x]].in
                      /\ \A c \in Sent' : c.cmd = "add" => Of[c.link] # Of[x]
                      /\ at = "adding" => Of[adding] # Of[x]
                      /\ \A n \in Files : waiting[n] # Of[x]
    BY DEF AskedIsNew
  <2>1. x = l
    BY <1>1, <1>2, <1>4, <1>6 DEF Asked
  <2>2. \A c \in Sent' : c.cmd # "add"
    BY <1>1, <1>2, <1>6
  <2> QED BY <1>4, <2>1, <2>2, LinkAssumption DEF Quiet, HandedIn
<1>11. HandedIn'
  BY <1>1, <1>2, <1>4, <1>6, LinkAssumption DEF Quiet, HandedIn
<1> QED BY <1>7, <1>8, <1>9, <1>10, <1>11 DEF Quiet

(* A link from the command line is none that is asked about.               *)
LEMMA LaunchQuiet ==
  ASSUME Inv, Calm, Quiet, NEW l \in Links, Launch(l)
  PROVE  Quiet'
<1> USE DEF Launch, engine, folder, window
<1>1. /\ Plain("add", l) \in Message /\ Plain("add", l).cmd = "add" /\ Plain("add", l).link = l
  BY BoundAssumption DEF Plain, Message, Commands
<1>2. /\ Sent' \subseteq Sent \cup {Plain("add", l)}
      /\ \A i \in 1 .. Len(inbox') : \/ i \in 1 .. Len(inbox) /\ inbox'[i] = inbox[i]
                                     \/ i = Len(inbox) + 1 /\ inbox'[i] = Plain("add", l)
  BY <1>1, Posted DEF Inv, Engine
<1>3. "overlaps" \notin habits /\ "again" \notin habits
  BY DEF Calm
<1>4. Of[l] \notin handed /\ handed' = handed \cup ({Of[l]} \cap Torrents)
  BY <1>3 DEF HandIn, Fresh
<1>5. OneQuestion'
  BY <1>1, <1>2 DEF Quiet, OneQuestion
<1>6. SameQuestion'
  BY <1>1, <1>2 DEF Quiet, SameQuestion
<1>7. BytesAreRead' /\ AsShown'
  BY DEF Quiet, BytesAreRead, AsShown
<1>8. AskedIsNew'
  BY <1>1, <1>2, <1>4 DEF Quiet, AskedIsNew, Asked
<1>9. HandedIn'
  BY <1>1, <1>2, <1>4, LinkAssumption DEF Quiet, HandedIn
<1> QED BY <1>5, <1>6, <1>7, <1>8, <1>9 DEF Quiet

(* Nor is a file in the watched folder.                                    *)
LEMMA DropQuiet ==
  ASSUME Inv, Calm, Quiet, NEW n \in Files, NEW t \in Torrents \cup {Broken}, Drop(n, t)
  PROVE  Quiet'
<1> USE DEF Drop, engine, folder, window
<1>1. Sent' = Sent
  BY DEF Sent
<1>2. "overlaps" \notin habits /\ "again" \notin habits
  BY DEF Calm
<1>3. t \notin handed /\ handed' = handed \cup ({t} \cap Torrents)
  BY <1>2 DEF HandIn, Fresh
<1>4. OneQuestion'
  BY <1>1 DEF Quiet, OneQuestion
<1>5. SameQuestion'
  BY <1>1 DEF Quiet, SameQuestion
<1>6. BytesAreRead' /\ AsShown'
  BY DEF Quiet, BytesAreRead, AsShown
<1>7. AskedIsNew'
  BY <1>1, <1>3 DEF Quiet, AskedIsNew, Asked, Inv, Folder
<1>8. HandedIn'
  BY <1>1, <1>3, LinkAssumption DEF Quiet, HandedIn, Inv, Folder
<1> QED BY <1>4, <1>5, <1>6, <1>7, <1>8 DEF Quiet

(* A tick changes no link.                                                 *)
LEMMA ToggleQuiet ==
  ASSUME Inv, Calm, Quiet, NEW i \in Nat, Toggle(i)
  PROVE  Quiet'
<1> USE DEF Toggle, engine, folder, window
<1>1. Sent' = Sent
  BY DEF Sent
<1>2. dialog'.open = dialog.open /\ dialog'.link = dialog.link
  BY DEF Inv, Screen, Dialog, Click
<1>3. OneQuestion'
  BY <1>1, <1>2 DEF Quiet, OneQuestion
<1>4. SameQuestion'
  BY <1>1, <1>2 DEF Quiet, SameQuestion
<1>5. BytesAreRead' /\ AsShown'
  BY DEF Quiet, BytesAreRead, AsShown
<1>6. AskedIsNew'
  BY <1>1 DEF Quiet, AskedIsNew, Asked
<1>7. HandedIn'
  BY <1>1 DEF Quiet, HandedIn
<1> QED BY <1>3, <1>4, <1>5, <1>6, <1>7 DEF Quiet

(* The Add button is about the link in the dialog, which is that in        *)
(* question.                                                               *)
LEMMA ConfirmQuiet ==
  ASSUME Inv, Calm, Quiet, NEW shelf \in BOOLEAN, Confirm(shelf)
  PROVE  Quiet'
<1> USE DEF Confirm, engine, folder, window
<1> DEFINE c == Confirmation(dialog.link, dialog.ticks, dialog.ticks = 1 .. dialog.rows)
<1>1. /\ c \in Message /\ c.cmd = "confirm" /\ c.link = dialog.link /\ c.ticks = dialog.ticks
      /\ c.all = (dialog.ticks = 1 .. dialog.rows)
  <2>1. dialog.ticks \in SUBSET Nat /\ dialog.link \in Links \cup {None}
    BY DEF Inv, Screen, Dialog
  <2> DEFINE e == dialog.ticks = 1 .. dialog.rows
             m == Confirmation(dialog.link, dialog.ticks, e)
  <2>2. e \in BOOLEAN
    OBVIOUS
  <2> HIDE DEF e
  <2>3. /\ m \in Message /\ m.cmd = "confirm" /\ m.link = dialog.link
        /\ m.ticks = dialog.ticks /\ m.all = e
    BY <2>1, <2>2, ConfirmationIs
  <2> QED BY <2>3 DEF e
<1> HIDE DEF c
<1>2. inbox' = Append(inbox, c)
  BY DEF c, Confirmation
<1>3. /\ Sent' \subseteq Sent \cup {c}
      /\ \A i \in 1 .. Len(inbox') : \/ i \in 1 .. Len(inbox) /\ inbox'[i] = inbox[i]
                                     \/ i = Len(inbox) + 1 /\ inbox'[i] = c
  BY <1>1, <1>2, Posted DEF Inv, Engine
<1>4. dialog'.open => published.st # "none" /\ dialog'.link = published.link
  <2>1. /\ [dialog EXCEPT !.open = FALSE] \in Dialog /\ Drawable([dialog EXCEPT !.open = FALSE])
        /\ [dialog EXCEPT !.open = FALSE].ticks \subseteq 1 .. [dialog EXCEPT !.open = FALSE].rows
    BY DEF Inv, Screen, Readable, Drawable, Dialog
  <2> QED BY <2>1, DrawnIs DEF Inv, Screen, Readable
<1>5. OneQuestion'
  <2>1. \A i \in 1 .. Len(inbox) : inbox[i].cmd # "inspect"
    BY DEF Quiet, OneQuestion
  <2> HIDE DEF Confirm
  <2>2. ASSUME NEW i \in 1 .. Len(inbox') PROVE inbox'[i].cmd # "inspect"
    <3>1. CASE i \in 1 .. Len(inbox) /\ inbox'[i] = inbox[i]
      BY <2>1, <3>1
    <3>2. CASE inbox'[i] = c
      BY <1>1, <3>2
    <3> QED BY <1>3, <3>1, <3>2
  <2> QED BY <2>2 DEF OneQuestion
<1>6. SameQuestion'
  BY <1>1, <1>3, <1>4 DEF Quiet, SameQuestion
<1>7. BytesAreRead' /\ AsShown'
  BY DEF Quiet, BytesAreRead, AsShown
<1>8. AskedIsNew'
  BY <1>1, <1>3 DEF Quiet, AskedIsNew, Asked
<1>9. HandedIn'
  BY <1>1, <1>3 DEF Quiet, HandedIn
<1> QED BY <1>5, <1>6, <1>7, <1>8, <1>9 DEF Quiet

(* The Cancel button closes the dialog.                                    *)
LEMMA CancelQuiet ==
  ASSUME Inv, Calm, Quiet, Cancel
  PROVE  Quiet'
<1> USE DEF Cancel, engine, folder, window
<1>1. /\ Plain("cancel", None) \in Message /\ Plain("cancel", None).cmd = "cancel"
  BY BoundAssumption DEF Plain, Message, Commands
<1>2. /\ Sent' \subseteq Sent \cup {Plain("cancel", None)}
      /\ \A i \in 1 .. Len(inbox') : \/ i \in 1 .. Len(inbox) /\ inbox'[i] = inbox[i]
                                     \/ i = Len(inbox) + 1 /\ inbox'[i] = Plain("cancel", None)
  BY <1>1, Posted DEF Inv, Engine
<1>3. ~dialog'.open
  BY DEF Inv, Screen, Dialog
<1>4. OneQuestion'
  BY <1>1, <1>2, <1>3 DEF Quiet, OneQuestion
<1>5. SameQuestion'
  BY <1>1, <1>2, <1>3 DEF Quiet, SameQuestion
<1>6. BytesAreRead' /\ AsShown'
  BY DEF Quiet, BytesAreRead, AsShown
<1>7. AskedIsNew'
  BY <1>1, <1>2 DEF Quiet, AskedIsNew, Asked
<1>8. HandedIn'
  BY <1>1, <1>2 DEF Quiet, HandedIn
<1> QED BY <1>4, <1>5, <1>6, <1>7, <1>8 DEF Quiet

(* The Stop button is about no link.                                       *)
LEMMA PressStopQuiet ==
  ASSUME Inv, Calm, Quiet, NEW t \in Torrents, PressStop(t)
  PROVE  Quiet'
<1> USE DEF PressStop, engine, folder, window
<1>1. /\ Plain("stop", t) \in Message /\ Plain("stop", t).cmd = "stop" /\ Plain("stop", t).link = t
  BY BoundAssumption DEF Plain, Message, Commands
<1>2. /\ Sent' \subseteq Sent \cup {Plain("stop", t)}
      /\ \A i \in 1 .. Len(inbox') : \/ i \in 1 .. Len(inbox) /\ inbox'[i] = inbox[i]
                                     \/ i = Len(inbox) + 1 /\ inbox'[i] = Plain("stop", t)
  BY <1>1, Posted DEF Inv, Engine
<1>3. OneQuestion'
  BY <1>1, <1>2 DEF Quiet, OneQuestion
<1>4. SameQuestion'
  BY <1>1, <1>2 DEF Quiet, SameQuestion
<1>5. BytesAreRead' /\ AsShown'
  BY DEF Quiet, BytesAreRead, AsShown
<1>6. AskedIsNew'
  BY <1>1, <1>2 DEF Quiet, AskedIsNew, Asked
<1>7. HandedIn'
  BY <1>1, <1>2 DEF Quiet, HandedIn
<1> QED BY <1>3, <1>4, <1>5, <1>6, <1>7 DEF Quiet

(* The window draws the question of the snapshot, which is the one the     *)
(* engine has.                                                             *)
LEMMA DrawQuiet ==
  ASSUME Inv, Calm, Quiet, Draw
  PROVE  Quiet'
<1> USE DEF Draw, engine, folder, window
<1>1. Sent' = Sent
  BY DEF Sent
<1>2. dialog'.open => published.st # "none" /\ dialog'.link = published.link
  BY DrawnIs DEF Inv, Screen, Readable
<1>3. OneQuestion'
  BY <1>1, <1>2 DEF Quiet, OneQuestion
<1>4. SameQuestion'
  BY <1>1, <1>2 DEF Quiet, SameQuestion
<1>5. BytesAreRead' /\ AsShown'
  BY DEF Quiet, BytesAreRead, AsShown
<1>6. AskedIsNew'
  BY <1>1 DEF Quiet, AskedIsNew, Asked
<1>7. HandedIn'
  BY <1>1 DEF Quiet, HandedIn
<1> QED BY <1>3, <1>4, <1>5, <1>6, <1>7 DEF Quiet

(* An answer under way changes nothing yet.                                *)
LEMMA AnswerQuiet ==
  ASSUME Inv, Calm, Quiet, Answer
  PROVE  Quiet'
<1> USE DEF Answer, engine, folder, window
<1>1. Sent' = Sent
  BY DEF Sent
<1>2. OneQuestion'
  BY <1>1 DEF Quiet, OneQuestion
<1>3. SameQuestion'
  BY <1>1 DEF Quiet, SameQuestion
<1>4. BytesAreRead' /\ AsShown'
  BY DEF Quiet, BytesAreRead, AsShown
<1>5. AskedIsNew'
  BY <1>1 DEF Quiet, AskedIsNew, Asked
<1>6. HandedIn'
  BY <1>1 DEF Quiet, HandedIn
<1> QED BY <1>2, <1>3, <1>4, <1>5, <1>6 DEF Quiet

(* The tick asks nothing.                                                  *)
LEMMA TickTurnQuiet ==
  ASSUME Inv, Calm, Quiet, TickTurn
  PROVE  Quiet'
<1> USE DEF TickTurn, engine, folder, window
<1>1. Sent' = Sent
  BY DEF Sent
<1>2. OneQuestion'
  BY <1>1 DEF Quiet, OneQuestion
<1>3. SameQuestion'
  BY <1>1 DEF Quiet, SameQuestion
<1>4. BytesAreRead' /\ AsShown'
  BY DEF Quiet, BytesAreRead, AsShown
<1>5. AskedIsNew'
  BY <1>1 DEF Quiet, AskedIsNew, Asked
<1>6. HandedIn'
  BY <1>1 DEF Quiet, HandedIn
<1> QED BY <1>2, <1>3, <1>4, <1>5, <1>6 DEF Quiet

(* An answer that is adopted is of the link in question.                   *)
LEMMA TakeReadQuiet ==
  ASSUME Inv, Calm, Quiet, TakeRead
  PROVE  Quiet'
<1> USE DEF TakeRead, engine, folder, window
<1>1. Sent' = Sent
  BY DEF Sent
<1>2. /\ pending'.link = pending.link /\ (pending'.st = "none" <=> pending.st = "none")
      /\ bytes' # None => pending'.st = "ready"
  <2>1. CASE Adopts(Head(reads))
    <3>1. /\ bytes' = IF Head(reads).ok THEN Of[Head(reads).link] ELSE None
          /\ pending' = [pending EXCEPT !.st = IF Head(reads).ok THEN "ready" ELSE "failed"]
          /\ pending.st # "none"
      BY <2>1 DEF Adopts
    <3>2. pending \in Question
      BY DEF Inv, Engine
    <3> HIDE DEF TakeRead
    <3> QED BY <3>1, <3>2 DEF Question
  <2>2. CASE ~Adopts(Head(reads))
    BY <2>2 DEF Quiet, BytesAreRead
  <2> QED BY <2>1, <2>2
<1>3. OneQuestion'
  BY <1>1, <1>2 DEF Quiet, OneQuestion
<1>4. SameQuestion'
  BY <1>1, <1>2 DEF Quiet, SameQuestion
<1>5. BytesAreRead'
  BY <1>2 DEF BytesAreRead
<1>6. AskedIsNew'
  BY <1>1, <1>2 DEF Quiet, AskedIsNew, Asked
<1>7. HandedIn'
  BY <1>1 DEF Quiet, HandedIn
<1>8. AsShown'
  BY DEF Quiet, AsShown
<1> QED BY <1>3, <1>4, <1>5, <1>6, <1>7, <1>8 DEF Quiet

(* A question that arrives becomes the one in question: the window shows   *)
(* none and no confirmation is on its way.                                 *)
LEMMA TakeInspectQuiet ==
  ASSUME Inv, Calm, Quiet, TakeInspect
  PROVE  Quiet'
<1> USE DEF TakeInspect, engine, folder, window
<1>1. inbox \in Seq(Message) /\ inbox # <<>> /\ inbox' = Tail(inbox)
  BY DEF Inv, Engine, Takes
<1>2. /\ Sent' \subseteq Sent
      /\ Head(inbox) = inbox[1] /\ Head(inbox) \in Sent /\ 1 \in 1 .. Len(inbox)
      /\ \A i \in 1 .. Len(inbox') : i + 1 \in 1 .. Len(inbox) /\ inbox'[i] = inbox[i + 1]
  BY <1>1, Fetched
<1>3. \A i \in 1 .. Len(inbox') : inbox'[i].cmd # "inspect"
  <2>1. \A i \in 1 .. Len(inbox') : i + 1 # 1
    OBVIOUS
  <2> QED BY <1>2, <2>1 DEF Quiet, OneQuestion
<1>4. \A c \in Sent' : c.cmd # "inspect"
  BY <1>3 DEF Sent
<1>5. /\ Head(inbox).cmd = "inspect" /\ ~dialog.open /\ pending.st = "none"
      /\ \A c \in Sent : c.cmd # "confirm"
  BY <1>2 DEF Quiet, OneQuestion, Takes
<1>6. /\ pending'.link = Head(inbox).link /\ pending'.st = "fetching" /\ published' = pending'
  BY DEF Fetching
<1>7. OneQuestion'
  BY <1>3 DEF OneQuestion
<1>8. SameQuestion'
  BY <1>2, <1>5, <1>6 DEF SameQuestion
<1>9. BytesAreRead'
  BY <1>5 DEF Quiet, BytesAreRead
<1>10. AskedIsNew'
  <2>1. \A x \in Links : Asked(x)' => x = Head(inbox).link /\ Asked(x)
    BY <1>2, <1>4, <1>5, <1>6 DEF Asked
  <2> QED BY <1>2, <2>1 DEF Quiet, AskedIsNew, Takes
<1>11. HandedIn'
  BY <1>2 DEF Quiet, HandedIn
<1>12. AsShown'
  BY DEF Quiet, AsShown
<1> QED BY <1>7, <1>8, <1>9, <1>10, <1>11, <1>12 DEF Quiet

(* The heart of it: a confirmation that arrives is of the link in          *)
(* question and the bytes are of that link, so what is entered is what     *)
(* was shown.                                                              *)
LEMMA TakeConfirmQuiet ==
  ASSUME Inv, Calm, Quiet, TakeConfirm
  PROVE  Quiet'
<1> USE DEF TakeConfirm, engine, folder, window
<1>1. inbox \in Seq(Message) /\ inbox # <<>> /\ inbox' = Tail(inbox)
  BY DEF Inv, Engine, Takes
<1>2. /\ Sent' \subseteq Sent
      /\ Head(inbox) = inbox[1] /\ Head(inbox) \in Sent /\ 1 \in 1 .. Len(inbox)
      /\ \A i \in 1 .. Len(inbox') : i + 1 \in 1 .. Len(inbox) /\ inbox'[i] = inbox[i + 1]
  BY <1>1, Fetched
<1>3. \A i \in 1 .. Len(inbox') : inbox'[i].cmd # "inspect"
  <2>1. \A i \in 1 .. Len(inbox') : i + 1 # 1
    OBVIOUS
  <2> QED BY <1>2, <2>1 DEF Quiet, OneQuestion
<1>4. \A c \in Sent' : c.cmd # "inspect"
  BY <1>3 DEF Sent
<1>5. Head(inbox).cmd = "confirm" /\ NoPending.st = "none"
  BY DEF Takes, NoPending
<1>6. (bytes' = bytes /\ pending' = pending) \/ (bytes' = None /\ pending' = NoPending)
  OBVIOUS
<1>7. \/ list' = list /\ (pending' = pending \/ pending' = NoPending)
      \/ /\ bytes \in Torrents /\ pending' = NoPending /\ bytes \in handed
         /\ \A t \in Torrents \ {bytes} : list'[t] = list[t]
         /\ list'[bytes].shown = bytes /\ list'[bytes].only = list'[bytes].ticked
         /\ list'[bytes].folder = Own(bytes)
  <2>1. CASE UNCHANGED list
    BY <2>1, <1>6
  <2>2. CASE ~UNCHANGED list
    <3> DEFINE c == Head(inbox)
               only == IF c.all THEN RowsOf(bytes) ELSE c.ticks
               where == IF Count(pending) > 1 THEN Known(pending) ELSE None
    <3>1. /\ bytes \in Torrents /\ list' = [list EXCEPT ![bytes] = Entered(bytes, only, where, Of[c.link], c.ticks)]
          /\ pending' = NoPending /\ bytes # None
      BY <2>2, LinkAssumption DEF Inv, Engine
    <3>2. pending.st = "ready" /\ bytes = Of[pending.link] /\ pending.link \in Links /\ c.link = pending.link
      BY <1>2, <1>5, <3>1 DEF Quiet, BytesAreRead, Inv, AnswersItsQuestion, SameQuestion,
         Readable, Legible
    <3>3. Sensible(c)
      BY <1>2 DEF Inv, AllSensible
    <3>4. ~list[bytes].in /\ bytes \in handed
      BY <3>1, <3>2 DEF Quiet, AskedIsNew, Asked
    <3>5. only = c.ticks
      BY <1>5, <3>2, <3>3 DEF Sensible
    <3>6. where = Own(bytes)
      BY <3>1, <3>2 DEF Count, Known, Own
    <3>7. list'[bytes] = Entered(bytes, only, where, Of[c.link], c.ticks)
      BY <3>1 DEF Inv, Engine
    <3>8. /\ list'[bytes].shown = bytes /\ list'[bytes].only = list'[bytes].ticked
          /\ list'[bytes].folder = Own(bytes)
      BY <3>2, <3>4, <3>5, <3>6, <3>7 DEF Entered
    <3> QED BY <3>1, <3>4, <3>8 DEF Inv, Engine
  <2> QED BY <2>1, <2>2
<1>8. OneQuestion'
  BY <1>3 DEF OneQuestion
<1>9. SameQuestion'
  BY <1>2, <1>5, <1>6 DEF Quiet, SameQuestion
<1>10. BytesAreRead'
  BY <1>6 DEF Quiet, BytesAreRead
<1>11. AskedIsNew'
  <2>1. \A x \in Links : Asked(x)' => Asked(x) /\ list' = list
    BY <1>4, <1>5, <1>6, <1>7 DEF Asked
  <2> QED BY <1>2, <2>1 DEF Quiet, AskedIsNew, Takes
<1>12. HandedIn'
  BY <1>2, <1>7 DEF Quiet, HandedIn, Takes
<1>13. AsShown'
  BY <1>7 DEF Quiet, AsShown
<1> QED BY <1>8, <1>9, <1>10, <1>11, <1>12, <1>13 DEF Quiet

(* A cancel drops question and bytes together.                             *)
LEMMA TakeCancelQuiet ==
  ASSUME Inv, Calm, Quiet, TakeCancel
  PROVE  Quiet'
<1> USE DEF TakeCancel, engine, folder, window
<1>1. inbox \in Seq(Message) /\ inbox # <<>> /\ inbox' = Tail(inbox)
  BY DEF Inv, Engine, Takes
<1>2. /\ Sent' \subseteq Sent
      /\ Head(inbox) = inbox[1] /\ Head(inbox) \in Sent /\ 1 \in 1 .. Len(inbox)
      /\ \A i \in 1 .. Len(inbox') : i + 1 \in 1 .. Len(inbox) /\ inbox'[i] = inbox[i + 1]
  BY <1>1, Fetched
<1>3. \A i \in 1 .. Len(inbox') : inbox'[i].cmd # "inspect"
  <2>1. \A i \in 1 .. Len(inbox') : i + 1 # 1
    OBVIOUS
  <2> QED BY <1>2, <2>1 DEF Quiet, OneQuestion
<1>4. \A c \in Sent' : c.cmd # "inspect"
  BY <1>3 DEF Sent
<1>5. NoPending.st = "none"
  BY DEF NoPending
<1>6. OneQuestion'
  BY <1>3 DEF OneQuestion
<1>7. SameQuestion'
  BY <1>5 DEF SameQuestion
<1>8. BytesAreRead'
  BY DEF BytesAreRead
<1>9. AskedIsNew'
  BY <1>4, <1>5 DEF AskedIsNew, Asked
<1>10. HandedIn'
  BY <1>2 DEF Quiet, HandedIn, Takes
<1>11. AsShown'
  BY DEF Quiet, AsShown
<1> QED BY <1>6, <1>7, <1>8, <1>9, <1>10, <1>11 DEF Quiet

(* A stop leaves what was entered as it was shown.                         *)
LEMMA TakeStopQuiet ==
  ASSUME Inv, Calm, Quiet, TakeStop
  PROVE  Quiet'
<1> USE DEF TakeStop, engine, folder, window
<1>1. inbox \in Seq(Message) /\ inbox # <<>> /\ inbox' = Tail(inbox)
  BY DEF Inv, Engine, Takes
<1>2. /\ Sent' \subseteq Sent
      /\ Head(inbox) = inbox[1] /\ Head(inbox) \in Sent /\ 1 \in 1 .. Len(inbox)
      /\ \A i \in 1 .. Len(inbox') : i + 1 \in 1 .. Len(inbox) /\ inbox'[i] = inbox[i + 1]
  BY <1>1, Fetched
<1>3. \A i \in 1 .. Len(inbox') : inbox'[i].cmd # "inspect"
  <2>1. \A i \in 1 .. Len(inbox') : i + 1 # 1
    OBVIOUS
  <2> QED BY <1>2, <2>1 DEF Quiet, OneQuestion
<1>4. \A t \in Torrents :
        /\ list'[t].in = list[t].in /\ list'[t].shown = list[t].shown /\ list'[t].only = list[t].only
        /\ list'[t].ticked = list[t].ticked /\ list'[t].folder = list[t].folder
  <2> DEFINE t == Head(inbox).link
  <2>1. t \in Torrents
    BY <1>2 DEF Inv, AllSensible, Sensible, Takes
  <2>2. list[t] \in Entry /\ list \in [Torrents -> Entry]
    BY <2>1 DEF Inv, Engine
  <2>3. list' = [list EXCEPT ![t] = [list[t] EXCEPT !.stopped = TRUE]]
    OBVIOUS
  <2> DEFINE e == [list[t] EXCEPT !.stopped = TRUE]
  <2>4. /\ e.in = list[t].in /\ e.shown = list[t].shown /\ e.only = list[t].only
        /\ e.ticked = list[t].ticked /\ e.folder = list[t].folder
    BY <2>2 DEF Entry
  <2> HIDE DEF TakeStop, t, e
  <2>5. list'[t] = e /\ \A u \in Torrents : u # t => list'[u] = list[u]
    BY <2>1, <2>2, <2>3 DEF e
  <2> QED BY <2>4, <2>5
<1>5. OneQuestion'
  BY <1>3 DEF OneQuestion
<1>6. SameQuestion'
  BY <1>2 DEF Quiet, SameQuestion
<1>7. BytesAreRead'
  BY DEF Quiet, BytesAreRead
<1>8. AskedIsNew'
  BY <1>2, <1>4 DEF Quiet, AskedIsNew, Asked, Takes
<1>9. HandedIn'
  BY <1>2, <1>4 DEF Quiet, HandedIn, Takes
<1>10. AsShown'
  BY <1>4 DEF Quiet, AsShown
<1> QED BY <1>5, <1>6, <1>7, <1>8, <1>9, <1>10 DEF Quiet

(* An add that starts is of no link that is asked about.                   *)
LEMMA TakeAddQuiet ==
  ASSUME Inv, Calm, Quiet, TakeAdd
  PROVE  Quiet'
<1> USE DEF TakeAdd, engine, folder, window
<1>1. inbox \in Seq(Message) /\ inbox # <<>> /\ inbox' = Tail(inbox)
  BY DEF Inv, Engine, Takes
<1>2. /\ Sent' \subseteq Sent
      /\ Head(inbox) = inbox[1] /\ Head(inbox) \in Sent /\ 1 \in 1 .. Len(inbox)
      /\ \A i \in 1 .. Len(inbox') : i + 1 \in 1 .. Len(inbox) /\ inbox'[i] = inbox[i + 1]
  BY <1>1, Fetched
<1>3. \A i \in 1 .. Len(inbox') : inbox'[i].cmd # "inspect"
  <2>1. \A i \in 1 .. Len(inbox') : i + 1 # 1
    OBVIOUS
  <2> QED BY <1>2, <2>1 DEF Quiet, OneQuestion
<1>4. OneQuestion'
  BY <1>3 DEF OneQuestion
<1>5. SameQuestion'
  BY <1>2 DEF Quiet, SameQuestion
<1>6. BytesAreRead' /\ AsShown'
  BY DEF Quiet, BytesAreRead, AsShown
<1>7. AskedIsNew'
  BY <1>2 DEF Quiet, AskedIsNew, Asked, Takes
<1>8. HandedIn'
  BY <1>2 DEF Quiet, HandedIn, Takes
<1> QED BY <1>4, <1>5, <1>6, <1>7, <1>8 DEF Quiet

(* What it enters was not shown by a dialog.                               *)
LEMMA AddedQuiet ==
  ASSUME Inv, Calm, Quiet, Added
  PROVE  Quiet'
<1> USE DEF Added, engine, folder, window
<1>1. Sent' = Sent
  BY DEF Sent
<1>2. \A t \in Torrents :
        /\ list'[t].in <=> list[t].in \/ t = Of[adding]
        /\ list'[t] = list[t] \/ list'[t].shown = None
  BY AddedIs DEF Inv, Engine, Picked
<1>3. OneQuestion'
  BY <1>1 DEF Quiet, OneQuestion
<1>4. SameQuestion'
  BY <1>1 DEF Quiet, SameQuestion
<1>5. BytesAreRead'
  BY DEF Quiet, BytesAreRead
<1>6. AskedIsNew'
  BY <1>1, <1>2 DEF Quiet, AskedIsNew, Asked
<1>7. HandedIn'
  BY <1>1, <1>2, LinkAssumption DEF Quiet, HandedIn
<1>8. AsShown'
  BY <1>2 DEF Quiet, AsShown
<1> QED BY <1>3, <1>4, <1>5, <1>6, <1>7, <1>8 DEF Quiet

(* A look at the folder changes no entry.                                  *)
LEMMA SweepQuiet ==
  ASSUME Inv, Calm, Quiet, Sweep
  PROVE  Quiet'
<1> USE DEF Sweep, engine, folder, window
<1>1. Sent' = Sent
  BY DEF Sent
<1>2. OneQuestion'
  BY <1>1 DEF Quiet, OneQuestion
<1>3. SameQuestion'
  BY <1>1 DEF Quiet, SameQuestion
<1>4. BytesAreRead' /\ AsShown'
  BY DEF Quiet, BytesAreRead, AsShown
<1>5. AskedIsNew'
  BY <1>1 DEF Quiet, AskedIsNew, Asked
<1>6. HandedIn'
  BY <1>1 DEF Quiet, HandedIn
<1> QED BY <1>2, <1>3, <1>4, <1>5, <1>6 DEF Quiet

(* What the watched folder enters was not shown by a dialog and is not     *)
(* asked about.                                                            *)
LEMMA SweepOneQuiet ==
  ASSUME Inv, Calm, Quiet, SweepOne
  PROVE  Quiet'
<1> USE DEF SweepOne, engine, folder, window
<1>1. Sent' = Sent
  BY DEF Sent
<1>2. PICK n \in names : /\ names' = names \ {n} /\ list' = AfterAdd(waiting[n])
                      /\ Park(n)
  OBVIOUS
<1>3. \A t \in Torrents :
        /\ list'[t].in <=> list[t].in \/ t = waiting[n]
        /\ list'[t] = list[t] \/ list'[t].shown = None
  BY <1>2, AddedIs DEF Inv, Engine, Picked
<1>4. n \in Files /\ \A m \in Files : waiting'[m] \in {waiting[m], None}
  BY <1>2 DEF Park, folder, Inv, Engine, Folder
<1>5. OneQuestion'
  BY <1>1 DEF Quiet, OneQuestion
<1>6. SameQuestion'
  BY <1>1 DEF Quiet, SameQuestion
<1>7. BytesAreRead'
  BY DEF Quiet, BytesAreRead
<1>8. AskedIsNew'
  <2>1. \A x \in Links : Asked(x)' => Asked(x)
    BY <1>1 DEF Asked
  <2> QED BY <1>1, <1>3, <1>4, <2>1, LinkAssumption DEF Quiet, AskedIsNew
<1>9. HandedIn'
  BY <1>1, <1>3, <1>4, LinkAssumption DEF Quiet, HandedIn
<1>10. AsShown'
  BY <1>3 DEF Quiet, AsShown
<1> QED BY <1>5, <1>6, <1>7, <1>8, <1>9, <1>10 DEF Quiet

(* The end of the sweep changes no entry.                                  *)
LEMMA SweptQuiet ==
  ASSUME Inv, Calm, Quiet, Swept
  PROVE  Quiet'
<1> USE DEF Swept, engine, folder, window
<1>1. Sent' = Sent
  BY DEF Sent
<1>2. OneQuestion'
  BY <1>1 DEF Quiet, OneQuestion
<1>3. SameQuestion'
  BY <1>1 DEF Quiet, SameQuestion
<1>4. BytesAreRead' /\ AsShown'
  BY DEF Quiet, BytesAreRead, AsShown
<1>5. AskedIsNew'
  BY <1>1 DEF Quiet, AskedIsNew, Asked
<1>6. HandedIn'
  BY <1>1 DEF Quiet, HandedIn
<1> QED BY <1>2, <1>3, <1>4, <1>5, <1>6 DEF Quiet

(* The snapshot takes the question the engine has.                         *)
LEMMA PublishQuiet ==
  ASSUME Inv, Calm, Quiet, Publish
  PROVE  Quiet'
<1> USE DEF Publish, engine, folder, window
<1>1. Sent' = Sent
  BY DEF Sent
<1>2. OneQuestion'
  BY <1>1 DEF Quiet, OneQuestion
<1>3. SameQuestion'
  BY <1>1 DEF Quiet, SameQuestion
<1>4. BytesAreRead' /\ AsShown'
  BY DEF Quiet, BytesAreRead, AsShown
<1>5. AskedIsNew'
  BY <1>1 DEF Quiet, AskedIsNew, Asked
<1>6. HandedIn'
  BY <1>1 DEF Quiet, HandedIn
<1> QED BY <1>2, <1>3, <1>4, <1>5, <1>6 DEF Quiet

----------------------------------------------------------------------------
(* Every step keeps the calm invariant while the calm lasts.               *)
LEMMA StepQuiet == ASSUME Inv, Calm, Quiet, Next PROVE Quiet'
<1>1. CASE User
  <2> USE <1>1
  <2>1. \A t \in Torrents : RowsOf(t) \subseteq Nat
    BY RowsAreNumbers
  <2> QED BY <2>1, AskQuiet, LaunchQuiet, DropQuiet, ToggleQuiet, PressStopQuiet, ConfirmQuiet,
             CancelQuiet DEF User
<1>2. CASE Draw \/ Answer \/ TickTurn \/ TakeRead
  BY <1>2, DrawQuiet, AnswerQuiet, TickTurnQuiet, TakeReadQuiet
<1>3. CASE Command
  BY <1>3, TakeInspectQuiet, TakeConfirmQuiet, TakeCancelQuiet, TakeStopQuiet, TakeAddQuiet
     DEF Command
<1>4. CASE Rest
  BY <1>4, AddedQuiet, SweepQuiet, SweepOneQuiet, SweptQuiet, PublishQuiet DEF Rest
<1> QED BY <1>1, <1>2, <1>3, <1>4 DEF Next

(* In a calm behaviour the window, the snapshot, the engine and the        *)
(* commands are about one link throughout.                                 *)
THEOREM QuietInvariance == Spec => [](Calm => Quiet)
<1>1. Init => (Calm => Quiet)
  <2> SUFFICES ASSUME Init PROVE Quiet
    OBVIOUS
  <2>1. Len(inbox) = 0 /\ Sent = {} /\ pending.st = "none" /\ \A t \in Torrents : ~list[t].in
    BY DEF Init, Sent, NoPending, Absent
  <2> QED BY <2>1 DEF Init, Quiet, OneQuestion, SameQuestion, BytesAreRead, AskedIsNew, Asked,
             HandedIn, AsShown
<1>2. Inv /\ (Calm => Quiet) /\ [Next]_vars => (Calm => Quiet)'
  <2> SUFFICES ASSUME Inv, Calm => Quiet, [Next]_vars, Calm' PROVE Quiet'
    OBVIOUS
  <2>1. habits' = habits
    BY DEF vars, Next, User, Command, Rest, Ask, Launch, Drop, Toggle, Confirm, Cancel,
       PressStop, Draw, Answer, TickTurn, TakeRead, TakeInspect, TakeConfirm, TakeCancel,
       TakeStop, TakeAdd, Added, Sweep, SweepOne, Swept, Publish
  <2>2. Calm
    BY <2>1 DEF Calm
  <2>3. CASE Next
    BY <2>2, <2>3, StepQuiet
  <2>4. CASE UNCHANGED vars
    BY <2>2, <2>4 DEF vars, engine, folder, window, Quiet, OneQuestion, SameQuestion,
       BytesAreRead,
                      AskedIsNew, Asked, Sent, HandedIn, AsShown
  <2> QED BY <2>3, <2>4
<1> QED BY <1>1, <1>2, Invariance, PTL DEF Spec

(* What the dialog showed when Add was pressed is what the list gets,      *)
(* although the command names neither the torrent nor the question it      *)
(* answers (session.rs confirm).                                           *)
THEOREM WhatIsConfirmedIsShown == Spec => []ConfirmedAsShown
<1>1. (Calm => Quiet) => ConfirmedAsShown
  BY DEF Calm, Quiet, AsShown, ConfirmedAsShown
<1> QED BY <1>1, QuietInvariance, PTL
=============================================================================
