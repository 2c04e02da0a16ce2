------------------------------ MODULE Handshake ------------------------------
(***************************************************************************)
(* The encrypted handshake (zerem-mse/handshake.rs): the dialling end runs *)
(* initiate(), the answering one accept(), and neither knows how much      *)
(* padding precedes the marker it is waiting for.  Around them is what     *)
(* librqbit's connections do: a second attempt in the clear when the       *)
(* policy allows one, and a look at the first byte of what comes in.       *)
(*                                                                         *)
(* The wire carries marks in order.  What is enciphered is marked with its *)
(* keystream and the place in it: whoever deciphers at another place reads *)
(* noise.  A marker of twenty or eight bytes is one mark, so is each byte  *)
(* of a padding.  The policies are "off", "prefer" and "require"; the      *)
(* worlds are made of "hangs up", "offers", "chooses", "pads", "unknown"   *)
(* and "0x13".                                                             *)
(***************************************************************************)
EXTENDS Integers, Sequences

CONSTANTS
  MaxPad,     \* the longest padding, 512 in the code
  Policies,   \* the settings met in this instance
  Worlds      \* what else may happen: one of these sets in each behaviour

Bounded == MaxPad \in Nat

ASSUME HandshakeAssumption == Bounded

VARIABLES
  policy,     \* what each end is set to
  habits,     \* what other clients and networks do in this behaviour
  a, b,       \* the dialling end, the answering end
  ab, ba,     \* what is on the wire
  open,       \* the connection stands
  heardA,     \* what each end has read since it agreed
  heardB

peers == <<policy, habits, a, b, ab, ba, open, heardA, heardB>>

PLAINTEXT == 1
RC4       == 2
Offers(o, bit) == (o \div bit) % 2 = 1

(* A mark on the wire: in the clear, or under a keystream.                 *)
Clear(t, x)        == [key |-> "none", at |-> 0, t |-> t, x |-> x]
Sealed(k, i, t, x) == [key |-> k, at |-> i, t |-> t, x |-> x]
Noise              == [t |-> "noise", x |-> 0]

Read(m, k, i) == IF m.key = k /\ m.at = i THEN [t |-> m.t, x |-> m.x] ELSE Noise

Part(t, x) == [t |-> t, x |-> x]
Padding(k) == [i \in 1 .. k |-> Part("pad", 0)]

InClear(parts) == [i \in 1 .. Len(parts) |-> Clear(parts[i].t, parts[i].x)]

(* send.apply(&mut sealed): one buffer, from the start of the keystream.   *)
Enciphered(k, parts) == [i \in 1 .. Len(parts) |-> Sealed(k, i - 1, parts[i].t, parts[i].x)]

(* VC, an offer or a choice, and a padding whose length may be a lie.      *)
Opening(t, x, k, claimed) == <<Part("VC", 0), Part(t, x), Part("len", claimed)>> \o Padding(k)

Claims(k) == {k} \cup IF "pads" \in habits THEN {MaxPad + 1} ELSE {}

-----------------------------------------------------------------------------
Outgoing(p) == p \in {"prefer", "require"}
Incoming(p) == p \in {"prefer", "require"}
AllowsPlaintext(p) == p \in {"off", "prefer"}

(* `send` and `recv` are the places of the two ciphers, `on` whether they  *)
(* are kept, `left` what is still to be scanned or skipped.                *)
Dialling == [pc |-> "dial", encrypting |-> TRUE, send |-> 0, recv |-> 0, left |-> 0,
             chosen |-> 0, on |-> FALSE, said |-> FALSE]
Waiting  == [pc |-> "first", send |-> 0, recv |-> 0, left |-> 0, offered |-> 0,
             chosen |-> 0, on |-> FALSE, said |-> FALSE]

ShakeInit ==
  /\ policy \in [{"a", "b"} -> Policies]
  /\ habits \in Worlds
  /\ a = [Dialling EXCEPT !.encrypting = Outgoing(policy["a"])]
  /\ b = [Waiting EXCEPT !.pc = "closed"]
  /\ ab = <<>> /\ ba = <<>>
  /\ open = FALSE
  /\ heardA = <<>> /\ heardB = <<>>

(* The public value, whose first byte is 0x13 once in a while.             *)
Publics == IF "0x13" \in habits THEN {"Y", "Y13"} ELSE {"Y"}

(* connect(), and the opening of initiate(); or the plain greeting.        *)
Dial ==
  /\ a.pc = "dial"
  /\ open' = TRUE /\ ba' = <<>>
  /\ b' = Waiting
  /\ heardA' = <<>> /\ heardB' = <<>>
  /\ IF a.encrypting
     THEN /\ \E y \in Publics, k \in 0 .. MaxPad : ab' = InClear(<<Part(y, 0)>> \o Padding(k))
          /\ a' = [a EXCEPT !.pc = "public"]
     ELSE /\ ab' = <<Clear("greeting", 0)>>
          /\ a' = [a EXCEPT !.pc = "up"]
  /\ UNCHANGED <<policy, habits>>

(* The attempt fails: one more, in the clear, where that is allowed.       *)
GivesUp ==
  /\ open' = FALSE
  /\ a' = IF a.encrypting /\ AllowsPlaintext(policy["a"])
          THEN [Dialling EXCEPT !.encrypting = FALSE]
          ELSE [a EXCEPT !.pc = "failed"]

TakeA(pc) == a.pc = pc /\ ba # <<>> /\ ba' = Tail(ba)

(* The other end's public value; then all the initiator has to say, the    *)
(* greeting and its length inside it.                                      *)
ReadPublic ==
  /\ TakeA("public")
  /\ \E k \in 0 .. MaxPad,
        known \in (IF "unknown" \in habits THEN {0, 1} ELSE {1}),
        offer \in (IF "offers" \in habits THEN 0 .. 3 ELSE {PLAINTEXT + RC4}) :
       /\ \E c \in Claims(k) :
            ab' = ab \o InClear(<<Part("req1", 0), Part("req2^req3", known)>>)
                     \o Enciphered("A", Opening("offer", offer, k, c) \o <<Part("greeting", 0)>>)
       /\ a' = [a EXCEPT !.pc = "scan", !.left = MaxPad + 1, !.send = k + 4]
  /\ UNCHANGED <<policy, habits, b, open, heardA, heardB>>

(* Mutant: the marker is not looked for after the longest padding.         *)
ScanA_OneShort ==
  /\ TakeA("scan")
  /\ IF Read(Head(ba), "B", 0) = Part("VC", 0)
     THEN a' = [a EXCEPT !.pc = "chosen", !.recv = 1] /\ UNCHANGED open
     ELSE IF a.left > 2 THEN a' = [a EXCEPT !.left = @ - 1] /\ UNCHANGED open
     ELSE GivesUp
  /\ UNCHANGED <<policy, habits, b, ab, heardA, heardB>>

(* Looking for VC as a copy of the cipher would send it; the real one is   *)
(* walked past it.                                                         *)
ScanA ==
  /\ TakeA("scan")
  /\ IF Read(Head(ba), "B", 0) = Part("VC", 0)
     THEN a' = [a EXCEPT !.pc = "chosen", !.recv = 1] /\ UNCHANGED open
     ELSE IF a.left > 1 THEN a' = [a EXCEPT !.left = @ - 1] /\ UNCHANGED open
     ELSE GivesUp
  /\ UNCHANGED <<policy, habits, b, ab, heardA, heardB>>

ReadChosen ==
  /\ TakeA("chosen")
  /\ a' = [a EXCEPT !.pc = "len", !.recv = @ + 1, !.chosen = Read(Head(ba), "B", a.recv).x]
  /\ UNCHANGED <<policy, habits, b, ab, open, heardA, heardB>>

Fits(v) == v.t = "len" /\ v.x <= MaxPad

ReadLenA ==
  /\ TakeA("len")
  /\ LET v == Read(Head(ba), "B", a.recv) IN
       IF Fits(v)
       THEN a' = [a EXCEPT !.pc = "pad", !.recv = @ + 1, !.left = v.x] /\ UNCHANGED open
       ELSE GivesUp
  /\ UNCHANGED <<policy, habits, b, ab, heardA, heardB>>

ReadPadA ==
  /\ a.left > 0 /\ TakeA("pad")
  /\ a' = [a EXCEPT !.left = @ - 1, !.recv = @ + 1]
  /\ UNCHANGED <<policy, habits, b, ab, open, heardA, heardB>>

(* settle()                                                                *)
SettleA ==
  /\ a.pc = "pad" /\ a.left = 0
  /\ IF a.chosen \in {RC4, PLAINTEXT}
     THEN a' = [a EXCEPT !.pc = "up", !.on = (a.chosen = RC4)] /\ UNCHANGED open
     ELSE GivesUp
  /\ UNCHANGED <<policy, habits, b, ab, ba, heardA, heardB>>

EndedA ==
  /\ a.pc \in {"public", "scan", "chosen", "len", "pad"}
  /\ a.pc = "pad" => a.left > 0
  /\ ba = <<>> /\ ~open
  /\ GivesUp
  /\ UNCHANGED <<policy, habits, b, ab, ba, heardA, heardB>>
-----------------------------------------------------------------------------
TakeB(pc) == b.pc = pc /\ ab # <<>> /\ ab' = Tail(ab)

CloseB == open' = FALSE /\ b' = [b EXCEPT !.pc = "closed"]

(* The first byte decides: 0x13 opens a plain handshake.                   *)
First ==
  /\ TakeB("first")
  /\ LET m == Head(ab)
         plain == m.t \in {"greeting", "Y13"}
     IN \/ /\ plain /\ m.t = "greeting" /\ AllowsPlaintext(policy["b"])
           /\ b' = [b EXCEPT !.pc = "up"]
           /\ heardB' = <<Part("greeting", 0)>>
           /\ UNCHANGED <<ba, open>>
        \/ /\ ~plain /\ Incoming(policy["b"])
           /\ \E k \in 0 .. MaxPad : ba' = InClear(<<Part("Y", 0)>> \o Padding(k))
           /\ b' = [b EXCEPT !.pc = "scan", !.left = MaxPad + 1]
           /\ UNCHANGED <<heardB, open>>
        \/ /\ IF plain THEN m.t = "Y13" \/ ~AllowsPlaintext(policy["b"])
                       ELSE ~Incoming(policy["b"])
           /\ CloseB
           /\ UNCHANGED <<ba, heardB>>
  /\ UNCHANGED <<policy, habits, a, heardA>>

ScanB ==
  /\ TakeB("scan")
  /\ IF Head(ab) = Clear("req1", 0) THEN b' = [b EXCEPT !.pc = "named"] /\ UNCHANGED open
     ELSE IF b.left > 1 THEN b' = [b EXCEPT !.left = @ - 1] /\ UNCHANGED open
     ELSE CloseB
  /\ UNCHANGED <<policy, habits, a, ba, heardA, heardB>>

(* Which torrent, and the initiator's VC, whose place is known.            *)
ReadNamed ==
  /\ TakeB("named")
  /\ IF Head(ab) = Clear("req2^req3", 1)
     THEN b' = [b EXCEPT !.pc = "vc"] /\ UNCHANGED open
     ELSE CloseB
  /\ UNCHANGED <<policy, habits, a, ba, heardA, heardB>>

ReadVC ==
  /\ TakeB("vc")
  /\ IF Read(Head(ab), "A", 0) = Part("VC", 0)
     THEN b' = [b EXCEPT !.pc = "offered", !.recv = 1] /\ UNCHANGED open
     ELSE CloseB
  /\ UNCHANGED <<policy, habits, a, ba, heardA, heardB>>

ReadOffered ==
  /\ TakeB("offered")
  /\ b' = [b EXCEPT !.pc = "len", !.recv = @ + 1, !.offered = Read(Head(ab), "A", b.recv).x]
  /\ UNCHANGED <<policy, habits, a, ba, open, heardA, heardB>>

ReadLenB ==
  /\ TakeB("len")
  /\ LET v == Read(Head(ab), "A", b.recv) IN
       IF Fits(v)
       THEN b' = [b EXCEPT !.pc = "pad", !.recv = @ + 1, !.left = v.x] /\ UNCHANGED open
       ELSE CloseB
  /\ UNCHANGED <<policy, habits, a, ba, heardA, heardB>>

ReadPadB ==
  /\ b.left > 0 /\ TakeB("pad")
  /\ b' = [b EXCEPT !.left = @ - 1, !.recv = @ + 1]
  /\ UNCHANGED <<policy, habits, a, ba, open, heardA, heardB>>

(* RC4 before plaintext.  Another client may answer anything.              *)
MayChoose ==
  IF "chooses" \in habits THEN 0 .. 3
  ELSE IF Offers(b.offered, RC4) THEN {RC4}
  ELSE IF Offers(b.offered, PLAINTEXT) THEN {PLAINTEXT} ELSE {}

Choose ==
  /\ b.pc = "pad" /\ b.left = 0
  /\ \/ \E c \in MayChoose : b' = [b EXCEPT !.pc = "payload", !.chosen = c] /\ UNCHANGED open
     \/ MayChoose = {} /\ CloseB
  /\ UNCHANGED <<policy, habits, a, ab, ba, heardA, heardB>>

(* Mutant: the cipher is handed on as it was before the padding.           *)
Answer_BeforePad ==
  /\ TakeB("payload")
  /\ heardB' = <<Read(Head(ab), "A", b.recv)>>
  /\ \E k \in 0 .. MaxPad : \E c \in Claims(k) :
       /\ ba' = ba \o Enciphered("B", Opening("chosen", b.chosen, k, c))
       /\ b' = [b EXCEPT !.pc = "up", !.on = (b.chosen = RC4), !.recv = @ + 1, !.send = 3]
  /\ UNCHANGED <<policy, habits, a, open, heardA>>

(* The carried greeting, and the answer.                                   *)
Answer ==
  /\ TakeB("payload")
  /\ heardB' = <<Read(Head(ab), "A", b.recv)>>
  /\ \E k \in 0 .. MaxPad : \E c \in Claims(k) :
       /\ ba' = ba \o Enciphered("B", Opening("chosen", b.chosen, k, c))
       /\ b' = [b EXCEPT !.pc = "up", !.on = (b.chosen = RC4), !.recv = @ + 1, !.send = k + 3]
  /\ UNCHANGED <<policy, habits, a, open, heardA>>

EndedB ==
  /\ b.pc \notin {"up", "closed"}
  /\ b.pc = "pad" => b.left > 0
  /\ ab = <<>> /\ ~open
  /\ CloseB
  /\ UNCHANGED <<policy, habits, a, ab, ba, heardA, heardB>>
-----------------------------------------------------------------------------
(* What comes after, through the ciphers or past them.                     *)
Says(e, k) == IF e.on THEN Sealed(k, e.send, "hello", 0) ELSE Clear("hello", 0)
Hears(e, m, k) == IF e.on THEN Read(m, k, e.recv) ELSE Read(m, "none", 0)

SayA ==
  /\ a.pc = "up" /\ ~a.said
  /\ a' = [a EXCEPT !.said = TRUE, !.send = @ + 1]
  /\ ab' = Append(ab, Says(a, "A"))
  /\ UNCHANGED <<policy, habits, b, ba, open, heardA, heardB>>

SayB ==
  /\ b.pc = "up" /\ ~b.said
  /\ b' = [b EXCEPT !.said = TRUE, !.send = @ + 1]
  /\ ba' = Append(ba, Says(b, "B"))
  /\ UNCHANGED <<policy, habits, a, ab, open, heardA, heardB>>

HearA ==
  /\ TakeA("up")
  /\ heardA' = Append(heardA, Hears(a, Head(ba), "B"))
  /\ a' = [a EXCEPT !.recv = @ + 1]
  /\ UNCHANGED <<policy, habits, b, ab, open, heardB>>

HearB ==
  /\ TakeB("up")
  /\ heardB' = Append(heardB, Hears(b, Head(ab), "A"))
  /\ b' = [b EXCEPT !.recv = @ + 1]
  /\ UNCHANGED <<policy, habits, a, ba, open, heardA>>

(* The network, or the other end's patience.                               *)
HangUp ==
  /\ "hangs up" \in habits /\ open
  /\ open' = FALSE
  /\ UNCHANGED <<policy, habits, a, b, ab, ba, heardA, heardB>>

StepA == Dial \/ ReadPublic \/ ScanA \/ ReadChosen \/ ReadLenA \/ ReadPadA \/ SettleA
         \/ EndedA \/ SayA \/ HearA
StepB == First \/ ScanB \/ ReadNamed \/ ReadVC \/ ReadOffered \/ ReadLenB \/ ReadPadB
         \/ Choose \/ Answer \/ EndedB \/ SayB \/ HearB

ShakeNext == StepA \/ StepB \/ HangUp

ShakeFairness == WF_peers(StepA) /\ WF_peers(StepB)

ShakeSpec == ShakeInit /\ [][ShakeNext]_peers /\ ShakeFairness
-----------------------------------------------------------------------------
Marks == [key : {"none", "A", "B"}, at : 0 .. MaxPad + 5, x : 0 .. MaxPad + 3,
          t : {"Y", "Y13", "pad", "req1", "req2^req3", "VC", "offer", "chosen", "len",
               "greeting", "hello"}]

ShakeTypeOK ==
  /\ policy \in [{"a", "b"} -> Policies]
  /\ habits \in Worlds
  /\ a.pc \in {"dial", "public", "scan", "chosen", "len", "pad", "up", "failed"}
  /\ b.pc \in {"first", "scan", "named", "vc", "offered", "len", "pad", "payload", "up", "closed"}
  /\ \A e \in {a, b} : e.left \in 0 .. MaxPad + (IF e.pc = "pad" THEN 0 ELSE 1)
  /\ \A i \in 1 .. Len(ab) : ab[i] \in Marks
  /\ \A i \in 1 .. Len(ba) : ba[i] \in Marks
  /\ open \in BOOLEAN

(* Everything that is read after the handshake is what the other end said, *)
(* from its first byte on: nothing of it was swallowed by the scan, and    *)
(* both ciphers are in step (handshake.rs: "a byte read here and dropped   *)
(* is a byte the peer never sends again").                                 *)
Understood ==
  /\ a.pc = "up" => heardA \in {<<>>, <<Part("hello", 0)>>}
  /\ b.pc = "up" => heardB \in {<<Part("greeting", 0)>>,
                                <<Part("greeting", 0), Part("hello", 0)>>}

(* An end that demands encryption never talks in the clear, whoever it     *)
(* talks to (encryption.rs Require: "nothing on the wire that says what    *)
(* this is").                                                              *)
RequiredIsKept ==
  habits \cap {"offers", "chooses"} = {} =>
    /\ a.pc = "up" /\ policy["a"] = "require" => a.on
    /\ b.pc = "up" /\ policy["b"] = "require" => b.on

(* What is read after the handshake is what the other end said, and an end *)
(* that demands encryption never talks in the clear (handshake.rs          *)
(* scan_for, settle).                                                      *)
Agreement == ShakeTypeOK /\ Understood /\ RequiredIsKept

(* Two clients whose settings allow it end up connected, whatever the      *)
(* paddings; and nobody waits for ever.                                    *)
Agreeable == ~(policy["a"] = "off" /\ policy["b"] = "require")
             /\ ~(policy["a"] = "require" /\ policy["b"] = "off")

EndsMeet ==
  habits = {} /\ Agreeable ~> /\ a.pc = "up" /\ Len(heardA) = 1
                              /\ b.pc = "up" /\ Len(heardB) = 2

NobodyWaits == <>[](a.pc \in {"up", "failed"} /\ b.pc \in {"up", "closed"})
=============================================================================
