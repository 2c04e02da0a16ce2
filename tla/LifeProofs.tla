----------------------------- MODULE LifeProofs -----------------------------
(***************************************************************************)
(* What the runs of MCLife and MCParts check.  Of one torrent, for any     *)
(* number of initializing objects and permits: types, one check each.  And *)
(* of two peers that shake hands, for paddings of any length and any       *)
(* clients: nothing that is said is lost, and who demands encryption has   *)
(* it.  Of the list of files, for any torrents, folders and presses: it    *)
(* shows what the session records.  And of the table, for any torrents,    *)
(* shelves, words and speeds: its rows are the ones asked for, in order.   *)
(***************************************************************************)
EXTENDS Lifecycle, ManagedTorrentProofs, Handshake, Files, Listing, FiniteSetTheorems,
        SequenceTheorems

----------------------------------------------------------------------------
(* Type correctness: a torrent keeps its shape through every start, pause, *)
(* check and error.                                                        *)
THEOREM TypeCorrect == Spec => []TypeOK
<1>1. Init => TypeOK
  BY AddedType DEF Init, TypeOK
<1>2. TypeOK /\ [Next]_vars => TypeOK'
  <2> SUFFICES ASSUME TypeOK, [Next]_vars
               PROVE  TypeOK'
    OBVIOUS
  <2>1. CASE Start
    BY <2>1, StartedType DEF Start, TypeOK
  <2>2. CASE Pause
    BY <2>2, PausedType DEF Pause, TypeOK
  <2>3. ASSUME NEW k \in mt.tasks, CheckEnds(k)
        PROVE  TypeOK'
    <3>1. Outcomes(mt, k) \subseteq Results
      BY DEF Outcomes, Results
    <3> QED BY <2>3, <3>1, TaskType DEF CheckEnds, TypeOK
  <2>4. ASSUME NEW k \in mt.tasks, FinishCheck(k)
        PROVE  TypeOK'
    BY <2>4, TaskType DEF FinishCheck, TypeOK
  <2>5. ASSUME NEW k \in mt.tasks, Settle(k)
        PROVE  TypeOK'
    BY <2>5, TaskType DEF Settle, TypeOK
  <2>6. CASE FatalError
    BY <2>6 DEF FatalError, TypeOK, Torrent
  <2>7. CASE ReceiveFatal
    BY <2>7, StoppedType DEF ReceiveFatal, TypeOK
  <2>8. CASE UNCHANGED vars
    BY <2>8 DEF vars, TypeOK
  <2> QED
    BY <2>1, <2>2, <2>3, <2>4, <2>5, <2>6, <2>7, <2>8 DEF Next, TaskStep
<1> QED BY <1>1, <1>2, PTL DEF Spec

----------------------------------------------------------------------------
(* At no time do two checks run on one initializing object.                *)
THEOREM OneCheckAtATime == Spec => []OneCheckPerInit
<1>1. Init => OneCheckPerInit
  BY AddedOne DEF Init, OneCheckPerInit
<1>2. TypeOK /\ OneCheckPerInit /\ [Next]_vars => OneCheckPerInit'
  <2> SUFFICES ASSUME TypeOK, OneCheckPerInit, [Next]_vars
               PROVE  OneCheck(mt')
    BY DEF OneCheckPerInit, OneCheck, Busy
  <2> USE DEF TypeOK, OneCheckPerInit
  <2>1. CASE Start
    BY <2>1, StartedOne DEF Start
  <2>2. CASE Pause
    <3>1. Paused(mt).tasks = mt.tasks /\ Paused(mt).running = mt.running
      BY DEF Paused, Torrent
    <3> QED BY <2>2, <3>1, OneCheckKept DEF Pause
  <2>3. ASSUME NEW k \in mt.tasks, CheckEnds(k)
        PROVE  OneCheck(mt')
    <3>1. Outcomes(mt, k) \subseteq Results
      BY DEF Outcomes, Results
    <3>2. PICK result \in Results : mt' = Checked(mt, k, result)
      BY <2>3, <3>1 DEF CheckEnds
    <3> QED BY <3>2, TaskOne
  <2>4. ASSUME NEW k \in mt.tasks, FinishCheck(k)
        PROVE  OneCheck(mt')
    BY <2>4, TaskOne DEF FinishCheck
  <2>5. ASSUME NEW k \in mt.tasks, Settle(k)
        PROVE  OneCheck(mt')
    BY <2>5, TaskOne DEF Settle
  <2>6. CASE FatalError
    <3>1. mt'.tasks = mt.tasks /\ mt'.running = mt.running
      BY <2>6 DEF FatalError, Torrent
    <3> QED BY <3>1, OneCheckKept
  <2>7. CASE ReceiveFatal
    <3>1. Stopped(mt).tasks = mt.tasks /\ Stopped(mt).running = mt.running
      BY DEF Stopped, Torrent
    <3> QED BY <2>7, <3>1, OneCheckKept DEF ReceiveFatal
  <2>8. CASE UNCHANGED vars
    BY <2>8 DEF vars
  <2> QED
    BY <2>1, <2>2, <2>3, <2>4, <2>5, <2>6, <2>7, <2>8 DEF Next, TaskStep
<1> QED BY <1>1, <1>2, TypeCorrect, PTL DEF Spec

----------------------------------------------------------------------------
(* The handshake.                                                          *)
(* What a mark may say, and what a mark is made of.                        *)
Kinds == {"Y", "Y13", "pad", "req1", "req2^req3", "VC", "offer", "chosen", "len",
          "greeting", "hello"}
Values == 0 .. MaxPad + 3
Parts  == [t : Kinds, x : Values]
Pairs  == [t : Kinds \cup {"noise"}, x : Values]

(* What the operators that build a message return.                         *)
LEMMA PartIs == ASSUME Bounded, NEW t \in Kinds, NEW x \in Values
  PROVE Part(t, x) \in Parts
BY DEF Part, Parts

LEMMA PaddingIs ==
  ASSUME Bounded, NEW k \in Nat
  PROVE  /\ Padding(k) \in Seq(Parts) /\ Len(Padding(k)) = k
         /\ \A i \in 1 .. k : Padding(k)[i] = Part("pad", 0)
<1>1. Part("pad", 0) \in Parts
  BY PartIs DEF Bounded, Kinds, Values
<1>2. Padding(k) = [i \in 1 .. k |-> Part("pad", 0)]
  BY DEF Padding
<1>3. Padding(k) \in [1 .. k -> Parts]
  BY <1>1, <1>2
<1>4. Padding(k) \in Seq(Parts)
  BY <1>3, SeqDef
<1> QED BY <1>2, <1>4, LenProperties

LEMMA OpeningIs ==
  ASSUME Bounded, NEW t \in Kinds, NEW x \in Values, NEW k \in Nat, NEW c \in Values
  PROVE  /\ Opening(t, x, k, c) \in Seq(Parts) /\ Len(Opening(t, x, k, c)) = k + 3
         /\ Opening(t, x, k, c)[1] = Part("VC", 0)
         /\ Opening(t, x, k, c)[2] = Part(t, x)
         /\ Opening(t, x, k, c)[3] = Part("len", c)
         /\ \A i \in 4 .. k + 3 : Opening(t, x, k, c)[i] = Part("pad", 0)
<1> DEFINE h == <<Part("VC", 0), Part(t, x), Part("len", c)>>
<1>1. h \in Seq(Parts) /\ Len(h) = 3
  <2>1. Part("VC", 0) \in Parts /\ Part(t, x) \in Parts /\ Part("len", c) \in Parts
    BY PartIs DEF Bounded, Kinds, Values
  <2> QED BY <2>1
<1>2. h \o Padding(k) \in Seq(Parts) /\ Len(h \o Padding(k)) = 3 + k
  BY <1>1, PaddingIs
<1>3. \A i \in 1 .. 3 + k : (h \o Padding(k))[i] = IF i <= 3 THEN h[i] ELSE Padding(k)[i - 3]
  BY <1>1, PaddingIs
<1>4. h[1] = Part("VC", 0) /\ h[2] = Part(t, x) /\ h[3] = Part("len", c)
  OBVIOUS
<1> HIDE DEF h
<1>5. \A i \in 4 .. k + 3 : Padding(k)[i - 3] = Part("pad", 0)
  BY PaddingIs
<1> QED BY <1>2, <1>3, <1>4, <1>5 DEF Opening, h

LEMMA InClearIs ==
  ASSUME NEW p \in Seq(Parts)
  PROVE  /\ Len(InClear(p)) = Len(p)
         /\ \A i \in 1 .. Len(p) : InClear(p)[i] = Clear(p[i].t, p[i].x)
BY DEF InClear

LEMMA EncipheredIs ==
  ASSUME NEW p \in Seq(Parts), NEW k
  PROVE  /\ Len(Enciphered(k, p)) = Len(p)
         /\ \A i \in 1 .. Len(p) : Enciphered(k, p)[i] = Sealed(k, i - 1, p[i].t, p[i].x)
BY DEF Enciphered

(* A mark is read where it was enciphered, or as noise.                    *)
LEMMA ReadIs ==
  ASSUME Bounded, NEW m \in Marks, NEW k, NEW i
  PROVE  /\ Read(m, k, i) \in Pairs
         /\ IF m.key = k /\ m.at = i
            THEN Read(m, k, i) = Part(m.t, m.x)
            ELSE Read(m, k, i) = Noise
<1>1. m.t \in Kinds /\ m.x \in Values
  BY DEF Marks, Kinds, Values
<1>2. Noise \in Pairs /\ Part(m.t, m.x) \in Pairs
  BY <1>1 DEF Noise, Part, Pairs, Bounded, Values
<1>3. Read(m, k, i) = IF m.key = k /\ m.at = i THEN Part(m.t, m.x) ELSE Noise
  BY DEF Read, Part
<1> QED BY <1>2, <1>3

(* What is on the wire is a mark.                                          *)
LEMMA ClearIsAMark ==
  ASSUME Bounded, NEW t \in Kinds, NEW x \in Values
  PROVE  Clear(t, x) \in Marks
BY DEF Bounded, Clear, Marks, Kinds, Values

LEMMA SealedIsAMark ==
  ASSUME Bounded, NEW k \in {"A", "B"}, NEW i \in 0 .. MaxPad + 5,
         NEW t \in Kinds, NEW x \in Values
  PROVE  Sealed(k, i, t, x) \in Marks
BY DEF Bounded, Sealed, Marks, Kinds, Values

(* What the two ends put on the wire.                                      *)
LEMMA GreetingIs ==
  ASSUME Bounded, NEW y \in {"Y", "Y13"}, NEW k \in 0 .. MaxPad, NEW w,
         w = InClear(<<Part(y, 0)>> \o Padding(k))
  PROVE  /\ w \in Seq(Marks) /\ Len(w) = k + 1
         /\ \A i \in 1 .. Len(w) : w[i].key = "none" /\ w[i].t \in {y, "pad"} /\ w[i].x = 0
<1> DEFINE p == <<Part(y, 0)>> \o Padding(k)
<1>1. <<Part(y, 0)>> \in Seq(Parts) /\ Len(<<Part(y, 0)>>) = 1 /\ <<Part(y, 0)>>[1] = Part(y, 0)
  <2>1. Part(y, 0) \in Parts
    BY PartIs DEF Bounded, Kinds, Values
  <2> QED BY <2>1
<1>2. /\ Padding(k) \in Seq(Parts) /\ Len(Padding(k)) = k
      /\ \A i \in 1 .. k : Padding(k)[i] = Part("pad", 0)
  BY PaddingIs
<1>3. /\ p \in Seq(Parts) /\ Len(p) = k + 1
      /\ \A i \in 1 .. k + 1 : p[i] = IF i <= 1 THEN <<Part(y, 0)>>[i] ELSE Padding(k)[i - 1]
  BY <1>1, <1>2, ConcatProperties
<1>4. \A i \in 1 .. k + 1 : p[i] \in {Part(y, 0), Part("pad", 0)}
  BY <1>1, <1>2, <1>3
<1> HIDE DEF p
<1>5. /\ Len(w) = k + 1
      /\ \A i \in 1 .. k + 1 : w[i] \in {Clear(y, 0), Clear("pad", 0)}
  <2>1. Len(w) = k + 1 /\ \A i \in 1 .. k + 1 : w[i] = Clear(p[i].t, p[i].x)
    <3>1. w = InClear(p)
      BY DEF p
    <3> QED BY <1>3, <3>1, InClearIs
  <2>2. ASSUME NEW i \in 1 .. k + 1
        PROVE  w[i] \in {Clear(y, 0), Clear("pad", 0)}
    <3>1. CASE p[i] = Part(y, 0)
      BY <2>1, <3>1 DEF Part
    <3>2. CASE p[i] = Part("pad", 0)
      BY <2>1, <3>2 DEF Part
    <3> QED BY <1>4, <3>1, <3>2
  <2> QED BY <2>1, <2>2
<1>6. Clear(y, 0) \in Marks /\ Clear("pad", 0) \in Marks
  BY ClearIsAMark DEF Bounded, Kinds, Values
<1>7. w \in Seq(Marks)
  <2>1. w = [i \in 1 .. Len(p) |-> Clear(p[i].t, p[i].x)]
    BY DEF InClear, p
  <2>2. w \in [1 .. k + 1 -> Marks]
    BY <1>3, <1>5, <1>6, <2>1
  <2> QED BY <2>2, SeqDef
<1> QED BY <1>5, <1>7 DEF Clear

LEMMA EncipheredMarks ==
  ASSUME Bounded, NEW k \in {"A", "B"}, NEW p \in Seq(Parts), Len(p) <= MaxPad + 4, NEW w,
         w = Enciphered(k, p)
  PROVE  /\ w \in Seq(Marks) /\ Len(w) = Len(p)
         /\ \A i \in 1 .. Len(p) : w[i] = Sealed(k, i - 1, p[i].t, p[i].x)
<1>1. Len(w) = Len(p) /\ \A i \in 1 .. Len(p) : w[i] = Sealed(k, i - 1, p[i].t, p[i].x)
  BY EncipheredIs
<1>2. \A i \in 1 .. Len(p) : p[i].t \in Kinds /\ p[i].x \in Values /\ i - 1 \in 0 .. MaxPad + 5
  <2> SUFFICES ASSUME NEW i \in 1 .. Len(p)
               PROVE  p[i].t \in Kinds /\ p[i].x \in Values /\ i - 1 \in 0 .. MaxPad + 5
    OBVIOUS
  <2>1. p[i] \in Parts
    BY ElementOfSeq
  <2>2. i - 1 \in 0 .. MaxPad + 5
    BY LenProperties DEF Bounded
  <2> QED BY <2>1, <2>2 DEF Parts
<1>3. \A i \in 1 .. Len(p) : Sealed(k, i - 1, p[i].t, p[i].x) \in Marks
  BY <1>2, SealedIsAMark
<1>4. w = [i \in 1 .. Len(p) |-> Sealed(k, i - 1, p[i].t, p[i].x)]
  BY DEF Enciphered
<1>5. w \in [1 .. Len(p) -> Marks] /\ Len(p) \in Nat
  BY <1>3, <1>4
<1> QED BY <1>1, <1>5, SeqDef

(* The two messages, mark by mark: what the dialling end has to say under  *)
(* its cipher, and the answer.                                             *)
IsSaying(w, o, k, c) ==
  /\ w \in Seq(Marks) /\ Len(w) = k + 4
  /\ \A i \in 1 .. k + 4 :
       /\ w[i].key = "A" /\ w[i].at = i - 1
       /\ i = 1 => w[i].t = "VC" /\ w[i].x = 0
       /\ i = 2 => w[i].x = o
       /\ i = 3 => w[i].t = "len" /\ w[i].x = c
       /\ i = k + 4 => w[i].t = "greeting" /\ w[i].x = 0

IsAnswer(w, o, k, c) ==
  /\ w \in Seq(Marks) /\ Len(w) = k + 3
  /\ \A i \in 1 .. k + 3 :
       /\ w[i].key = "B" /\ w[i].at = i - 1
       /\ i = 1 => w[i].t = "VC" /\ w[i].x = 0
       /\ i = 2 => w[i].x = o
       /\ i = 3 => w[i].t = "len" /\ w[i].x = c

LEMMA SayingIs ==
  ASSUME Bounded, NEW o \in Values, NEW k \in 0 .. MaxPad, NEW c \in Values, NEW w,
         w = Enciphered("A", Opening("offer", o, k, c) \o <<Part("greeting", 0)>>)
  PROVE  IsSaying(w, o, k, c)
<1> DEFINE h == Opening("offer", o, k, c)
           g == <<Part("greeting", 0)>>
           p == h \o g
<1>1. /\ h \in Seq(Parts) /\ Len(h) = k + 3
      /\ h[1] = Part("VC", 0) /\ h[2] = Part("offer", o) /\ h[3] = Part("len", c)
  BY OpeningIs DEF Kinds
<1>2. g \in Seq(Parts) /\ Len(g) = 1 /\ g[1] = Part("greeting", 0)
  <2>1. Part("greeting", 0) \in Parts
    BY PartIs DEF Bounded, Kinds, Values
  <2> QED BY <2>1
<1> HIDE DEF h, g
<1>3. /\ p \in Seq(Parts) /\ Len(p) = k + 4
      /\ \A i \in 1 .. k + 4 : p[i] = IF i <= k + 3 THEN h[i] ELSE g[i - (k + 3)]
  <2>1. k + 3 \in Nat /\ (k + 3) + 1 = k + 4
    BY DEF Bounded
  <2>2. p \in Seq(Parts) /\ Len(p) = (k + 3) + 1
    <3>1. p = h \o g
      BY DEF p
    <3>2. p \in Seq(Parts) /\ Len(p) = Len(h) + Len(g)
      BY <1>1, <1>2, <3>1, ConcatProperties
    <3> QED BY <1>1, <1>2, <3>2
  <2>3. \A i \in 1 .. (k + 3) + 1 : p[i] = IF i <= k + 3 THEN h[i] ELSE g[i - (k + 3)]
    BY <1>1, <1>2, ConcatProperties
  <2> QED BY <2>1, <2>2, <2>3
<1>4. /\ p[1] = Part("VC", 0) /\ p[2] = Part("offer", o) /\ p[3] = Part("len", c)
      /\ p[k + 4] = Part("greeting", 0)
  BY <1>1, <1>2, <1>3
<1> HIDE DEF p
<1>5. /\ w \in Seq(Marks) /\ Len(w) = k + 4
      /\ \A i \in 1 .. k + 4 : w[i] = Sealed("A", i - 1, p[i].t, p[i].x)
  <2>1. w = Enciphered("A", p)
    BY DEF p, h, g
  <2>2. Len(p) <= MaxPad + 4
    BY <1>3 DEF Bounded
  <2>3. ASSUME NEW q \in Seq(Parts), Len(q) <= MaxPad + 4, w = Enciphered("A", q)
        PROVE  /\ w \in Seq(Marks) /\ Len(w) = Len(q)
               /\ \A i \in 1 .. Len(q) : w[i] = Sealed("A", i - 1, q[i].t, q[i].x)
    BY <2>3, EncipheredMarks
  <2>4. /\ w \in Seq(Marks) /\ Len(w) = Len(p)
        /\ \A i \in 1 .. Len(p) : w[i] = Sealed("A", i - 1, p[i].t, p[i].x)
    BY <1>3, <2>1, <2>2, <2>3, Zenon
  <2> QED BY <1>3, <2>4
<1>6. \A i \in 1 .. k + 4 : /\ w[i].key = "A" /\ w[i].at = i - 1
                            /\ w[i].t = p[i].t /\ w[i].x = p[i].x
  <2> SUFFICES ASSUME NEW i \in 1 .. k + 4
               PROVE  /\ w[i].key = "A" /\ w[i].at = i - 1
                      /\ w[i].t = p[i].t /\ w[i].x = p[i].x
    OBVIOUS
  <2>1. w[i] = Sealed("A", i - 1, p[i].t, p[i].x)
    BY <1>5
  <2> QED BY <2>1 DEF Sealed
<1>7. 1 \in 1 .. k + 4 /\ 2 \in 1 .. k + 4 /\ 3 \in 1 .. k + 4 /\ k + 4 \in 1 .. k + 4
  BY DEF Bounded
<1>8. /\ w[1].t = "VC" /\ w[1].x = 0 /\ w[2].x = o /\ w[3].t = "len" /\ w[3].x = c
      /\ w[k + 4].t = "greeting" /\ w[k + 4].x = 0
  BY <1>4, <1>6, <1>7 DEF Part
<1> QED BY <1>5, <1>6, <1>8 DEF IsSaying

LEMMA AnsweringIs ==
  ASSUME Bounded, NEW o \in Values, NEW k \in 0 .. MaxPad, NEW c \in Values, NEW w,
         w = Enciphered("B", Opening("chosen", o, k, c))
  PROVE  IsAnswer(w, o, k, c)
<1> DEFINE p == Opening("chosen", o, k, c)
<1>1. /\ p \in Seq(Parts) /\ Len(p) = k + 3
      /\ p[1] = Part("VC", 0) /\ p[2] = Part("chosen", o) /\ p[3] = Part("len", c)
  BY OpeningIs DEF Kinds
<1> HIDE DEF p
<1>2. /\ w \in Seq(Marks) /\ Len(w) = k + 3
      /\ \A i \in 1 .. k + 3 : w[i] = Sealed("B", i - 1, p[i].t, p[i].x)
  <2>1. w = Enciphered("B", p) /\ Len(p) <= MaxPad + 4
    BY <1>1 DEF p, Bounded
  <2> QED BY <1>1, <2>1, EncipheredMarks
<1>3. \A i \in 1 .. k + 3 : /\ w[i].key = "B" /\ w[i].at = i - 1
                            /\ w[i].t = p[i].t /\ w[i].x = p[i].x
  <2> SUFFICES ASSUME NEW i \in 1 .. k + 3
               PROVE  /\ w[i].key = "B" /\ w[i].at = i - 1
                      /\ w[i].t = p[i].t /\ w[i].x = p[i].x
    OBVIOUS
  <2>1. w[i] = Sealed("B", i - 1, p[i].t, p[i].x)
    BY <1>2
  <2> QED BY <2>1 DEF Sealed
<1>4. 1 \in 1 .. k + 3 /\ 2 \in 1 .. k + 3 /\ 3 \in 1 .. k + 3
  BY DEF Bounded
<1>5. w[1].t = "VC" /\ w[1].x = 0 /\ w[2].x = o /\ w[3].t = "len" /\ w[3].x = c
  BY <1>1, <1>3, <1>4 DEF Part
<1> QED BY <1>2, <1>3, <1>5 DEF IsAnswer

(* A length is the true one, or too long to be believed.                   *)
LEMMA ClaimIs ==
  ASSUME Bounded, NEW k \in 0 .. MaxPad, NEW c \in Claims(k)
  PROVE  c \in Values /\ c \in {k, MaxPad + 1}
BY DEF Bounded, Claims, Values

(* One mark more on the wire, one less.                                    *)
LEMMA Appended ==
  ASSUME NEW w \in Seq(Marks), NEW m \in Marks
  PROVE  /\ Append(w, m) \in Seq(Marks) /\ Len(Append(w, m)) = Len(w) + 1
         /\ \A i \in 1 .. Len(w) : Append(w, m)[i] = w[i]
         /\ Append(w, m)[Len(w) + 1] = m
OBVIOUS

LEMMA Taken ==
  ASSUME NEW w \in Seq(Marks), w # <<>>
  PROVE  /\ Tail(w) \in Seq(Marks) /\ Len(Tail(w)) = Len(w) - 1 /\ Len(w) >= 1
         /\ Head(w) = w[1] /\ Head(w) \in Marks
         /\ \A i \in 1 .. Len(Tail(w)) : Tail(w)[i] = w[i + 1]
OBVIOUS

(* The shortest sequences.                                                 *)
LEMMA AloneIs ==
  ASSUME NEW x
  PROVE  Tail(<<x>>) = <<>> /\ Head(<<x>>) = x /\ Append(<<>>, x) = <<x>>
<1>1. Tail(<<x>>) = <<>>
  <2>1. <<x>> \in Seq({x}) /\ <<x>> # <<>> /\ Len(<<x>>) = 1
    OBVIOUS
  <2>2. Tail(<<x>>) \in Seq({x}) /\ Len(Tail(<<x>>)) = 0
    BY <2>1, HeadTailProperties
  <2> QED BY <2>2, EmptySeq
<1>2. Append(<<>>, x) = <<x>>
  <2> DEFINE s == Append(<<>>, x)
             t == <<x>>
  <2>1. t \in Seq({x}) /\ Len(t) = 1 /\ t[1] = x
    OBVIOUS
  <2>2. <<>> \in Seq({x}) /\ Len(<<>>) = 0 /\ x \in {x}
    OBVIOUS
  <2>3. s \in Seq({x}) /\ Len(s) = 1 /\ s[1] = x
    BY <2>2, AppendProperties
  <2> HIDE DEF s, t
  <2>4. \A i \in 1 .. Len(s) : s[i] = t[i]
    BY <2>1, <2>3
  <2>5. s = t
    BY <2>1, <2>3, <2>4, SeqEqual
  <2> QED BY <2>5 DEF s, t
<1> QED BY <1>1, <1>2

LEMMA PairIs ==
  ASSUME NEW x, NEW y
  PROVE  Tail(<<x, y>>) = <<y>> /\ Head(<<x, y>>) = x
<1> DEFINE S == {x, y}
           p == <<x, y>>
           s == Tail(p)
           t == <<y>>
<1>1. /\ p \in Seq(S) /\ Len(p) = 2 /\ p[1] = x /\ p[2] = y /\ p # <<>>
      /\ t \in Seq(S) /\ Len(t) = 1 /\ t[1] = y
  OBVIOUS
<1> HIDE DEF p, S, t
<1>2. s \in Seq(S) /\ Len(s) = 1 /\ Head(p) = x
  <2>1. Len(Tail(p)) = 1 /\ Tail(p) \in Seq(S)
    BY <1>1, HeadTailProperties
  <2> QED BY <1>1, <2>1
<1>3. s[1] = y
  <2>1. \A i \in 1 .. Len(Tail(p)) : Tail(p)[i] = p[i + 1]
    BY <1>1, HeadTailProperties
  <2> QED BY <1>1, <1>2, <2>1
<1> HIDE DEF s
<1>4. \A i \in 1 .. Len(s) : s[i] = t[i]
  BY <1>1, <1>2, <1>3
<1>5. s = t
  BY <1>1, <1>2, <1>4, SeqEqual
<1> QED BY <1>2, <1>5 DEF s, t, p

LEMMA TwoHeard == ASSUME NEW x, NEW y PROVE Append(<<x>>, y) = <<x, y>>
<1> DEFINE S == {x, y}
<1>1. <<x>> \in Seq(S) /\ Len(<<x>>) = 1 /\ y \in S /\ <<x>>[1] = x
  OBVIOUS
<1>2. /\ <<x, y>> \in Seq(S) /\ Len(<<x, y>>) = 2
      /\ <<x, y>>[1] = x /\ <<x, y>>[2] = y
  OBVIOUS
<1> HIDE DEF S
<1>3. /\ Append(<<x>>, y) \in Seq(S) /\ Len(Append(<<x>>, y)) = 2
      /\ Append(<<x>>, y)[1] = x /\ Append(<<x>>, y)[2] = y
  BY <1>1, AppendProperties
<1> DEFINE s == Append(<<x>>, y)
           t == <<x, y>>
<1>4. /\ s \in Seq(S) /\ t \in Seq(S) /\ Len(s) = 2 /\ Len(t) = 2
      /\ s[1] = t[1] /\ s[2] = t[2]
  BY <1>2, <1>3
<1> HIDE DEF s, t
<1>5. \A i \in 1 .. Len(s) : s[i] = t[i]
  <2> SUFFICES ASSUME NEW i \in 1 .. Len(s) PROVE s[i] = t[i]
    OBVIOUS
  <2>1. i = 1 \/ i = 2
    BY <1>4
  <2> QED BY <1>4, <2>1
<1>6. s = t
  BY <1>4, <1>5, SeqEqual
<1> QED BY <1>6 DEF s, t

----------------------------------------------------------------------------
(* What each action makes of the ends.                                     *)
(* The two ends as records, and what the type says besides: how far a      *)
(* cipher can have gone, and where an end says its one word.               *)
RecA == [pc : {"dial", "public", "scan", "chosen", "len", "pad", "up", "failed"},
         encrypting : BOOLEAN, send : Nat, recv : Nat, left : Nat, chosen : Nat,
         on : BOOLEAN, said : BOOLEAN]
RecB == [pc : {"first", "scan", "named", "vc", "offered", "len", "pad", "payload", "up",
               "closed"},
         send : Nat, recv : Nat, left : Nat, offered : Nat, chosen : Nat,
         on : BOOLEAN, said : BOOLEAN]

Fields ==
  /\ policy \in [{"a", "b"} -> Policies] /\ habits \in Worlds
  /\ a \in RecA /\ b \in RecB
  /\ open \in BOOLEAN

Wires == ab \in Seq(Marks) /\ ba \in Seq(Marks)

Counts ==
  /\ a.left <= MaxPad + 1 /\ a.send <= MaxPad + 5
  /\ b.left <= MaxPad + 1 /\ b.chosen <= MaxPad + 3
  /\ a.pc = "pad" => a.left <= MaxPad
  /\ b.pc = "pad" => b.left <= MaxPad
  /\ a.pc \in {"dial", "public"} => a.recv = 0 /\ a.send = 0 /\ ~a.on
  /\ a.pc \in {"scan", "chosen", "len", "pad"} => a.send >= 4
  /\ a.said => a.pc = "up"
  /\ b.said => b.pc = "up"
  /\ ~a.said => a.send <= MaxPad + 4
  /\ ~b.said => b.send <= MaxPad + 3

Typed == Fields /\ Wires /\ Counts

(* Its counters are numbers.                                               *)
LEMMA Numbers ==
  ASSUME Typed
  PROVE  /\ a.recv \in Nat /\ a.send \in Nat /\ a.left \in Nat
         /\ a.recv + 1 \in Nat /\ a.send + 1 \in Nat
         /\ b.recv \in Nat /\ b.send \in Nat /\ b.left \in Nat
         /\ b.recv + 1 \in Nat /\ b.send + 1 \in Nat
         /\ a.left > 0 => a.left - 1 \in Nat
         /\ a.left > 1 => a.left - 1 \in Nat
         /\ b.left > 0 => b.left - 1 \in Nat
         /\ b.left > 1 => b.left - 1 \in Nat
<1>1. a.recv \in Nat /\ a.send \in Nat /\ a.left \in Nat
  BY DEF Typed, Fields, RecA
<1>2. b.recv \in Nat /\ b.send \in Nat /\ b.left \in Nat
  BY DEF Typed, Fields, RecB
<1> QED BY <1>1, <1>2

(* What an action makes of an end, field by field: the lemmas named after  *)
(* an action state once what its EXCEPTs amount to.                        *)
AIs(pc, encrypting, send, recv, left, chosen, on, said) ==
  /\ a' \in RecA
  /\ a'.pc = pc /\ a'.encrypting = encrypting /\ a'.send = send /\ a'.recv = recv
  /\ a'.left = left /\ a'.chosen = chosen /\ a'.on = on /\ a'.said = said

BIs(pc, send, recv, left, offered, chosen, on, said) ==
  /\ b' \in RecB
  /\ b'.pc = pc /\ b'.send = send /\ b'.recv = recv /\ b'.left = left
  /\ b'.offered = offered /\ b'.chosen = chosen /\ b'.on = on /\ b'.said = said

GaveUp ==
  \/ /\ AIs("dial", FALSE, 0, 0, 0, 0, FALSE, FALSE)
     /\ a.encrypting /\ AllowsPlaintext(policy["a"])
  \/ AIs("failed", a.encrypting, a.send, a.recv, a.left, a.chosen, a.on, a.said)

Closed == BIs("closed", b.send, b.recv, b.left, b.offered, b.chosen, b.on, b.said)

LEMMA GivesUpIs == ASSUME Typed, GivesUp PROVE GaveUp /\ open' = FALSE
<1>1. CASE a.encrypting /\ AllowsPlaintext(policy["a"])
  <2>1. a' = [Dialling EXCEPT !.encrypting = FALSE]
    BY <1>1 DEF GivesUp
  <2>2. a' = [pc |-> "dial", encrypting |-> FALSE, send |-> 0, recv |-> 0, left |-> 0,
              chosen |-> 0, on |-> FALSE, said |-> FALSE]
    BY <2>1 DEF Dialling
  <2>3. AIs("dial", FALSE, 0, 0, 0, 0, FALSE, FALSE)
    BY <2>2 DEF AIs, RecA
  <2> QED BY <1>1, <2>3 DEF GaveUp, GivesUp
<1>2. CASE ~(a.encrypting /\ AllowsPlaintext(policy["a"]))
  <2>1. a' = [a EXCEPT !.pc = "failed"]
    BY <1>2 DEF GivesUp
  <2> QED BY <2>1 DEF GaveUp, AIs, RecA, GivesUp, Typed, Fields
<1> QED BY <1>1, <1>2

LEMMA CloseIs == ASSUME Typed, CloseB PROVE Closed /\ open' = FALSE
BY DEF CloseB, Closed, BIs, RecB, Typed, Fields

LEMMA InitTyped == ASSUME Bounded, ShakeInit PROVE Typed
<1> USE DEF ShakeInit, Dialling, Waiting, Bounded, Values
<1>1. a \in RecA /\ a.left = 0 /\ a.send = 0 /\ a.recv = 0 /\ ~a.on /\ ~a.said /\ a.pc = "dial"
  <2> DEFINE e == Outgoing(policy["a"])
  <2>1. e \in BOOLEAN
    BY DEF Outgoing
  <2>2. a = [Dialling EXCEPT !.encrypting = e]
    OBVIOUS
  <2> HIDE DEF e
  <2>3. a = [pc |-> "dial", encrypting |-> e, send |-> 0, recv |-> 0, left |-> 0,
             chosen |-> 0, on |-> FALSE, said |-> FALSE]
    BY <2>2
  <2>4. [pc |-> "dial", encrypting |-> e, send |-> 0, recv |-> 0, left |-> 0,
         chosen |-> 0, on |-> FALSE, said |-> FALSE] \in RecA
    BY ONLY <2>1 DEF RecA
  <2> QED BY <2>3, <2>4
<1>2. b \in RecB /\ b.left = 0 /\ b.send = 0 /\ b.chosen = 0 /\ ~b.said /\ b.pc = "closed"
  BY DEF RecB
<1>3. Fields
  BY <1>1, <1>2 DEF Fields
<1>4. Wires /\ Counts
  BY <1>1, <1>2 DEF Wires, Counts
<1> QED BY <1>3, <1>4 DEF Typed

LEMMA ScanAIs ==
  ASSUME Typed, ScanA
  PROVE  \/ /\ Read(Head(ba), "B", 0) = Part("VC", 0)
            /\ AIs("chosen", a.encrypting, a.send, 1, a.left, a.chosen, a.on, a.said)
         \/ /\ Read(Head(ba), "B", 0) # Part("VC", 0) /\ a.left > 1
            /\ AIs("scan", a.encrypting, a.send, a.recv, a.left - 1, a.chosen, a.on, a.said)
         \/ GaveUp
<1>1. CASE Read(Head(ba), "B", 0) = Part("VC", 0)
  <2>1. a' = [a EXCEPT !.pc = "chosen", !.recv = 1]
    BY <1>1 DEF ScanA
  <2> QED BY <1>1, <2>1 DEF AIs, RecA, Typed, Fields
<1>2. CASE Read(Head(ba), "B", 0) # Part("VC", 0) /\ a.left > 1
  <2>1. a' = [a EXCEPT !.left = a.left - 1] /\ a.pc = "scan"
    BY <1>2 DEF ScanA, TakeA
  <2> QED BY <1>2, <2>1, Numbers DEF AIs, RecA, Typed, Fields
<1>3. CASE Read(Head(ba), "B", 0) # Part("VC", 0) /\ ~(a.left > 1)
  BY <1>3, GivesUpIs DEF ScanA
<1> QED BY <1>1, <1>2, <1>3

LEMMA ReadChosenIs ==
  ASSUME Bounded, Typed, ReadChosen
  PROVE  /\ Read(Head(ba), "B", a.recv).x \in Values
         /\ AIs("len", a.encrypting, a.send, a.recv + 1, a.left, Read(Head(ba), "B", a.recv).x,
                a.on, a.said)
<1> DEFINE v == Read(Head(ba), "B", a.recv).x
<1>1. v \in Values
  BY Taken, ReadIs DEF Typed, Wires, Pairs, ReadChosen, TakeA
<1>2. v \in Nat
  BY <1>1 DEF Values
<1>3. a' = [a EXCEPT !.pc = "len", !.recv = a.recv + 1, !.chosen = v]
  BY DEF ReadChosen
<1> HIDE DEF v
<1>4. AIs("len", a.encrypting, a.send, a.recv + 1, a.left, v, a.on, a.said)
  BY <1>2, <1>3, Numbers DEF AIs, RecA, Typed, Fields
<1> QED BY <1>1, <1>4 DEF v

LEMMA ReadLenAIs ==
  ASSUME Bounded, Typed, ReadLenA
  PROVE  LET v == Read(Head(ba), "B", a.recv) IN
         \/ /\ v.t = "len" /\ v.x <= MaxPad /\ v.x \in Nat
            /\ AIs("pad", a.encrypting, a.send, a.recv + 1, v.x, a.chosen, a.on, a.said)
         \/ GaveUp
<1> DEFINE v == Read(Head(ba), "B", a.recv)
<1>1. v.x \in Values
  BY Taken, ReadIs DEF Typed, Wires, Pairs, ReadLenA, TakeA
<1>2. v.x \in Nat
  BY <1>1 DEF Values
<1>3. CASE Fits(v)
  <2>1. a' = [a EXCEPT !.pc = "pad", !.recv = a.recv + 1, !.left = v.x]
    BY <1>3 DEF ReadLenA
  <2>2. v.t = "len" /\ v.x <= MaxPad
    BY <1>3 DEF Fits
  <2> HIDE DEF v
  <2>3. AIs("pad", a.encrypting, a.send, a.recv + 1, v.x, a.chosen, a.on, a.said)
    BY <1>2, <2>1, Numbers DEF AIs, RecA, Typed, Fields
  <2> QED BY <1>2, <2>2, <2>3 DEF v
<1>4. CASE ~Fits(v)
  BY <1>4, GivesUpIs DEF ReadLenA
<1> QED BY <1>3, <1>4

LEMMA ReadPadAIs ==
  ASSUME Typed, ReadPadA
  PROVE  AIs("pad", a.encrypting, a.send, a.recv + 1, a.left - 1, a.chosen, a.on, a.said)
<1>1. a' = [a EXCEPT !.left = a.left - 1, !.recv = a.recv + 1] /\ a.pc = "pad" /\ a.left > 0
  BY DEF ReadPadA, TakeA
<1> QED BY <1>1, Numbers DEF AIs, RecA, Typed, Fields

LEMMA SettleAIs ==
  ASSUME Typed, SettleA
  PROVE  \/ /\ a.chosen \in {RC4, PLAINTEXT}
            /\ AIs("up", a.encrypting, a.send, a.recv, a.left, a.chosen, a.chosen = RC4, a.said)
         \/ GaveUp
<1>1. CASE a.chosen \in {RC4, PLAINTEXT}
  <2> DEFINE e == a.chosen = RC4
  <2>1. a' = [a EXCEPT !.pc = "up", !.on = e] /\ e \in BOOLEAN
    BY <1>1 DEF SettleA
  <2> HIDE DEF e
  <2>2. AIs("up", a.encrypting, a.send, a.recv, a.left, a.chosen, e, a.said)
    BY <2>1, Numbers DEF AIs, RecA, Typed, Fields
  <2> QED BY <1>1, <2>2 DEF e
<1>2. CASE a.chosen \notin {RC4, PLAINTEXT}
  BY <1>2, GivesUpIs DEF SettleA
<1> QED BY <1>1, <1>2

LEMMA SayAIs ==
  ASSUME Typed, SayA
  PROVE  AIs("up", a.encrypting, a.send + 1, a.recv, a.left, a.chosen, a.on, TRUE)
<1>1. a' = [a EXCEPT !.said = TRUE, !.send = a.send + 1] /\ a.pc = "up"
  BY DEF SayA
<1> QED BY <1>1, Numbers DEF AIs, RecA, Typed, Fields

LEMMA HearAIs ==
  ASSUME Typed, HearA
  PROVE  AIs("up", a.encrypting, a.send, a.recv + 1, a.left, a.chosen, a.on, a.said)
<1>1. a' = [a EXCEPT !.recv = a.recv + 1] /\ a.pc = "up"
  BY DEF HearA, TakeA
<1> QED BY <1>1, Numbers DEF AIs, RecA, Typed, Fields

LEMMA DialIs ==
  ASSUME Bounded, Typed, Dial
  PROVE  /\ BIs("first", 0, 0, 0, 0, 0, FALSE, FALSE)
         /\ AIs(IF a.encrypting THEN "public" ELSE "up", a.encrypting, a.send, a.recv, a.left,
                a.chosen, a.on, a.said)
         /\ ba' = <<>> /\ ab' \in Seq(Marks)
         /\ a.encrypting => \E y \in {"Y", "Y13"}, k \in 0 .. MaxPad :
              /\ Len(ab') = k + 1
              /\ \A i \in 1 .. Len(ab') :
                   ab'[i].key = "none" /\ ab'[i].t \in {y, "pad"} /\ ab'[i].x = 0
         /\ ~a.encrypting => ab' = <<Clear("greeting", 0)>>
<1>1. BIs("first", 0, 0, 0, 0, 0, FALSE, FALSE)
  BY DEF Dial, Waiting, BIs, RecB
<1>2. CASE a.encrypting
  <2>1. a' = [a EXCEPT !.pc = "public"]
    BY <1>2 DEF Dial
  <2>2. AIs("public", a.encrypting, a.send, a.recv, a.left, a.chosen, a.on, a.said)
    BY <2>1 DEF AIs, RecA, Typed, Fields
  <2>3. PICK y \in {"Y", "Y13"}, k \in 0 .. MaxPad : ab' = InClear(<<Part(y, 0)>> \o Padding(k))
    BY <1>2 DEF Dial, Publics
  <2>4. /\ ab' \in Seq(Marks) /\ Len(ab') = k + 1
        /\ \A i \in 1 .. Len(ab') : ab'[i].key = "none" /\ ab'[i].t \in {y, "pad"} /\ ab'[i].x = 0
    BY <2>3, GreetingIs
  <2> QED BY <1>1, <1>2, <2>2, <2>4 DEF Dial
<1>3. CASE ~a.encrypting
  <2>1. a' = [a EXCEPT !.pc = "up"]
    BY <1>3 DEF Dial
  <2>2. AIs("up", a.encrypting, a.send, a.recv, a.left, a.chosen, a.on, a.said)
    BY <2>1 DEF AIs, RecA, Typed, Fields
  <2>3. ab' = <<Clear("greeting", 0)>> /\ ba' = <<>>
    BY <1>3 DEF Dial
  <2>4. ab' \in Seq(Marks)
    <3>1. Clear("greeting", 0) \in Marks
      BY ClearIsAMark DEF Kinds, Values, Bounded
    <3> QED BY <2>3, <3>1
  <2> QED BY <1>1, <1>3, <2>2, <2>3, <2>4
<1> QED BY <1>2, <1>3

LEMMA ReadPublicIs ==
  ASSUME Bounded, Typed, ReadPublic
  PROVE  \E k \in 0 .. MaxPad, o \in 0 .. 3, c \in Values, w \in Seq(Marks), s \in Seq(Marks) :
           /\ "offers" \notin habits => o = 3
           /\ c \in {k, MaxPad + 1}
           /\ ab' = (ab \o w) \o s
           /\ Len(w) = 2 /\ w[1] = Clear("req1", 0) /\ w[2].key = "none" /\ w[2].t = "req2^req3"
           /\ IsSaying(s, o, k, c)
           /\ AIs("scan", a.encrypting, k + 4, a.recv, MaxPad + 1, a.chosen, a.on, a.said)
<1>1. PICK k \in 0 .. MaxPad, knows \in (IF "unknown" \in habits THEN {0, 1} ELSE {1}),
           o \in (IF "offers" \in habits THEN 0 .. 3 ELSE {PLAINTEXT + RC4}) :
        /\ \E c \in Claims(k) :
             ab' = ab \o InClear(<<Part("req1", 0), Part("req2^req3", knows)>>)
                      \o Enciphered("A", Opening("offer", o, k, c) \o <<Part("greeting", 0)>>)
        /\ a' = [a EXCEPT !.pc = "scan", !.left = MaxPad + 1, !.send = k + 4]
  BY DEF ReadPublic
<1>a. PICK c \in Claims(k) :
        ab' = ab \o InClear(<<Part("req1", 0), Part("req2^req3", knows)>>)
                 \o Enciphered("A", Opening("offer", o, k, c) \o <<Part("greeting", 0)>>)
  BY <1>1
<1>b. knows \in {0, 1} /\ o \in 0 .. 3 /\ ("offers" \notin habits => o = 3)
  BY DEF PLAINTEXT, RC4
<1>2. c \in Values /\ c \in {k, MaxPad + 1} /\ o \in Values /\ knows \in Values
  BY <1>b, ClaimIs DEF Values, Bounded
<1> DEFINE w == InClear(<<Part("req1", 0), Part("req2^req3", knows)>>)
           s == Enciphered("A", Opening("offer", o, k, c) \o <<Part("greeting", 0)>>)
<1>3. IsSaying(s, o, k, c)
  BY <1>2, SayingIs
<1>4. /\ w \in Seq(Marks) /\ Len(w) = 2
      /\ w[1] = Clear("req1", 0) /\ w[2].key = "none" /\ w[2].t = "req2^req3"
  <2>1. w = <<Clear("req1", 0), Clear("req2^req3", knows)>>
    <3> DEFINE p == <<Part("req1", 0), Part("req2^req3", knows)>>
    <3>1. Len(p) = 2 /\ p[1] = Part("req1", 0) /\ p[2] = Part("req2^req3", knows)
      OBVIOUS
    <3> HIDE DEF p
    <3>2. w = [i \in 1 .. 2 |-> Clear(p[i].t, p[i].x)]
      BY <3>1 DEF InClear, p
    <3>3. w = [i \in 1 .. 2 |-> IF i = 1 THEN Clear("req1", 0) ELSE Clear("req2^req3", knows)]
      BY <3>1, <3>2 DEF Part
    <3> HIDE DEF w
    <3> QED BY <3>3
  <2>2. Clear("req1", 0) \in Marks /\ Clear("req2^req3", knows) \in Marks
    BY <1>2, ClearIsAMark DEF Kinds, Values, Bounded
  <2> HIDE DEF w
  <2> QED BY <2>1, <2>2 DEF Clear
<1>5. AIs("scan", a.encrypting, k + 4, a.recv, MaxPad + 1, a.chosen, a.on, a.said)
  <2>1. k + 4 \in Nat /\ MaxPad + 1 \in Nat
    BY DEF Bounded
  <2> QED BY <1>1, <2>1 DEF AIs, RecA, Typed, Fields
<1>6. ab' = (ab \o w) \o s
  BY <1>a
<1>7. s \in Seq(Marks)
  BY <1>3 DEF IsSaying
<1> HIDE DEF w, s
<1> QED BY <1>b, <1>2, <1>3, <1>4, <1>5, <1>6, <1>7

LEMMA FirstIs ==
  ASSUME Bounded, Typed, First
  PROVE  \/ /\ Head(ab).t = "greeting" /\ AllowsPlaintext(policy["b"])
            /\ BIs("up", b.send, b.recv, b.left, b.offered, b.chosen, b.on, b.said)
            /\ heardB' = <<Part("greeting", 0)>> /\ ba' = ba
         \/ /\ Head(ab).t \notin {"greeting", "Y13"}
            /\ \E k \in 0 .. MaxPad :
                 /\ ba' \in Seq(Marks) /\ Len(ba') = k + 1
                 /\ \A i \in 1 .. Len(ba') : ba'[i].key = "none"
            /\ BIs("scan", b.send, b.recv, MaxPad + 1, b.offered, b.chosen, b.on, b.said)
            /\ heardB' = heardB
         \/ Closed /\ ba' = ba /\ heardB' = heardB
<1>1. CASE /\ Head(ab).t = "greeting" /\ AllowsPlaintext(policy["b"])
           /\ b' = [b EXCEPT !.pc = "up"]
           /\ heardB' = <<Part("greeting", 0)>> /\ ba' = ba
  <2>1. BIs("up", b.send, b.recv, b.left, b.offered, b.chosen, b.on, b.said)
    BY <1>1 DEF BIs, RecB, Typed, Fields
  <2> QED BY <1>1, <2>1
<1>2. CASE /\ Head(ab).t \notin {"greeting", "Y13"}
           /\ \E k \in 0 .. MaxPad : ba' = InClear(<<Part("Y", 0)>> \o Padding(k))
           /\ b' = [b EXCEPT !.pc = "scan", !.left = MaxPad + 1]
           /\ heardB' = heardB
  <2>1. PICK k \in 0 .. MaxPad : ba' = InClear(<<Part("Y", 0)>> \o Padding(k))
    BY <1>2
  <2>2. /\ ba' \in Seq(Marks) /\ Len(ba') = k + 1
        /\ \A i \in 1 .. Len(ba') : ba'[i].key = "none"
    BY <2>1, GreetingIs
  <2>3. MaxPad + 1 \in Nat
    BY DEF Bounded
  <2>4. BIs("scan", b.send, b.recv, MaxPad + 1, b.offered, b.chosen, b.on, b.said)
    BY <1>2, <2>3 DEF BIs, RecB, Typed, Fields
  <2> QED BY <1>2, <2>2, <2>4
<1>3. CASE CloseB /\ ba' = ba /\ heardB' = heardB
  BY <1>3, CloseIs
<1> QED BY <1>1, <1>2, <1>3 DEF First

LEMMA ScanBIs ==
  ASSUME Typed, ScanB
  PROVE  \/ /\ Head(ab) = Clear("req1", 0)
            /\ BIs("named", b.send, b.recv, b.left, b.offered, b.chosen, b.on, b.said)
         \/ /\ Head(ab) # Clear("req1", 0) /\ b.left > 1
            /\ BIs("scan", b.send, b.recv, b.left - 1, b.offered, b.chosen, b.on, b.said)
         \/ Closed
<1>1. CASE Head(ab) = Clear("req1", 0)
  <2>1. b' = [b EXCEPT !.pc = "named"]
    BY <1>1 DEF ScanB
  <2> QED BY <1>1, <2>1 DEF BIs, RecB, Typed, Fields
<1>2. CASE Head(ab) # Clear("req1", 0) /\ b.left > 1
  <2>1. b' = [b EXCEPT !.left = b.left - 1] /\ b.pc = "scan"
    BY <1>2 DEF ScanB, TakeB
  <2> QED BY <1>2, <2>1, Numbers DEF BIs, RecB, Typed, Fields
<1>3. CASE Head(ab) # Clear("req1", 0) /\ ~(b.left > 1)
  BY <1>3, CloseIs DEF ScanB
<1> QED BY <1>1, <1>2, <1>3

LEMMA ReadNamedIs ==
  ASSUME Typed, ReadNamed
  PROVE  \/ BIs("vc", b.send, b.recv, b.left, b.offered, b.chosen, b.on, b.said)
         \/ Closed
<1>1. CASE Head(ab) = Clear("req2^req3", 1)
  <2>1. b' = [b EXCEPT !.pc = "vc"]
    BY <1>1 DEF ReadNamed
  <2> QED BY <2>1 DEF BIs, RecB, Typed, Fields
<1>2. CASE Head(ab) # Clear("req2^req3", 1)
  BY <1>2, CloseIs DEF ReadNamed
<1> QED BY <1>1, <1>2

LEMMA ReadVCIs ==
  ASSUME Typed, ReadVC
  PROVE  \/ BIs("offered", b.send, 1, b.left, b.offered, b.chosen, b.on, b.said)
         \/ Closed
<1>1. CASE Read(Head(ab), "A", 0) = Part("VC", 0)
  <2>1. b' = [b EXCEPT !.pc = "offered", !.recv = 1]
    BY <1>1 DEF ReadVC
  <2> QED BY <2>1 DEF BIs, RecB, Typed, Fields
<1>2. CASE Read(Head(ab), "A", 0) # Part("VC", 0)
  BY <1>2, CloseIs DEF ReadVC
<1> QED BY <1>1, <1>2

LEMMA ReadOfferedIs ==
  ASSUME Bounded, Typed, ReadOffered
  PROVE  LET v == Read(Head(ab), "A", b.recv).x
         IN  v \in Values /\ BIs("len", b.send, b.recv + 1, b.left, v, b.chosen, b.on, b.said)
<1> DEFINE v == Read(Head(ab), "A", b.recv).x
<1>1. v \in Values
  BY Taken, ReadIs DEF Typed, Wires, Pairs, ReadOffered, TakeB
<1>2. v \in Nat
  BY <1>1 DEF Values
<1>3. b' = [b EXCEPT !.pc = "len", !.recv = b.recv + 1, !.offered = v]
  BY DEF ReadOffered
<1> HIDE DEF v
<1>4. BIs("len", b.send, b.recv + 1, b.left, v, b.chosen, b.on, b.said)
  BY <1>2, <1>3, Numbers DEF BIs, RecB, Typed, Fields
<1> QED BY <1>1, <1>4 DEF v

LEMMA ReadLenBIs ==
  ASSUME Bounded, Typed, ReadLenB
  PROVE  LET v == Read(Head(ab), "A", b.recv) IN
         \/ /\ v.t = "len" /\ v.x <= MaxPad /\ v.x \in Nat
            /\ BIs("pad", b.send, b.recv + 1, v.x, b.offered, b.chosen, b.on, b.said)
         \/ Closed
<1> DEFINE v == Read(Head(ab), "A", b.recv)
<1>1. v.x \in Values
  BY Taken, ReadIs DEF Typed, Wires, Pairs, ReadLenB, TakeB
<1>2. v.x \in Nat
  BY <1>1 DEF Values
<1>3. CASE Fits(v)
  <2>1. b' = [b EXCEPT !.pc = "pad", !.recv = b.recv + 1, !.left = v.x]
    BY <1>3 DEF ReadLenB
  <2>2. v.t = "len" /\ v.x <= MaxPad
    BY <1>3 DEF Fits
  <2> HIDE DEF v
  <2>3. BIs("pad", b.send, b.recv + 1, v.x, b.offered, b.chosen, b.on, b.said)
    BY <1>2, <2>1, Numbers DEF BIs, RecB, Typed, Fields
  <2> QED BY <1>2, <2>2, <2>3 DEF v
<1>4. CASE ~Fits(v)
  BY <1>4, CloseIs DEF ReadLenB
<1> QED BY <1>3, <1>4

LEMMA ReadPadBIs ==
  ASSUME Typed, ReadPadB
  PROVE  BIs("pad", b.send, b.recv + 1, b.left - 1, b.offered, b.chosen, b.on, b.said)
<1>1. b' = [b EXCEPT !.left = b.left - 1, !.recv = b.recv + 1] /\ b.pc = "pad" /\ b.left > 0
  BY DEF ReadPadB, TakeB
<1> QED BY <1>1, Numbers DEF BIs, RecB, Typed, Fields

LEMMA ChooseIs ==
  ASSUME Typed, Choose
  PROVE  \/ \E c \in MayChoose : /\ c \in 0 .. 3
                              /\ BIs("payload", b.send, b.recv, b.left, b.offered, c, b.on, b.said)
         \/ Closed
<1>1. ASSUME NEW c \in MayChoose, b' = [b EXCEPT !.pc = "payload", !.chosen = c]
      PROVE  c \in 0 .. 3 /\ BIs("payload", b.send, b.recv, b.left, b.offered, c, b.on, b.said)
  <2>1. c \in 0 .. 3
    BY DEF MayChoose, RC4, PLAINTEXT
  <2>2. c \in Nat
    BY <2>1
  <2> QED BY <1>1, <2>1, <2>2 DEF BIs, RecB, Typed, Fields
<1>2. CASE CloseB
  BY <1>2, CloseIs
<1> QED BY <1>1, <1>2 DEF Choose

LEMMA AnswerIs ==
  ASSUME Bounded, Typed, Answer
  PROVE  \E k \in 0 .. MaxPad, c \in Values, s \in Seq(Marks) :
           /\ c \in {k, MaxPad + 1}
           /\ ba' = ba \o s
           /\ IsAnswer(s, b.chosen, k, c)
           /\ BIs("up", k + 3, b.recv + 1, b.left, b.offered, b.chosen, b.chosen = RC4, b.said)
<1>1. PICK k \in 0 .. MaxPad : \E c \in Claims(k) :
        /\ ba' = ba \o Enciphered("B", Opening("chosen", b.chosen, k, c))
        /\ b' = [b EXCEPT !.pc = "up", !.on = (b.chosen = RC4), !.recv = b.recv + 1,
                          !.send = k + 3]
  BY DEF Answer
<1>a. PICK c \in Claims(k) :
        /\ ba' = ba \o Enciphered("B", Opening("chosen", b.chosen, k, c))
        /\ b' = [b EXCEPT !.pc = "up", !.on = (b.chosen = RC4), !.recv = b.recv + 1,
                          !.send = k + 3]
  BY <1>1
<1>2. c \in Values /\ c \in {k, MaxPad + 1} /\ b.chosen \in Values
  BY ClaimIs DEF Values, Typed, Fields, RecB, Counts
<1> DEFINE s == Enciphered("B", Opening("chosen", b.chosen, k, c))
           e == b.chosen = RC4
<1>3. IsAnswer(s, b.chosen, k, c)
  BY <1>2, AnsweringIs
<1>4. BIs("up", k + 3, b.recv + 1, b.left, b.offered, b.chosen, e, b.said)
  <2>1. k + 3 \in Nat /\ e \in BOOLEAN
    BY DEF Bounded
  <2>2. b' = [b EXCEPT !.pc = "up", !.on = e, !.recv = b.recv + 1, !.send = k + 3]
    BY <1>a
  <2> HIDE DEF e
  <2> QED BY <2>1, <2>2, Numbers DEF BIs, RecB, Typed, Fields
<1>5. ba' = ba \o s
  BY <1>a
<1>6. s \in Seq(Marks)
  BY <1>3 DEF IsAnswer
<1> HIDE DEF s
<1> QED BY <1>2, <1>3, <1>4, <1>5, <1>6

LEMMA SayBIs ==
  ASSUME Typed, SayB
  PROVE  BIs("up", b.send + 1, b.recv, b.left, b.offered, b.chosen, b.on, TRUE)
<1>1. b' = [b EXCEPT !.said = TRUE, !.send = b.send + 1] /\ b.pc = "up"
  BY DEF SayB
<1> QED BY <1>1, Numbers DEF BIs, RecB, Typed, Fields

LEMMA HearBIs ==
  ASSUME Typed, HearB
  PROVE  BIs("up", b.send, b.recv + 1, b.left, b.offered, b.chosen, b.on, b.said)
<1>1. b' = [b EXCEPT !.recv = b.recv + 1] /\ b.pc = "up"
  BY DEF HearB, TakeB
<1> QED BY <1>1, Numbers DEF BIs, RecB, Typed, Fields

----------------------------------------------------------------------------
(* Every action keeps the types.                                           *)
(* The sums the bounds need.                                               *)
LEMMA Bounds ==
  ASSUME Bounded, Typed
  PROVE  /\ a.left > 0 => a.left - 1 <= MaxPad /\ a.left - 1 <= MaxPad + 1
         /\ a.left > 1 => a.left - 1 <= MaxPad /\ a.left - 1 <= MaxPad + 1
         /\ b.left > 0 => b.left - 1 <= MaxPad /\ b.left - 1 <= MaxPad + 1
         /\ b.left > 1 => b.left - 1 <= MaxPad /\ b.left - 1 <= MaxPad + 1
         /\ ~a.said => a.send + 1 <= MaxPad + 5
         /\ 0 <= MaxPad /\ 0 <= MaxPad + 1 /\ 0 <= MaxPad + 3
         /\ 0 <= MaxPad + 4 /\ 0 <= MaxPad + 5
         /\ MaxPad + 1 <= MaxPad + 1
         /\ \A n \in Nat : n <= MaxPad => /\ n <= MaxPad + 1
                                         /\ n + 4 <= MaxPad + 4 /\ n + 4 <= MaxPad + 5 /\ n + 4 >= 4
                                         /\ n + 3 <= MaxPad + 3
         /\ \A n \in 0 .. 3 : n <= MaxPad + 3
BY Numbers DEF Bounded, Typed, Counts

LEMMA ScanATyped == ASSUME Bounded, Typed, ScanA PROVE Typed'
<1>2. Fields'
  BY ScanAIs DEF ScanA, AIs, GaveUp, GivesUp, Typed, Fields
<1>3. Wires'
  BY Taken DEF ScanA, TakeA, Typed, Wires
<1>4. Counts'
  BY ScanAIs, Bounds, Numbers DEF ScanA, AIs, TakeA, GaveUp, Typed, Counts
<1> QED BY <1>2, <1>3, <1>4 DEF Typed

LEMMA ReadChosenTyped == ASSUME Bounded, Typed, ReadChosen PROVE Typed'
<1>2. Fields'
  BY ReadChosenIs DEF ReadChosen, AIs, Typed, Fields
<1>3. Wires'
  BY Taken DEF ReadChosen, TakeA, Typed, Wires
<1>4. Counts'
  BY ReadChosenIs, Bounds, Numbers DEF ReadChosen, AIs, TakeA, Values, Typed, Counts
<1> QED BY <1>2, <1>3, <1>4 DEF Typed

LEMMA ReadLenATyped == ASSUME Bounded, Typed, ReadLenA PROVE Typed'
<1>2. Fields'
  BY ReadLenAIs DEF ReadLenA, AIs, GaveUp, GivesUp, Typed, Fields
<1>3. Wires'
  BY Taken DEF ReadLenA, TakeA, Typed, Wires
<1>4. Counts'
  BY ReadLenAIs, Bounds, Numbers DEF ReadLenA, AIs, TakeA, GaveUp, Typed, Counts
<1> QED BY <1>2, <1>3, <1>4 DEF Typed

LEMMA ReadPadATyped == ASSUME Bounded, Typed, ReadPadA PROVE Typed'
<1>2. Fields'
  BY ReadPadAIs DEF ReadPadA, AIs, Typed, Fields
<1>3. Wires'
  BY Taken DEF ReadPadA, TakeA, Typed, Wires
<1>4. Counts'
  BY ReadPadAIs, Bounds, Numbers DEF ReadPadA, AIs, TakeA, Typed, Counts
<1> QED BY <1>2, <1>3, <1>4 DEF Typed

LEMMA HearATyped == ASSUME Bounded, Typed, HearA PROVE Typed'
<1>2. Fields'
  BY HearAIs DEF HearA, AIs, Typed, Fields
<1>3. Wires'
  BY Taken DEF HearA, TakeA, Typed, Wires
<1>4. Counts'
  BY HearAIs, Bounds, Numbers DEF HearA, AIs, TakeA, Typed, Counts
<1> QED BY <1>2, <1>3, <1>4 DEF Typed

LEMMA ScanBTyped == ASSUME Bounded, Typed, ScanB PROVE Typed'
<1>2. Fields'
  BY ScanBIs DEF ScanB, BIs, Closed, CloseB, Typed, Fields
<1>3. Wires'
  BY Taken DEF ScanB, TakeB, Typed, Wires
<1>4. Counts'
  BY ScanBIs, Bounds, Numbers DEF ScanB, BIs, TakeB, Closed, Typed, Counts
<1> QED BY <1>2, <1>3, <1>4 DEF Typed

LEMMA ReadNamedTyped == ASSUME Bounded, Typed, ReadNamed PROVE Typed'
<1>2. Fields'
  BY ReadNamedIs DEF ReadNamed, BIs, Closed, CloseB, Typed, Fields
<1>3. Wires'
  BY Taken DEF ReadNamed, TakeB, Typed, Wires
<1>4. Counts'
  BY ReadNamedIs, Bounds, Numbers DEF ReadNamed, BIs, TakeB, Closed, Typed, Counts
<1> QED BY <1>2, <1>3, <1>4 DEF Typed

LEMMA ReadVCTyped == ASSUME Bounded, Typed, ReadVC PROVE Typed'
<1>2. Fields'
  BY ReadVCIs DEF ReadVC, BIs, Closed, CloseB, Typed, Fields
<1>3. Wires'
  BY Taken DEF ReadVC, TakeB, Typed, Wires
<1>4. Counts'
  BY ReadVCIs, Bounds, Numbers DEF ReadVC, BIs, TakeB, Closed, Typed, Counts
<1> QED BY <1>2, <1>3, <1>4 DEF Typed

LEMMA ReadOfferedTyped == ASSUME Bounded, Typed, ReadOffered PROVE Typed'
<1>2. Fields'
  BY ReadOfferedIs DEF ReadOffered, BIs, Typed, Fields
<1>3. Wires'
  BY Taken DEF ReadOffered, TakeB, Typed, Wires
<1>4. Counts'
  BY ReadOfferedIs, Bounds, Numbers DEF ReadOffered, BIs, TakeB, Values, Typed, Counts
<1> QED BY <1>2, <1>3, <1>4 DEF Typed

LEMMA ReadLenBTyped == ASSUME Bounded, Typed, ReadLenB PROVE Typed'
<1>2. Fields'
  BY ReadLenBIs DEF ReadLenB, BIs, Closed, CloseB, Typed, Fields
<1>3. Wires'
  BY Taken DEF ReadLenB, TakeB, Typed, Wires
<1>4. Counts'
  BY ReadLenBIs, Bounds, Numbers DEF ReadLenB, BIs, TakeB, Closed, Typed, Counts
<1> QED BY <1>2, <1>3, <1>4 DEF Typed

LEMMA ReadPadBTyped == ASSUME Bounded, Typed, ReadPadB PROVE Typed'
<1>2. Fields'
  BY ReadPadBIs DEF ReadPadB, BIs, Typed, Fields
<1>3. Wires'
  BY Taken DEF ReadPadB, TakeB, Typed, Wires
<1>4. Counts'
  BY ReadPadBIs, Bounds, Numbers DEF ReadPadB, BIs, TakeB, Typed, Counts
<1> QED BY <1>2, <1>3, <1>4 DEF Typed

LEMMA HearBTyped == ASSUME Bounded, Typed, HearB PROVE Typed'
<1>2. Fields'
  BY HearBIs DEF HearB, BIs, Typed, Fields
<1>3. Wires'
  BY Taken DEF HearB, TakeB, Typed, Wires
<1>4. Counts'
  BY HearBIs, Bounds, Numbers DEF HearB, BIs, TakeB, Typed, Counts
<1> QED BY <1>2, <1>3, <1>4 DEF Typed

LEMMA SettleATyped == ASSUME Bounded, Typed, SettleA PROVE Typed'
<1>2. Fields'
  BY SettleAIs DEF SettleA, AIs, GaveUp, GivesUp, Typed, Fields
<1>3. Wires'
  BY DEF SettleA, Typed, Wires
<1>4. Counts'
  BY SettleAIs, Bounds, Numbers DEF SettleA, AIs, GaveUp, Typed, Counts
<1> QED BY <1>2, <1>3, <1>4 DEF Typed

LEMMA EndedATyped == ASSUME Bounded, Typed, EndedA PROVE Typed'
<1>1. GaveUp /\ open' = FALSE
  BY GivesUpIs DEF EndedA
<1>2. Fields'
  BY <1>1 DEF EndedA, AIs, GaveUp, GivesUp, Typed, Fields
<1>3. Wires'
  BY DEF EndedA, Typed, Wires
<1>4. Counts'
  BY <1>1, Bounds, Numbers DEF EndedA, AIs, GaveUp, Typed, Counts
<1> QED BY <1>2, <1>3, <1>4 DEF Typed

LEMMA EndedBTyped == ASSUME Bounded, Typed, EndedB PROVE Typed'
<1>1. Closed /\ open' = FALSE
  BY CloseIs DEF EndedB
<1>2. Fields'
  BY <1>1 DEF EndedB, BIs, Closed, CloseB, Typed, Fields
<1>3. Wires'
  BY DEF EndedB, Typed, Wires
<1>4. Counts'
  BY <1>1, Bounds, Numbers DEF EndedB, BIs, Closed, Typed, Counts
<1> QED BY <1>2, <1>3, <1>4 DEF Typed

LEMMA ChooseTyped == ASSUME Bounded, Typed, Choose PROVE Typed'
<1>2. Fields'
  BY ChooseIs DEF Choose, BIs, Closed, CloseB, Typed, Fields
<1>3. Wires'
  BY DEF Choose, Typed, Wires
<1>4. Counts'
  BY ChooseIs, Bounds, Numbers DEF Choose, BIs, Closed, Typed, Counts
<1> QED BY <1>2, <1>3, <1>4 DEF Typed

LEMMA HangUpTyped == ASSUME Typed, HangUp PROVE Typed'
BY DEF HangUp, Typed, Fields, Wires, Counts

LEMMA DialTyped == ASSUME Bounded, Typed, Dial PROVE Typed'
<1>2. Fields'
  BY DialIs DEF Dial, AIs, BIs, Typed, Fields
<1>3. Wires'
  BY DialIs DEF Wires
<1>4. Counts'
  BY DialIs, Bounds, Numbers DEF Dial, AIs, BIs, Typed, Counts
<1> QED BY <1>2, <1>3, <1>4 DEF Typed

LEMMA ReadPublicTyped == ASSUME Bounded, Typed, ReadPublic PROVE Typed'
<1>1. PICK k \in 0 .. MaxPad, w \in Seq(Marks), s \in Seq(Marks) :
        /\ ab' = (ab \o w) \o s
        /\ AIs("scan", a.encrypting, k + 4, a.recv, MaxPad + 1, a.chosen, a.on, a.said)
  <2>1. PICK k \in 0 .. MaxPad, o \in 0 .. 3, c \in Values, w \in Seq(Marks), s \in Seq(Marks) :
          /\ ab' = (ab \o w) \o s
          /\ IsSaying(s, o, k, c)
          /\ AIs("scan", a.encrypting, k + 4, a.recv, MaxPad + 1, a.chosen, a.on, a.said)
    BY ReadPublicIs
  <2>2. s \in Seq(Marks)
    BY <2>1 DEF IsSaying
  <2> QED BY <2>1, <2>2
<1>2. Fields'
  BY <1>1 DEF ReadPublic, AIs, Typed, Fields
<1>3. Wires'
  <2>1. ba' \in Seq(Marks)
    BY Taken DEF ReadPublic, TakeA, Typed, Wires
  <2>2. ab \o w \in Seq(Marks)
    BY ConcatProperties DEF Typed, Wires
  <2>3. (ab \o w) \o s \in Seq(Marks)
    BY <2>2, ConcatProperties
  <2> QED BY <1>1, <2>1, <2>3 DEF Wires
<1>4. Counts'
  <2>1. k \in Nat /\ k <= MaxPad
    BY DEF Bounded
  <2> QED BY <1>1, <2>1, Bounds DEF ReadPublic, TakeA, AIs, Typed, Counts
<1> QED BY <1>2, <1>3, <1>4 DEF Typed

LEMMA FirstTyped == ASSUME Bounded, Typed, First PROVE Typed'
<1>2. Fields'
  BY FirstIs DEF First, BIs, Closed, CloseB, Typed, Fields
<1>3. Wires'
  BY FirstIs, Taken DEF First, TakeB, Typed, Wires
<1>4. Counts'
  BY FirstIs, Bounds, Numbers DEF First, TakeB, BIs, Closed, Typed, Counts
<1> QED BY <1>2, <1>3, <1>4 DEF Typed

LEMMA AnswerTyped == ASSUME Bounded, Typed, Answer PROVE Typed'
<1>1. PICK k \in 0 .. MaxPad, s \in Seq(Marks) :
        /\ ba' = ba \o s
        /\ BIs("up", k + 3, b.recv + 1, b.left, b.offered, b.chosen, b.chosen = RC4, b.said)
  BY AnswerIs DEF IsAnswer
<1>2. Fields'
  BY <1>1 DEF Answer, BIs, Typed, Fields
<1>3. Wires'
  <2>1. ab' \in Seq(Marks)
    BY Taken DEF Answer, TakeB, Typed, Wires
  <2>2. ba \o s \in Seq(Marks)
    BY ConcatProperties DEF Typed, Wires
  <2> QED BY <1>1, <2>1, <2>2 DEF Wires
<1>4. Counts'
  <2>1. k \in Nat /\ k <= MaxPad
    BY DEF Bounded
  <2> QED BY <1>1, <2>1, Bounds DEF Answer, TakeB, BIs, Typed, Counts
<1> QED BY <1>2, <1>3, <1>4 DEF Typed

(* What is said after the handshake is a mark.                             *)
LEMMA SaysAMark ==
  ASSUME Bounded, Typed
  PROVE  /\ ~a.said => Says(a, "A") \in Marks
         /\ ~b.said => Says(b, "B") \in Marks
<1>1. Clear("hello", 0) \in Marks
  BY ClearIsAMark DEF Kinds, Values, Bounded
<1>2. ~a.said => a.send \in 0 .. MaxPad + 5
  BY Bounds, Numbers DEF Typed, Counts, Bounded
<1>3. ~b.said => b.send \in 0 .. MaxPad + 5
  BY Bounds, Numbers DEF Typed, Counts, Bounded
<1>4. \A i \in 0 .. MaxPad + 5 :
        Sealed("A", i, "hello", 0) \in Marks /\ Sealed("B", i, "hello", 0) \in Marks
  BY SealedIsAMark DEF Kinds, Values, Bounded
<1> QED BY <1>1, <1>2, <1>3, <1>4 DEF Says

LEMMA SayATyped == ASSUME Bounded, Typed, SayA PROVE Typed'
<1>1. ab' = Append(ab, Says(a, "A")) /\ Says(a, "A") \in Marks
  BY SaysAMark DEF SayA
<1>2. Fields'
  BY SayAIs DEF SayA, AIs, Typed, Fields
<1>3. Wires'
  BY <1>1, Appended DEF SayA, Typed, Wires
<1>4. Counts'
  BY SayAIs, Bounds, Numbers DEF SayA, AIs, Typed, Counts
<1> QED BY <1>2, <1>3, <1>4 DEF Typed

LEMMA SayBTyped == ASSUME Bounded, Typed, SayB PROVE Typed'
<1>1. ba' = Append(ba, Says(b, "B")) /\ Says(b, "B") \in Marks
  BY SaysAMark DEF SayB
<1>2. Fields'
  BY SayBIs DEF SayB, BIs, Typed, Fields
<1>3. Wires'
  BY <1>1, Appended DEF SayB, Typed, Wires
<1>4. Counts'
  BY SayBIs, Bounds, Numbers DEF SayB, BIs, Typed, Counts
<1> QED BY <1>2, <1>3, <1>4 DEF Typed

----------------------------------------------------------------------------
(* Between two clients like this one, the mark at the second place of a    *)
(* keystream offers both methods, or chooses RC4; so whoever enciphered at *)
(* all keeps the ciphers, and who demands them never took another way.     *)
Honest == habits \cap {"offers", "chooses"} = {}

Carries(w, key, x) == \A i \in 1 .. Len(w) : w[i].key = key /\ w[i].at = 1 => w[i].x = x
WiresKept == Carries(ab, "A", 3) /\ Carries(ba, "B", RC4)

KeptA ==
  /\ a.on => a.send >= 4
  /\ a.pc = "chosen" => a.recv = 1
  /\ a.pc \in {"len", "pad"} => a.chosen \in {0, RC4}
  /\ policy["a"] = "require" => a.encrypting
  /\ a.pc = "up" /\ a.encrypting => a.on

KeptB ==
  /\ b.on => b.send >= 3
  /\ b.pc = "offered" => b.recv = 1
  /\ b.pc \in {"len", "pad"} => b.offered \in {0, 3}
  /\ b.pc = "payload" => b.chosen = RC4
  /\ b.pc = "up" /\ ~b.on => AllowsPlaintext(policy["b"])

Kept == Honest => WiresKept /\ KeptA /\ KeptB

(* The wire keeps what it carries as marks come and go.                    *)
LEMMA TailKept ==
  ASSUME NEW w \in Seq(Marks), w # <<>>, NEW key, NEW x, Carries(w, key, x)
  PROVE  Carries(Tail(w), key, x)
<1> SUFFICES ASSUME NEW i \in 1 .. Len(Tail(w)), Tail(w)[i].key = key /\ Tail(w)[i].at = 1
             PROVE  Tail(w)[i].x = x
  BY DEF Carries
<1>1. Tail(w)[i] = w[i + 1] /\ i + 1 \in 1 .. Len(w)
  BY Taken
<1> QED BY <1>1 DEF Carries

LEMMA JoinKept ==
  ASSUME NEW w \in Seq(Marks), NEW v \in Seq(Marks), NEW key, NEW x,
         Carries(w, key, x), Carries(v, key, x)
  PROVE  Carries(w \o v, key, x)
<1> SUFFICES ASSUME NEW i \in 1 .. Len(w \o v), (w \o v)[i].key = key /\ (w \o v)[i].at = 1
             PROVE  (w \o v)[i].x = x
  BY DEF Carries
<1>1. Len(w) \in Nat /\ Len(v) \in Nat /\ Len(w \o v) = Len(w) + Len(v)
  BY ConcatProperties, LenProperties
<1>2. CASE i <= Len(w)
  <2>1. i \in 1 .. Len(w) /\ (w \o v)[i] = w[i]
    BY <1>1, <1>2, ConcatProperties
  <2> QED BY <2>1 DEF Carries
<1>3. CASE i > Len(w)
  <2>1. i - Len(w) \in 1 .. Len(v) /\ (w \o v)[i] = v[i - Len(w)]
    BY <1>1, <1>3, ConcatProperties
  <2> QED BY <2>1 DEF Carries
<1> QED BY <1>1, <1>2, <1>3

LEMMA MoreKept ==
  ASSUME NEW w \in Seq(Marks), NEW m \in Marks, NEW key, NEW x,
         Carries(w, key, x), m.key = key => m.at # 1
  PROVE  Carries(Append(w, m), key, x)
<1> SUFFICES ASSUME NEW i \in 1 .. Len(w) + 1,
                    Append(w, m)[i].key = key /\ Append(w, m)[i].at = 1
             PROVE  Append(w, m)[i].x = x
  BY Appended DEF Carries
<1>1. CASE i \in 1 .. Len(w)
  BY <1>1, Appended DEF Carries
<1>2. CASE i = Len(w) + 1
  BY <1>2, Appended
<1> QED BY <1>1, <1>2, LenProperties

LEMMA HeadKept ==
  ASSUME NEW w \in Seq(Marks), w # <<>>, NEW key, NEW x, Carries(w, key, x)
  PROVE  Read(Head(w), key, 1).x \in {0, x}
<1>1. Head(w) = w[1] /\ 1 \in 1 .. Len(w)
  BY Taken
<1> QED BY <1>1 DEF Carries, Read, Noise

(* Whoever was offered both, or read noise, answers RC4 or nothing.        *)
LEMMA Honestly ==
  ASSUME Honest, b.offered \in {0, 3}
  PROVE  MayChoose \subseteq {RC4}
<1>1. "chooses" \notin habits
  BY DEF Honest
<1>2. ~Offers(0, RC4) /\ ~Offers(0, PLAINTEXT) /\ Offers(3, RC4)
  BY DEF Offers, RC4, PLAINTEXT
<1> QED BY <1>1, <1>2 DEF MayChoose

LEMMA ScanAKept == ASSUME Bounded, Typed, Kept, ScanA PROVE Kept'
<1> SUFFICES ASSUME Honest PROVE WiresKept' /\ KeptA' /\ KeptB'
  BY DEF ScanA, Kept, Honest
<1>2. WiresKept'
  BY TailKept DEF ScanA, TakeA, Typed, Wires, Kept, WiresKept
<1>6. AllowsPlaintext(policy["a"]) => policy["a"] # "require"
  BY DEF AllowsPlaintext
<1>3. KeptA'
  BY <1>6, ScanAIs, Numbers DEF ScanA, AIs, TakeA, GaveUp, Typed, Counts, Kept, KeptA
<1>4. KeptB'
  BY DEF ScanA, Kept, KeptB
<1> QED BY <1>2, <1>3, <1>4

LEMMA ReadChosenKept == ASSUME Bounded, Typed, Kept, ReadChosen PROVE Kept'
<1> SUFFICES ASSUME Honest PROVE WiresKept' /\ KeptA' /\ KeptB'
  BY DEF ReadChosen, Kept, Honest
<1>2. WiresKept'
  BY TailKept DEF ReadChosen, TakeA, Typed, Wires, Kept, WiresKept
<1>5. a.recv = 1 /\ Read(Head(ba), "B", a.recv).x \in {0, RC4}
  BY HeadKept DEF ReadChosen, TakeA, Kept, KeptA, WiresKept, Typed, Wires
<1>3. KeptA'
  BY <1>5, ReadChosenIs, Numbers
  DEF ReadChosen, AIs, TakeA, Typed, Counts, Kept, KeptA, RC4, PLAINTEXT
<1>4. KeptB'
  BY DEF ReadChosen, Kept, KeptB
<1> QED BY <1>2, <1>3, <1>4

LEMMA ReadLenAKept == ASSUME Bounded, Typed, Kept, ReadLenA PROVE Kept'
<1> SUFFICES ASSUME Honest PROVE WiresKept' /\ KeptA' /\ KeptB'
  BY DEF ReadLenA, Kept, Honest
<1>2. WiresKept'
  BY TailKept DEF ReadLenA, TakeA, Typed, Wires, Kept, WiresKept
<1>6. AllowsPlaintext(policy["a"]) => policy["a"] # "require"
  BY DEF AllowsPlaintext
<1>3. KeptA'
  BY <1>6, ReadLenAIs, Numbers DEF ReadLenA, AIs, TakeA, GaveUp, Typed, Counts, Kept, KeptA
<1>4. KeptB'
  BY DEF ReadLenA, Kept, KeptB
<1> QED BY <1>2, <1>3, <1>4

LEMMA ReadPadAKept == ASSUME Bounded, Typed, Kept, ReadPadA PROVE Kept'
<1> SUFFICES ASSUME Honest PROVE WiresKept' /\ KeptA' /\ KeptB'
  BY DEF ReadPadA, Kept, Honest
<1>2. WiresKept'
  BY TailKept DEF ReadPadA, TakeA, Typed, Wires, Kept, WiresKept
<1>3. KeptA'
  BY ReadPadAIs, Numbers DEF ReadPadA, AIs, TakeA, Typed, Counts, Kept, KeptA
<1>4. KeptB'
  BY DEF ReadPadA, Kept, KeptB
<1> QED BY <1>2, <1>3, <1>4

LEMMA HearAKept == ASSUME Bounded, Typed, Kept, HearA PROVE Kept'
<1> SUFFICES ASSUME Honest PROVE WiresKept' /\ KeptA' /\ KeptB'
  BY DEF HearA, Kept, Honest
<1>2. WiresKept'
  BY TailKept DEF HearA, TakeA, Typed, Wires, Kept, WiresKept
<1>3. KeptA'
  BY HearAIs, Numbers DEF HearA, AIs, TakeA, Typed, Counts, Kept, KeptA
<1>4. KeptB'
  BY DEF HearA, Kept, KeptB
<1> QED BY <1>2, <1>3, <1>4

LEMMA ScanBKept == ASSUME Bounded, Typed, Kept, ScanB PROVE Kept'
<1> SUFFICES ASSUME Honest PROVE WiresKept' /\ KeptA' /\ KeptB'
  BY DEF ScanB, Kept, Honest
<1>2. WiresKept'
  BY TailKept DEF ScanB, TakeB, Typed, Wires, Kept, WiresKept
<1>3. KeptA'
  BY DEF ScanB, Kept, KeptA
<1>4. KeptB'
  BY ScanBIs, Numbers DEF ScanB, BIs, TakeB, Closed, Typed, Counts, Kept, KeptB
<1> QED BY <1>2, <1>3, <1>4

LEMMA ReadNamedKept == ASSUME Bounded, Typed, Kept, ReadNamed PROVE Kept'
<1> SUFFICES ASSUME Honest PROVE WiresKept' /\ KeptA' /\ KeptB'
  BY DEF ReadNamed, Kept, Honest
<1>2. WiresKept'
  BY TailKept DEF ReadNamed, TakeB, Typed, Wires, Kept, WiresKept
<1>3. KeptA'
  BY DEF ReadNamed, Kept, KeptA
<1>4. KeptB'
  BY ReadNamedIs, Numbers DEF ReadNamed, BIs, TakeB, Closed, Typed, Counts, Kept, KeptB
<1> QED BY <1>2, <1>3, <1>4

LEMMA ReadVCKept == ASSUME Bounded, Typed, Kept, ReadVC PROVE Kept'
<1> SUFFICES ASSUME Honest PROVE WiresKept' /\ KeptA' /\ KeptB'
  BY DEF ReadVC, Kept, Honest
<1>2. WiresKept'
  BY TailKept DEF ReadVC, TakeB, Typed, Wires, Kept, WiresKept
<1>3. KeptA'
  BY DEF ReadVC, Kept, KeptA
<1>4. KeptB'
  BY ReadVCIs, Numbers DEF ReadVC, BIs, TakeB, Closed, Typed, Counts, Kept, KeptB
<1> QED BY <1>2, <1>3, <1>4

LEMMA ReadOfferedKept == ASSUME Bounded, Typed, Kept, ReadOffered PROVE Kept'
<1> SUFFICES ASSUME Honest PROVE WiresKept' /\ KeptA' /\ KeptB'
  BY DEF ReadOffered, Kept, Honest
<1>2. WiresKept'
  BY TailKept DEF ReadOffered, TakeB, Typed, Wires, Kept, WiresKept
<1>5. b.recv = 1 /\ Read(Head(ab), "A", b.recv).x \in {0, 3}
  BY HeadKept DEF ReadOffered, TakeB, Kept, KeptB, WiresKept, Typed, Wires
<1>3. KeptA'
  BY DEF ReadOffered, Kept, KeptA
<1>4. KeptB'
  BY <1>5, ReadOfferedIs, Numbers DEF ReadOffered, BIs, TakeB, Typed, Counts, Kept, KeptB
<1> QED BY <1>2, <1>3, <1>4

LEMMA ReadLenBKept == ASSUME Bounded, Typed, Kept, ReadLenB PROVE Kept'
<1> SUFFICES ASSUME Honest PROVE WiresKept' /\ KeptA' /\ KeptB'
  BY DEF ReadLenB, Kept, Honest
<1>2. WiresKept'
  BY TailKept DEF ReadLenB, TakeB, Typed, Wires, Kept, WiresKept
<1>3. KeptA'
  BY DEF ReadLenB, Kept, KeptA
<1>4. KeptB'
  BY ReadLenBIs, Numbers DEF ReadLenB, BIs, TakeB, Closed, Typed, Counts, Kept, KeptB
<1> QED BY <1>2, <1>3, <1>4

LEMMA ReadPadBKept == ASSUME Bounded, Typed, Kept, ReadPadB PROVE Kept'
<1> SUFFICES ASSUME Honest PROVE WiresKept' /\ KeptA' /\ KeptB'
  BY DEF ReadPadB, Kept, Honest
<1>2. WiresKept'
  BY TailKept DEF ReadPadB, TakeB, Typed, Wires, Kept, WiresKept
<1>3. KeptA'
  BY DEF ReadPadB, Kept, KeptA
<1>4. KeptB'
  BY ReadPadBIs, Numbers DEF ReadPadB, BIs, TakeB, Typed, Counts, Kept, KeptB
<1> QED BY <1>2, <1>3, <1>4

LEMMA HearBKept == ASSUME Bounded, Typed, Kept, HearB PROVE Kept'
<1> SUFFICES ASSUME Honest PROVE WiresKept' /\ KeptA' /\ KeptB'
  BY DEF HearB, Kept, Honest
<1>2. WiresKept'
  BY TailKept DEF HearB, TakeB, Typed, Wires, Kept, WiresKept
<1>3. KeptA'
  BY DEF HearB, Kept, KeptA
<1>4. KeptB'
  BY HearBIs, Numbers DEF HearB, BIs, TakeB, Typed, Counts, Kept, KeptB
<1> QED BY <1>2, <1>3, <1>4

LEMMA SettleAKept == ASSUME Bounded, Typed, Kept, SettleA PROVE Kept'
<1> SUFFICES ASSUME Honest PROVE WiresKept' /\ KeptA' /\ KeptB'
  BY DEF SettleA, Kept, Honest
<1>2. WiresKept'
  BY DEF SettleA, Kept, WiresKept
<1>6. AllowsPlaintext(policy["a"]) => policy["a"] # "require"
  BY DEF AllowsPlaintext
<1>3. KeptA'
  <2>1. CASE /\ a.chosen \in {RC4, PLAINTEXT}
             /\ AIs("up", a.encrypting, a.send, a.recv, a.left, a.chosen, a.chosen = RC4,
                    a.said)
    <3>1. a.chosen = RC4 /\ a.send >= 4
      BY <2>1 DEF SettleA, Typed, Counts, Kept, KeptA, RC4, PLAINTEXT
    <3>2. a'.on /\ a'.send >= 4 /\ a'.pc = "up" /\ a'.encrypting = a.encrypting
      BY <2>1, <3>1 DEF AIs
    <3> QED BY <3>2 DEF SettleA, Kept, KeptA
  <2>2. CASE GaveUp
    BY <1>6, <2>2, Numbers DEF SettleA, AIs, GaveUp, Typed, Counts, Kept, KeptA
  <2> QED BY <2>1, <2>2, SettleAIs
<1>4. KeptB'
  BY DEF SettleA, Kept, KeptB
<1> QED BY <1>2, <1>3, <1>4

LEMMA EndedAKept == ASSUME Bounded, Typed, Kept, EndedA PROVE Kept'
<1> SUFFICES ASSUME Honest PROVE WiresKept' /\ KeptA' /\ KeptB'
  BY DEF EndedA, Kept, Honest
<1>1. GaveUp
  BY GivesUpIs DEF EndedA
<1>2. WiresKept'
  BY DEF EndedA, Kept, WiresKept
<1>6. AllowsPlaintext(policy["a"]) => policy["a"] # "require"
  BY DEF AllowsPlaintext
<1>3. KeptA'
  BY <1>6, <1>1, Numbers DEF EndedA, AIs, GaveUp, Typed, Counts, Kept, KeptA
<1>4. KeptB'
  BY DEF EndedA, Kept, KeptB
<1> QED BY <1>2, <1>3, <1>4

LEMMA EndedBKept == ASSUME Bounded, Typed, Kept, EndedB PROVE Kept'
<1> SUFFICES ASSUME Honest PROVE WiresKept' /\ KeptA' /\ KeptB'
  BY DEF EndedB, Kept, Honest
<1>1. Closed
  BY CloseIs DEF EndedB
<1>2. WiresKept'
  BY DEF EndedB, Kept, WiresKept
<1>3. KeptA'
  BY DEF EndedB, Kept, KeptA
<1>4. KeptB'
  BY <1>1, Numbers DEF EndedB, BIs, Closed, Typed, Counts, Kept, KeptB
<1> QED BY <1>2, <1>3, <1>4

LEMMA ChooseKept == ASSUME Bounded, Typed, Kept, Choose PROVE Kept'
<1> SUFFICES ASSUME Honest PROVE WiresKept' /\ KeptA' /\ KeptB'
  BY DEF Choose, Kept, Honest
<1>2. WiresKept'
  BY DEF Choose, Kept, WiresKept
<1>5. MayChoose \subseteq {RC4}
  BY Honestly DEF Choose, Kept, KeptB
<1>3. KeptA'
  BY DEF Choose, Kept, KeptA
<1>4. KeptB'
  BY <1>5, ChooseIs, Numbers DEF Choose, BIs, Closed, Typed, Counts, Kept, KeptB
<1> QED BY <1>2, <1>3, <1>4

LEMMA HangUpKept == ASSUME Kept, HangUp PROVE Kept'
BY DEF HangUp, Kept, Honest, WiresKept, KeptA, KeptB

LEMMA InitKept == ASSUME ShakeInit PROVE Kept
<1>1. WiresKept
  BY DEF ShakeInit, WiresKept, Carries
<1>2. KeptB
  BY DEF ShakeInit, KeptB, Waiting
<1>3. KeptA
  BY DEF ShakeInit, KeptA, Dialling, Outgoing
<1> QED BY <1>1, <1>2, <1>3 DEF Kept

LEMMA DialKept == ASSUME Bounded, Typed, Kept, Dial PROVE Kept'
<1> SUFFICES ASSUME Honest PROVE WiresKept' /\ KeptA' /\ KeptB'
  BY DEF Dial, Kept, Honest
<1>1. Carries(ba, "B", RC4)'
  BY DialIs DEF Carries
<1>2. Carries(ab, "A", 3)'
  <2>1. CASE a.encrypting
    BY <2>1, DialIs DEF Carries
  <2>2. CASE ~a.encrypting
    BY <2>2, DialIs DEF Carries, Clear
  <2> QED BY <2>1, <2>2
<1>3. KeptA'
  BY DialIs DEF Dial, AIs, Typed, Counts, Kept, KeptA
<1>4. KeptB'
  BY DialIs DEF BIs, KeptB
<1> QED BY <1>1, <1>2, <1>3, <1>4 DEF WiresKept

LEMMA ReadPublicKept == ASSUME Bounded, Typed, Kept, ReadPublic PROVE Kept'
<1> SUFFICES ASSUME Honest PROVE WiresKept' /\ KeptA' /\ KeptB'
  BY DEF ReadPublic, Kept, Honest
<1>1. PICK k \in 0 .. MaxPad, o \in 0 .. 3, c \in Values, w \in Seq(Marks), s \in Seq(Marks) :
        /\ "offers" \notin habits => o = 3
        /\ c \in {k, MaxPad + 1}
        /\ ab' = (ab \o w) \o s
        /\ Len(w) = 2 /\ w[1] = Clear("req1", 0) /\ w[2].key = "none" /\ w[2].t = "req2^req3"
        /\ IsSaying(s, o, k, c)
        /\ AIs("scan", a.encrypting, k + 4, a.recv, MaxPad + 1, a.chosen, a.on, a.said)
  BY ReadPublicIs
<1>2. s \in Seq(Marks) /\ Carries(s, "A", 3)
  <2>1. o = 3 /\ k \in Nat
    BY <1>1 DEF Honest, Bounded
  <2>2. s \in Seq(Marks) /\ Len(s) = k + 4
    BY <1>1 DEF IsSaying
  <2>3. ASSUME NEW i \in 1 .. k + 4, s[i].at = 1 PROVE s[i].x = 3
    <3>1. s[i].at = i - 1 /\ (i = 2 => s[i].x = o)
      BY <1>1 DEF IsSaying
    <3>2. i = 2
      BY <2>1, <2>3, <3>1
    <3> QED BY <2>1, <3>1, <3>2
  <2> QED BY <2>2, <2>3 DEF Carries
<1>3. Carries(w, "A", 3)
  BY <1>1 DEF Carries, Clear
<1>4. Carries(ab, "A", 3)'
  <2>1. ab \in Seq(Marks) /\ Carries(ab, "A", 3)
    BY DEF Typed, Wires, Kept, WiresKept
  <2>2. (ab \o w) \in Seq(Marks)
    BY <2>1, ConcatProperties
  <2>3. Carries((ab \o w) \o s, "A", 3)
    BY <1>2, <1>3, <2>1, <2>2, JoinKept
  <2> QED BY <1>1, <2>3 DEF Carries
<1>5. Carries(ba, "B", RC4)'
  <2>1. Carries(Tail(ba), "B", RC4)
    BY TailKept DEF ReadPublic, TakeA, Typed, Wires, Kept, WiresKept
  <2> QED BY <2>1 DEF ReadPublic, TakeA, Carries
<1>6. KeptA'
  <2>1. k + 4 >= 4
    BY DEF Bounded
  <2> QED BY <1>1, <2>1 DEF ReadPublic, AIs, Kept, KeptA
<1>7. KeptB'
  BY DEF ReadPublic, Kept, KeptB
<1> QED BY <1>4, <1>5, <1>6, <1>7 DEF WiresKept

LEMMA FirstKept == ASSUME Bounded, Typed, Kept, First PROVE Kept'
<1> SUFFICES ASSUME Honest PROVE WiresKept' /\ KeptA' /\ KeptB'
  BY DEF First, Kept, Honest
<1>1. Carries(ab, "A", 3)'
  <2>1. Carries(Tail(ab), "A", 3)
    BY TailKept DEF First, TakeB, Typed, Wires, Kept, WiresKept
  <2> QED BY <2>1 DEF First, TakeB, Carries
<1>2. Carries(ba, "B", RC4)'
  BY FirstIs DEF Kept, WiresKept, Carries
<1>3. KeptA'
  BY DEF First, Kept, KeptA
<1>4. KeptB'
  BY FirstIs, Numbers DEF First, TakeB, BIs, Closed, Kept, KeptB
<1> QED BY <1>1, <1>2, <1>3, <1>4 DEF WiresKept

LEMMA AnswerKept == ASSUME Bounded, Typed, Kept, Answer PROVE Kept'
<1> SUFFICES ASSUME Honest PROVE WiresKept' /\ KeptA' /\ KeptB'
  BY DEF Answer, Kept, Honest
<1>1. PICK k \in 0 .. MaxPad, c \in Values, s \in Seq(Marks) :
        /\ ba' = ba \o s
        /\ IsAnswer(s, b.chosen, k, c)
        /\ BIs("up", k + 3, b.recv + 1, b.left, b.offered, b.chosen, b.chosen = RC4, b.said)
  BY AnswerIs
<1>2. b.chosen = RC4
  BY DEF Answer, TakeB, Kept, KeptB
<1>3. s \in Seq(Marks) /\ Carries(s, "B", RC4)
  <2>1. s \in Seq(Marks) /\ Len(s) = k + 3 /\ k \in Nat
    BY <1>1 DEF IsAnswer, Bounded
  <2>2. ASSUME NEW i \in 1 .. k + 3, s[i].at = 1 PROVE s[i].x = RC4
    <3>1. s[i].at = i - 1 /\ (i = 2 => s[i].x = b.chosen)
      BY <1>1 DEF IsAnswer
    <3>2. i = 2
      BY <2>1, <2>2, <3>1
    <3> QED BY <1>2, <3>1, <3>2
  <2> QED BY <2>1, <2>2 DEF Carries
<1>4. Carries(ba, "B", RC4)'
  <2>1. Carries(ba \o s, "B", RC4)
    BY <1>3, JoinKept DEF Typed, Wires, Kept, WiresKept
  <2> QED BY <1>1, <2>1 DEF Carries
<1>5. Carries(ab, "A", 3)'
  <2>1. Carries(Tail(ab), "A", 3)
    BY TailKept DEF Answer, TakeB, Typed, Wires, Kept, WiresKept
  <2> QED BY <2>1 DEF Answer, TakeB, Carries
<1>6. KeptB'
  <2>1. k + 3 >= 3
    BY DEF Bounded
  <2> QED BY <1>1, <1>2, <2>1 DEF BIs, KeptB
<1>7. KeptA'
  BY DEF Answer, Kept, KeptA
<1> QED BY <1>4, <1>5, <1>6, <1>7 DEF WiresKept

LEMMA SayAKept == ASSUME Bounded, Typed, Kept, SayA PROVE Kept'
<1> SUFFICES ASSUME Honest PROVE WiresKept' /\ KeptA' /\ KeptB'
  BY DEF SayA, Kept, Honest
<1>1. Says(a, "A") \in Marks /\ (Says(a, "A").key = "A" => Says(a, "A").at # 1)
  <2>1. a.send \in Nat /\ (a.on => a.send # 1)
    BY Numbers DEF Kept, KeptA
  <2> QED BY <2>1, SaysAMark DEF SayA, Says, Sealed, Clear
<1>2. Carries(ab, "A", 3)'
  <2>1. Carries(Append(ab, Says(a, "A")), "A", 3)
    BY <1>1, MoreKept DEF Typed, Wires, Kept, WiresKept
  <2> QED BY <2>1 DEF SayA, Carries
<1>3. Carries(ba, "B", RC4)'
  BY DEF SayA, Kept, WiresKept, Carries
<1>4. KeptA'
  BY SayAIs, Numbers DEF SayA, AIs, Kept, KeptA
<1>5. KeptB'
  BY DEF SayA, Kept, KeptB
<1> QED BY <1>2, <1>3, <1>4, <1>5 DEF WiresKept

LEMMA SayBKept == ASSUME Bounded, Typed, Kept, SayB PROVE Kept'
<1> SUFFICES ASSUME Honest PROVE WiresKept' /\ KeptA' /\ KeptB'
  BY DEF SayB, Kept, Honest
<1>1. Says(b, "B") \in Marks /\ (Says(b, "B").key = "B" => Says(b, "B").at # 1)
  <2>1. b.send \in Nat /\ (b.on => b.send # 1)
    BY Numbers DEF Kept, KeptB
  <2> QED BY <2>1, SaysAMark DEF SayB, Says, Sealed, Clear
<1>2. Carries(ba, "B", RC4)'
  <2>1. Carries(Append(ba, Says(b, "B")), "B", RC4)
    BY <1>1, MoreKept DEF Typed, Wires, Kept, WiresKept
  <2> QED BY <2>1 DEF SayB, Carries
<1>3. Carries(ab, "A", 3)'
  BY DEF SayB, Kept, WiresKept, Carries
<1>4. KeptB'
  BY SayBIs, Numbers DEF SayB, BIs, Kept, KeptB
<1>5. KeptA'
  BY DEF SayB, Kept, KeptA
<1> QED BY <1>2, <1>3, <1>4, <1>5 DEF WiresKept

----------------------------------------------------------------------------
(* Every mark has its place, counted in the keystream of who enciphers:    *)
(* what came before lies at the places below nought, what is said after the *)
(* handshake past the padding.  `k` is the padding of that end, `f` the    *)
(* place of the mark that is read next; what is on the wire lies at `f` and *)
(* the places that follow, up to where its writer has got, and the reader  *)
(* deciphers at the place it reads from.                                   *)
Talking == a.pc \notin {"dial", "failed"}

(* A wire whose marks lie at `f` and the places after it.                  *)
Lies(w, f, S) == \A i \in 1 .. Len(w) : w[i] \in S[f + i - 1]

(* What is said last, and what may lie at a place of either keystream.     *)
Hello(key, j, on) == IF on THEN Sealed(key, j, "hello", 0) ELSE Clear("hello", 0)

IsA(m, j, k, on) ==
  /\ j < -2 => m.key = "none" /\ m.t \in {"Y", "Y13", "pad"}
  /\ j = -2 => m = Clear("req1", 0)
  /\ j = -1 => m.key = "none"
  /\ j \in 0 .. k + 3 => m.key = "A" /\ m.at = j
  /\ j = 2 => m.t = "len" /\ m.x \in {k, MaxPad + 1}
  /\ j = k + 3 => m.t = "greeting" /\ m.x = 0
  /\ j > k + 3 => m = Hello("A", j, on)

IsB(m, j, k, chosen, on) ==
  /\ j < 0 => m.key = "none"
  /\ j \in 0 .. k + 2 => m.key = "B" /\ m.at = j
  /\ j = 0 => m.t = "VC" /\ m.x = 0
  /\ j = 1 => m.x = chosen
  /\ j = 2 => m.t = "len" /\ m.x \in {k, MaxPad + 1}
  /\ j > k + 2 => m = Hello("B", j, on)

PlacesA(k, on)         == [j \in Int |-> {m \in Marks : IsA(m, j, k, on)}]
PlacesB(k, chosen, on) == [j \in Int |-> {m \in Marks : IsB(m, j, k, chosen, on)}]

(* How far the dialling end has written, how far the answering one has     *)
(* read.                                                                   *)
WriterA(k, e) ==
  /\ e \in {-2, k + 4, k + 5}
  /\ a.pc \in {"dial", "failed"} => e # k + 5
  /\ a.pc = "public" => e = -2
  /\ a.pc \in {"scan", "chosen", "len", "pad", "up"} =>
       e = a.send /\ e = k + (IF a.said THEN 5 ELSE 4)

ReaderB(k, f) ==
  /\ b.pc = "first" => b.recv = 0 /\ f <= -3
  /\ b.pc = "scan" => b.recv = 0 /\ f <= -2
  /\ b.pc = "named" => b.recv = 0 /\ f = -1
  /\ b.pc = "vc" => b.recv = 0 /\ f = 0
  /\ b.pc = "offered" => b.recv = 1 /\ f = 1
  /\ b.pc = "len" => b.recv = 2 /\ f = 2
  /\ b.pc = "pad" => b.recv = f /\ f + b.left = k + 3
  /\ b.pc = "payload" => b.recv = k + 3 /\ f = k + 3
  /\ b.pc = "up" => /\ b.recv = f
                    /\ \/ f = k + 4 /\ heardB = <<Part("greeting", 0)>>
                       \/ f = k + 5 /\ heardB = <<Part("greeting", 0), Part("hello", 0)>>

FromA(k, f) ==
  Lies(ab, f, PlacesA(k, a.on)) /\ WriterA(k, f + Len(ab)) /\ ReaderB(k, f)

(* And back.                                                               *)
WriterB(k, e) ==
  /\ b.pc # "up" => e = 0
  /\ b.pc = "up" => /\ e = b.send /\ e = k + (IF b.said THEN 4 ELSE 3)
                    /\ b.on = (b.chosen = RC4)

ReaderA(k, f) ==
  /\ a.pc \in {"public", "scan"} => a.recv = 0 /\ f <= 0
  /\ a.pc = "chosen" => a.recv = 1 /\ f = 1
  /\ a.pc = "len" => a.recv = 2 /\ f = 2
  /\ a.pc = "pad" => a.recv = f /\ f >= 3 /\ f + a.left = k + 3
  /\ a.pc = "up" => /\ a.recv = f
                    /\ \/ f = k + 3 /\ heardA = <<>>
                       \/ f = k + 4 /\ heardA = <<Part("hello", 0)>>
  /\ a.pc # "up" => heardA = <<>>
  /\ a.pc \in {"len", "pad", "up"} => a.chosen = b.chosen
  /\ a.pc = "up" => a.on = (a.chosen = RC4)

FromB(k, f) ==
  Lies(ba, f, PlacesB(k, b.chosen, b.on)) /\ WriterB(k, f + Len(ba)) /\ ReaderA(k, f)

(* Without ciphers there are two words one way and one the other.          *)
InPlain ==
  /\ ~a.on /\ ~b.on /\ a.pc = "up"
  /\ b.pc \in {"first", "up", "closed"}
  /\ b.pc = "first" => ab = IF a.said THEN <<Clear("greeting", 0), Clear("hello", 0)>>
                            ELSE <<Clear("greeting", 0)>>
  /\ b.pc = "up" =>
       \/ /\ heardB = <<Part("greeting", 0)>>
          /\ ab = IF a.said THEN <<Clear("hello", 0)>> ELSE <<>>
       \/ heardB = <<Part("greeting", 0), Part("hello", 0)>> /\ ab = <<>> /\ a.said
  /\ b.pc # "up" => ~b.said
  /\ \/ heardA = <<>> /\ ba = IF b.said THEN <<Clear("hello", 0)>> ELSE <<>>
     \/ heardA = <<Part("hello", 0)>> /\ ba = <<>> /\ b.said

(* The ends are in step: each way while somebody reads there.              *)
InStepA ==
  (a.encrypting \/ a.pc = "dial") /\ b.pc # "closed" =>
    \E k \in 0 .. MaxPad, f \in Int : FromA(k, f)
InStepB == a.encrypting /\ Talking => \E k \in 0 .. MaxPad, f \in Int : FromB(k, f)
Plain == ~a.encrypting /\ a.pc # "dial" => InPlain

(* Marks come and go; the others keep their places.                        *)
LEMMA LiesTail ==
  ASSUME NEW w \in Seq(Marks), w # <<>>, NEW f \in Int, NEW S, Lies(w, f, S)
  PROVE  /\ Lies(Tail(w), f + 1, S)
         /\ Len(w) \in Nat /\ Len(w) >= 1
         /\ (f + 1) + Len(Tail(w)) = f + Len(w)
         /\ Head(w) \in S[f] /\ Head(w) \in Marks
<1>1. /\ Len(Tail(w)) = Len(w) - 1 /\ Len(w) >= 1 /\ Len(w) \in Nat
      /\ Head(w) = w[1] /\ Head(w) \in Marks
      /\ \A i \in 1 .. Len(Tail(w)) : Tail(w)[i] = w[i + 1]
  BY Taken, LenProperties
<1>2. ASSUME NEW i \in 1 .. Len(Tail(w))
      PROVE  Tail(w)[i] \in S[(f + 1) + i - 1]
  <2>1. i + 1 \in 1 .. Len(w) /\ f + (i + 1) - 1 = (f + 1) + i - 1
    BY <1>1
  <2>2. w[i + 1] \in S[f + (i + 1) - 1]
    BY <2>1 DEF Lies
  <2> QED BY <1>1, <2>1, <2>2
<1>3. w[1] \in S[f]
  <2>1. 1 \in 1 .. Len(w) /\ f + 1 - 1 = f
    BY <1>1
  <2> QED BY <2>1 DEF Lies
<1> QED BY <1>1, <1>2, <1>3 DEF Lies

LEMMA LiesMore ==
  ASSUME NEW w \in Seq(Marks), NEW m \in Marks, NEW f \in Int, NEW S, Lies(w, f, S),
         m \in S[f + Len(w)]
  PROVE  Lies(Append(w, m), f, S) /\ Len(Append(w, m)) = Len(w) + 1
<1>1. ASSUME NEW i \in 1 .. Len(w) + 1
      PROVE  Append(w, m)[i] \in S[f + i - 1]
  <2>1. CASE i \in 1 .. Len(w)
    BY <2>1, Appended DEF Lies
  <2>2. CASE i = Len(w) + 1
    <3>1. f + i - 1 = f + Len(w)
      BY <2>2, LenProperties
    <3> QED BY <2>2, <3>1, Appended
  <2> QED BY <2>1, <2>2, LenProperties
<1> QED BY <1>1, Appended DEF Lies

LEMMA LiesJoin ==
  ASSUME NEW w \in Seq(Marks), NEW v \in Seq(Marks), NEW f \in Int, NEW S,
         Lies(w, f, S), Lies(v, f + Len(w), S)
  PROVE  Lies(w \o v, f, S) /\ Len(w \o v) = Len(w) + Len(v) /\ w \o v \in Seq(Marks)
<1>1. Len(w) \in Nat /\ Len(v) \in Nat /\ Len(w \o v) = Len(w) + Len(v) /\ w \o v \in Seq(Marks)
  BY ConcatProperties, LenProperties
<1>2. ASSUME NEW i \in 1 .. Len(w \o v)
      PROVE  (w \o v)[i] \in S[f + i - 1]
  <2>1. CASE i <= Len(w)
    <3>1. i \in 1 .. Len(w) /\ (w \o v)[i] = w[i]
      BY <1>1, <2>1, ConcatProperties
    <3> QED BY <3>1 DEF Lies
  <2>2. CASE i > Len(w)
    <3>1. i - Len(w) \in 1 .. Len(v) /\ (w \o v)[i] = v[i - Len(w)]
      BY <1>1, <2>2, ConcatProperties
    <3>2. (f + Len(w)) + (i - Len(w)) - 1 = f + i - 1
      BY <1>1
    <3>3. v[i - Len(w)] \in S[(f + Len(w)) + (i - Len(w)) - 1]
      BY <3>1 DEF Lies
    <3> QED BY <3>1, <3>2, <3>3
  <2> QED BY <1>1, <2>1, <2>2
<1> QED BY <1>1, <1>2 DEF Lies

LEMMA LiesSame ==
  ASSUME NEW w \in Seq(Marks), NEW f \in Int, NEW S, NEW T, Lies(w, f, S),
         \A j \in Int : j < f + Len(w) => S[j] \subseteq T[j]
  PROVE  Lies(w, f, T)
<1> SUFFICES ASSUME NEW i \in 1 .. Len(w)
             PROVE  w[i] \in T[f + i - 1]
  BY DEF Lies
<1>1. f + i - 1 \in Int /\ f + i - 1 < f + Len(w)
  BY LenProperties
<1>2. w[i] \in S[f + i - 1]
  BY DEF Lies
<1> QED BY <1>1, <1>2

(* What may lie at one place.                                              *)
LEMMA AtA ==
  ASSUME NEW k, NEW on, NEW j \in Int
  PROVE  PlacesA(k, on)[j] = {m \in Marks : IsA(m, j, k, on)}
BY DEF PlacesA

LEMMA AtB ==
  ASSUME NEW k, NEW chosen, NEW on, NEW j \in Int
  PROVE  PlacesB(k, chosen, on)[j] = {m \in Marks : IsB(m, j, k, chosen, on)}
BY DEF PlacesB

(* Before the greeting nothing depends on whether the ciphers are kept;    *)
(* before the ciphers, nothing on the padding.                             *)
LEMMA EarlyA ==
  ASSUME NEW k \in Nat, NEW l \in Nat, NEW on \in BOOLEAN, NEW up \in BOOLEAN, NEW j \in Int,
         \/ j < 0
         \/ j < k + 4 /\ l = k
  PROVE  PlacesA(k, on)[j] \subseteq PlacesA(l, up)[j]
<1> SUFFICES ASSUME NEW m \in Marks, IsA(m, j, k, on)
             PROVE  IsA(m, j, l, up)
  BY AtA
<1>1. CASE j < 0
  BY <1>1 DEF IsA
<1>2. CASE j < k + 4 /\ l = k
  BY <1>2 DEF IsA
<1> QED BY <1>1, <1>2

LEMMA EarlyB ==
  ASSUME NEW k \in Nat, NEW l \in Nat, NEW c, NEW d, NEW on \in BOOLEAN, NEW up \in BOOLEAN,
         NEW j \in Int, j < 0
  PROVE  PlacesB(k, c, on)[j] \subseteq PlacesB(l, d, up)[j]
<1> SUFFICES ASSUME NEW m \in Marks, IsB(m, j, k, c, on)
             PROVE  IsB(m, j, l, d, up)
  BY AtB
<1> QED BY DEF IsB

----------------------------------------------------------------------------
(* The way from the dialling end.  Three kinds of steps: the other end reads *)
(* a mark, it moves without reading, the dialling end moves without        *)
(* writing.                                                                *)
LEMMA Read1A ==
  ASSUME Bounded, Typed, InStepA, ab # <<>>, ab' = Tail(ab), a' = a, b.pc # "closed",
         \A k \in 0 .. MaxPad, f \in Int : FromA(k, f) => ReaderB(k, f + 1)' \/ b'.pc = "closed"
  PROVE  InStepA'
<1> SUFFICES ASSUME a.encrypting \/ a.pc = "dial", b'.pc # "closed"
             PROVE  \E k \in 0 .. MaxPad, f \in Int : FromA(k, f)'
  BY DEF InStepA
<1>1. PICK k \in 0 .. MaxPad, f \in Int : FromA(k, f)
  BY DEF InStepA
<1>2. /\ Lies(Tail(ab), f + 1, PlacesA(k, a.on))
      /\ (f + 1) + Len(Tail(ab)) = f + Len(ab)
  BY <1>1, LiesTail DEF FromA, Typed, Wires
<1>3. Lies(ab, f + 1, PlacesA(k, a.on))'
  BY <1>2 DEF Lies
<1>4. WriterA(k, (f + 1) + Len(ab))'
  <2>1. WriterA(k, (f + 1) + Len(ab'))
    BY <1>1, <1>2 DEF FromA
  <2> QED BY <2>1 DEF WriterA
<1>5. ReaderB(k, f + 1)'
  BY <1>1
<1>6. FromA(k, f + 1)'
  BY <1>3, <1>4, <1>5 DEF FromA
<1>7. f + 1 \in Int
  OBVIOUS
<1> QED BY <1>6, <1>7

LEMMA Read0A ==
  ASSUME Bounded, Typed, InStepA, ab' = ab, a' = a, b.pc # "closed",
         \A k \in 0 .. MaxPad, f \in Int : FromA(k, f) => ReaderB(k, f)' \/ b'.pc = "closed"
  PROVE  InStepA'
<1> SUFFICES ASSUME a.encrypting \/ a.pc = "dial", b'.pc # "closed"
             PROVE  \E k \in 0 .. MaxPad, f \in Int : FromA(k, f)'
  BY DEF InStepA
<1>1. PICK k \in 0 .. MaxPad, f \in Int : FromA(k, f)
  BY DEF InStepA
<1>2. Lies(ab, f, PlacesA(k, a.on))' /\ WriterA(k, f + Len(ab))'
  BY <1>1 DEF FromA, Lies, WriterA
<1>3. ReaderB(k, f)'
  BY <1>1
<1>4. FromA(k, f)'
  BY <1>2, <1>3 DEF FromA
<1> QED BY <1>4

LEMMA Write0A ==
  ASSUME Bounded, Typed, Typed', InStepA, ab' = ab, b' = b, heardB' = heardB,
         a'.encrypting \/ a'.pc = "dial" => a.encrypting \/ a.pc = "dial",
         \A k \in 0 .. MaxPad, e \in Int :
           WriterA(k, e) => WriterA(k, e)' /\ (a'.on = a.on \/ e <= k + 4)
  PROVE  InStepA'
<1> SUFFICES ASSUME a.encrypting \/ a.pc = "dial", b.pc # "closed"
             PROVE  \E k \in 0 .. MaxPad, f \in Int : FromA(k, f)'
  BY DEF InStepA
<1>1. PICK k \in 0 .. MaxPad, f \in Int : FromA(k, f)
  BY DEF InStepA
<1>2. /\ f + Len(ab) \in Int /\ k \in Nat /\ ab \in Seq(Marks)
      /\ a.on \in BOOLEAN /\ a'.on \in BOOLEAN
  <2>1. ab \in Seq(Marks) /\ a.on \in BOOLEAN /\ a'.on \in BOOLEAN
    BY DEF Typed, Wires, Fields, RecA
  <2>2. Len(ab) \in Nat
    BY <2>1, LenProperties
  <2> QED BY <2>1, <2>2 DEF Bounded
<1>3. WriterA(k, f + Len(ab))' /\ (a'.on = a.on \/ f + Len(ab) <= k + 4)
  <2>1. WriterA(k, f + Len(ab))
    BY <1>1 DEF FromA
  <2> QED BY <1>2, <2>1
<1>4. Lies(ab, f, PlacesA(k, a'.on))
  <2>1. Lies(ab, f, PlacesA(k, a.on))
    BY <1>1 DEF FromA
  <2>2. CASE a'.on = a.on
    BY <2>1, <2>2
  <2>3. CASE f + Len(ab) <= k + 4
    <3>1. \A j \in Int : j < f + Len(ab) => j < k + 4
      BY <1>2, <2>3
    <3>2. \A j \in Int : j < f + Len(ab) => PlacesA(k, a.on)[j] \subseteq PlacesA(k, a'.on)[j]
      BY <1>2, <3>1, EarlyA
    <3> QED BY <1>2, <2>1, <3>2, LiesSame
  <2> QED BY <1>3, <2>2, <2>3
<1>5. Lies(ab, f, PlacesA(k, a.on))' /\ ReaderB(k, f)'
  BY <1>1, <1>4 DEF Lies, FromA, ReaderB
<1>6. FromA(k, f)'
  BY <1>3, <1>5 DEF FromA
<1> QED BY <1>6

(* The dialling end has said all it had to say in the handshake.           *)
Past == {"scan", "chosen", "len", "pad", "up"}

LEMMA SamePlaceA ==
  ASSUME Bounded, Typed, Typed', InStepA, a.pc \in Past, a'.pc \in Past,
         a'.encrypting = a.encrypting, a'.send = a.send, a'.said = a.said,
         a'.on = a.on \/ ~a.said, ab' = ab, b' = b, heardB' = heardB
  PROVE  InStepA'
<1>1. a'.encrypting \/ a'.pc = "dial" => a.encrypting \/ a.pc = "dial"
  BY DEF Past
<1>2. ASSUME NEW k \in 0 .. MaxPad, NEW e \in Int, WriterA(k, e)
      PROVE  WriterA(k, e)' /\ (a'.on = a.on \/ e <= k + 4)
  <2>1. WriterA(k, e)'
    BY <1>2 DEF WriterA, Past
  <2>2. ~a.said => e = k + 4
    BY <1>2 DEF WriterA, Past
  <2> QED BY <2>1, <2>2
<1> QED BY <1>1, <1>2, Write0A

LEMMA GaveUpA ==
  ASSUME Bounded, Typed, Typed', InStepA, a.pc \in {"public", "scan", "chosen", "len", "pad"},
         GaveUp, ab' = ab, b' = b, heardB' = heardB
  PROVE  InStepA'
<1>1. a'.encrypting \/ a'.pc = "dial" => a.encrypting \/ a.pc = "dial"
  BY DEF GaveUp, AIs
<1>2. a'.pc \in {"dial", "failed"}
  BY DEF GaveUp, AIs
<1>3. ASSUME NEW k \in 0 .. MaxPad, NEW e \in Int, WriterA(k, e)
      PROVE  WriterA(k, e)' /\ e <= k + 4
  <2>1. ~a.said
    BY DEF Typed, Counts
  <2>2. e = -2 \/ e = k + 4
    BY <1>3, <2>1 DEF WriterA
  <2>3. k \in Nat
    BY DEF Bounded
  <2>4. e <= k + 4 /\ e # k + 5 /\ e \in {-2, k + 4, k + 5}
    BY <2>2, <2>3
  <2> QED BY <1>2, <2>4 DEF WriterA
<1> QED BY <1>1, <1>3, Write0A

LEMMA ScanAInA == ASSUME Bounded, Typed, Typed', InStepA, ScanA PROVE InStepA'
<1>1. CASE GaveUp
  BY <1>1, GaveUpA DEF ScanA, TakeA
<1>2. CASE ~GaveUp
  BY <1>2, ScanAIs, SamePlaceA DEF ScanA, TakeA, AIs, Past
<1> QED BY <1>1, <1>2

LEMMA ReadChosenInA == ASSUME Bounded, Typed, Typed', InStepA, ReadChosen PROVE InStepA'
BY ReadChosenIs, SamePlaceA DEF ReadChosen, TakeA, AIs, Past

LEMMA ReadLenAInA == ASSUME Bounded, Typed, Typed', InStepA, ReadLenA PROVE InStepA'
<1>1. CASE GaveUp
  BY <1>1, GaveUpA DEF ReadLenA, TakeA
<1>2. CASE ~GaveUp
  BY <1>2, ReadLenAIs, SamePlaceA DEF ReadLenA, TakeA, AIs, Past
<1> QED BY <1>1, <1>2

LEMMA ReadPadAInA == ASSUME Bounded, Typed, Typed', InStepA, ReadPadA PROVE InStepA'
BY ReadPadAIs, SamePlaceA DEF ReadPadA, TakeA, AIs, Past

LEMMA SettleAInA == ASSUME Bounded, Typed, Typed', InStepA, SettleA PROVE InStepA'
<1>1. CASE GaveUp
  BY <1>1, GaveUpA DEF SettleA
<1>2. CASE ~GaveUp
  <2>1. ~a.said
    BY DEF SettleA, Typed, Counts
  <2> QED BY <1>2, <2>1, SettleAIs, SamePlaceA DEF SettleA, AIs, Past
<1> QED BY <1>1, <1>2

LEMMA EndedAInA == ASSUME Bounded, Typed, Typed', InStepA, EndedA PROVE InStepA'
BY GivesUpIs, GaveUpA DEF EndedA

LEMMA HearAInA == ASSUME Bounded, Typed, Typed', InStepA, HearA PROVE InStepA'
BY HearAIs, SamePlaceA DEF HearA, TakeA, AIs, Past

LEMMA DialInA == ASSUME Bounded, Typed, Dial PROVE InStepA'
<1> SUFFICES ASSUME a'.encrypting \/ a'.pc = "dial"
             PROVE  \E k \in 0 .. MaxPad, f \in Int : FromA(k, f)'
  BY DEF InStepA
<1>1. a.encrypting
  BY DialIs DEF AIs
<1>2. PICK y \in {"Y", "Y13"}, l \in 0 .. MaxPad :
        /\ Len(ab') = l + 1
        /\ \A i \in 1 .. Len(ab') :
             ab'[i].key = "none" /\ ab'[i].t \in {y, "pad"} /\ ab'[i].x = 0
  BY <1>1, DialIs
<1>3. ab' \in Seq(Marks) /\ l \in Nat /\ -2 - (l + 1) \in Int /\ -2 - (l + 1) <= -3
  BY DialIs DEF Bounded
<1>4. Lies(ab', -2 - (l + 1), PlacesA(l, a'.on))
  <2> SUFFICES ASSUME NEW i \in 1 .. Len(ab')
               PROVE  ab'[i] \in PlacesA(l, a'.on)[(-2 - (l + 1)) + i - 1]
    BY DEF Lies
  <2>1. (-2 - (l + 1)) + i - 1 \in Int /\ (-2 - (l + 1)) + i - 1 < -2
    BY <1>2, <1>3
  <2>2. ab'[i] \in Marks
    BY <1>3, ElementOfSeq
  <2>3. IsA(ab'[i], (-2 - (l + 1)) + i - 1, l, a'.on)
    BY <1>2, <1>3, <2>1 DEF IsA
  <2> QED BY <2>1, <2>2, <2>3, AtA
<1>5. (-2 - (l + 1)) + Len(ab') = -2
  BY <1>2, <1>3
<1>6. a'.pc = "public" /\ b'.pc = "first" /\ b'.recv = 0
  BY <1>1, DialIs DEF AIs, BIs
<1>7. WriterA(l, (-2 - (l + 1)) + Len(ab))' /\ ReaderB(l, -2 - (l + 1))'
  <2>1. -2 # l + 5
    BY <1>3
  <2> QED BY <1>3, <1>5, <1>6, <2>1 DEF WriterA, ReaderB
<1>8. FromA(l, -2 - (l + 1))'
  BY <1>4, <1>7 DEF FromA, Lies
<1> QED BY <1>3, <1>8

LEMMA ReadPublicInA == ASSUME Bounded, Typed, InStepA, ReadPublic PROVE InStepA'
<1> SUFFICES ASSUME a'.encrypting \/ a'.pc = "dial", b.pc # "closed"
             PROVE  \E k \in 0 .. MaxPad, f \in Int : FromA(k, f)'
  BY DEF InStepA, ReadPublic
<1>1. PICK l \in 0 .. MaxPad, o \in 0 .. 3, c \in Values, w \in Seq(Marks), s \in Seq(Marks) :
        /\ c \in {l, MaxPad + 1}
        /\ ab' = (ab \o w) \o s
        /\ Len(w) = 2 /\ w[1] = Clear("req1", 0) /\ w[2].key = "none"
        /\ IsSaying(s, o, l, c)
        /\ AIs("scan", a.encrypting, l + 4, a.recv, MaxPad + 1, a.chosen, a.on, a.said)
  BY ReadPublicIs
<1>2. a.encrypting
  BY <1>1 DEF AIs
<1>3. PICK k \in 0 .. MaxPad, f \in Int : FromA(k, f)
  BY <1>2 DEF InStepA, ReadPublic
<1>4. k \in Nat /\ l \in Nat /\ ab \in Seq(Marks) /\ Len(ab) \in Nat /\ a.on \in BOOLEAN
  <2>1. ab \in Seq(Marks) /\ a.on \in BOOLEAN
    BY DEF Typed, Wires, Fields, RecA
  <2> QED BY <2>1, LenProperties DEF Bounded
<1>5. f + Len(ab) = -2 /\ f <= -2
  <2>1. f + Len(ab) = -2
    BY <1>3 DEF FromA, WriterA, ReadPublic, TakeA
  <2> QED BY <1>4, <2>1
<1> DEFINE S == PlacesA(l, a.on)
<1>6. Lies(ab, f, S)
  <2>1. Lies(ab, f, PlacesA(k, a.on))
    BY <1>3 DEF FromA
  <2>2. \A j \in Int : j < f + Len(ab) => j < 0
    BY <1>5
  <2>3. \A j \in Int : j < f + Len(ab) => PlacesA(k, a.on)[j] \subseteq PlacesA(l, a.on)[j]
    BY <1>4, <2>2, EarlyA
  <2> QED BY <1>4, <2>1, <2>3, LiesSame
<1>7. Lies(w, -2, S)
  <2> SUFFICES ASSUME NEW i \in 1 .. Len(w)
               PROVE  w[i] \in S[-2 + i - 1]
    BY DEF Lies
  <2>1. i = 1 \/ i = 2
    BY <1>1
  <2>2. w[i] \in Marks
    BY ElementOfSeq
  <2>3. CASE i = 1
    <3>1. IsA(w[i], -2, l, a.on)
      BY <1>1, <1>4, <2>3 DEF IsA
    <3>2. -2 + i - 1 = -2
      BY <2>3
    <3> QED BY <2>2, <3>1, <3>2, AtA
  <2>4. CASE i = 2
    <3>1. IsA(w[i], -1, l, a.on)
      BY <1>1, <1>4, <2>4 DEF IsA
    <3>2. -2 + i - 1 = -1
      BY <2>4
    <3> QED BY <2>2, <3>1, <3>2, AtA
  <2> QED BY <2>1, <2>3, <2>4
<1>8. Lies(s, 0, S)
  <2> SUFFICES ASSUME NEW i \in 1 .. Len(s)
               PROVE  s[i] \in S[0 + i - 1]
    BY DEF Lies
  <2>1. i \in 1 .. l + 4
    BY <1>1 DEF IsSaying
  <2>2. s[i] \in Marks
    BY ElementOfSeq
  <2>3. IsA(s[i], i - 1, l, a.on)
    <3>1. /\ s[i].key = "A" /\ s[i].at = i - 1
          /\ i = 3 => s[i].t = "len" /\ s[i].x = c
          /\ i = l + 4 => s[i].t = "greeting" /\ s[i].x = 0
      BY <1>1, <2>1 DEF IsSaying
    <3>2. /\ i - 1 \in 0 .. l + 3 /\ (i - 1 = 2 => i = 3) /\ (i - 1 = l + 3 => i = l + 4)
      BY <1>4, <2>1
    <3> DEFINE j == i - 1
    <3>3. /\ j \in Int /\ j >= 0 /\ j <= l + 3
          /\ s[i].key = "A" /\ s[i].at = j
          /\ j = 2 => s[i].t = "len" /\ s[i].x \in {l, MaxPad + 1}
          /\ j = l + 3 => s[i].t = "greeting" /\ s[i].x = 0
      BY <1>1, <1>4, <3>1, <3>2
    <3> HIDE DEF j
    <3>4. IsA(s[i], j, l, a.on)
      BY <1>4, <3>3 DEF IsA
    <3> QED BY <3>4 DEF j
  <2>4. 0 + i - 1 = i - 1 /\ i - 1 \in Int
    BY <2>1
  <2> QED BY <2>2, <2>3, <2>4, AtA
<1> HIDE DEF S
<1>9. Lies(ab \o w, f, S) /\ Len(ab \o w) = Len(ab) + 2 /\ ab \o w \in Seq(Marks)
  BY <1>1, <1>4, <1>5, <1>6, <1>7, LiesJoin
<1>10. f + Len(ab \o w) = 0
  BY <1>4, <1>5, <1>9
<1>11. Lies((ab \o w) \o s, f, S) /\ Len((ab \o w) \o s) = Len(ab \o w) + Len(s)
  BY <1>8, <1>9, <1>10, LiesJoin
<1>12. Len(s) = l + 4
  BY <1>1 DEF IsSaying
<1>13. f + Len(ab') = l + 4
  <2>1. Len(ab') = Len(ab \o w) + (l + 4)
    BY <1>1, <1>11, <1>12
  <2>2. f \in Int /\ l \in Int /\ Len(ab \o w) \in Int
    BY <1>1, <1>4, <1>9
  <2> QED BY <1>10, <2>1, <2>2
<1>14. WriterA(l, f + Len(ab))'
  <2>1. ~a.said /\ a.pc = "public"
    BY DEF ReadPublic, TakeA, Typed, Counts
  <2>2. a'.pc = "scan" /\ a'.send = l + 4 /\ ~a'.said
    BY <1>1, <2>1 DEF AIs
  <2>3. l + 4 # l + 5
    BY <1>4
  <2> QED BY <1>13, <2>2, <2>3 DEF WriterA
<1>15. ReaderB(l, f)'
  <2>1. ReaderB(k, f) /\ f <= -2 /\ k \in Nat
    BY <1>3, <1>4, <1>5 DEF FromA
  <2>2. b.pc \in {"first", "scan"}
    <3>1. b \in RecB
      BY DEF Typed, Fields
    <3>2. b.recv \in Nat
      BY Numbers
    <3>3. ~(b.pc \in {"named", "vc", "offered", "len", "payload"})
      BY <2>1 DEF ReaderB
    <3>4. b.pc # "pad" /\ b.pc # "up"
      BY <2>1, <3>2 DEF ReaderB
    <3> QED BY <3>1, <3>3, <3>4 DEF RecB
  <2> QED BY <2>1, <2>2 DEF ReaderB, ReadPublic
<1>16. FromA(l, f)'
  <2>1. Lies(ab, f, PlacesA(l, a.on))'
    <3>1. a'.on = a.on
      BY <1>1 DEF AIs
    <3> QED BY <1>1, <1>11, <3>1 DEF S, Lies
  <2> QED BY <1>14, <1>15, <2>1 DEF FromA
<1> QED BY <1>16

LEMMA SayAInA == ASSUME Bounded, Typed, InStepA, SayA PROVE InStepA'
<1> SUFFICES ASSUME a'.encrypting \/ a'.pc = "dial", b.pc # "closed"
             PROVE  \E k \in 0 .. MaxPad, f \in Int : FromA(k, f)'
  BY DEF InStepA, SayA
<1>1. AIs("up", a.encrypting, a.send + 1, a.recv, a.left, a.chosen, a.on, TRUE)
  BY SayAIs
<1>2. PICK k \in 0 .. MaxPad, f \in Int : FromA(k, f)
  BY <1>1 DEF InStepA, SayA, AIs
<1>3. k \in Nat /\ ab \in Seq(Marks) /\ Len(ab) \in Nat
  BY LenProperties DEF Typed, Wires, Bounded
<1>4. f + Len(ab) = a.send /\ a.send = k + 4
  BY <1>2 DEF FromA, WriterA, SayA
<1>5. Says(a, "A") \in Marks /\ ab' = Append(ab, Says(a, "A"))
  BY SaysAMark DEF SayA
<1>6. Says(a, "A") \in PlacesA(k, a.on)[f + Len(ab)]
  <2>1. Says(a, "A") = Hello("A", a.send, a.on)
    BY DEF Says, Hello
  <2>2. IsA(Says(a, "A"), k + 4, k, a.on)
    BY <1>3, <1>4, <2>1 DEF IsA
  <2> QED BY <1>3, <1>4, <1>5, <2>2, AtA
<1>7. /\ Lies(Append(ab, Says(a, "A")), f, PlacesA(k, a.on))
      /\ Len(Append(ab, Says(a, "A"))) = Len(ab) + 1
  BY <1>2, <1>3, <1>5, <1>6, LiesMore DEF FromA
<1>8. WriterA(k, f + Len(ab))'
  <2>1. f + Len(ab') = k + 5 /\ a.send + 1 = k + 5
    BY <1>3, <1>4, <1>5, <1>7
  <2> QED BY <1>1, <2>1 DEF WriterA, AIs
<1>9. Lies(ab, f, PlacesA(k, a.on))' /\ ReaderB(k, f)'
  <2>1. a'.on = a.on
    BY <1>1 DEF AIs
  <2> QED BY <1>2, <1>5, <1>7, <2>1 DEF Lies, FromA, ReaderB, SayA
<1>10. FromA(k, f)'
  BY <1>8, <1>9 DEF FromA
<1> QED BY <1>10

(* What the answering end reads, and where.                                *)
LEMMA AheadA ==
  ASSUME Bounded, Typed, ab # <<>>, NEW k \in 0 .. MaxPad, NEW f \in Int, FromA(k, f)
  PROVE  /\ k \in Nat /\ Head(ab) \in Marks /\ IsA(Head(ab), f, k, a.on)
         /\ ReaderB(k, f) /\ WriterA(k, f + Len(ab)) /\ Len(ab) \in Nat /\ Len(ab) >= 1
<1>1. /\ Head(ab) \in PlacesA(k, a.on)[f] /\ Len(ab) \in Nat /\ Len(ab) >= 1
  BY LiesTail DEF FromA, Typed, Wires
<1> QED BY <1>1, AtA DEF FromA, Bounded

LEMMA FirstInA == ASSUME Bounded, Typed, InStepA, First PROVE InStepA'
<1>1. ASSUME NEW k \in 0 .. MaxPad, NEW f \in Int, FromA(k, f)
      PROVE  ReaderB(k, f + 1)' \/ b'.pc = "closed"
  <2>1. /\ IsA(Head(ab), f, k, a.on) /\ ReaderB(k, f)
    BY <1>1, AheadA DEF First, TakeB
  <2>2. f <= -3 /\ b.recv = 0 /\ f + 1 <= -2
    BY <2>1 DEF ReaderB, First, TakeB
  <2>3. Head(ab).t # "greeting"
    BY <2>1, <2>2 DEF IsA
  <2> QED BY <2>2, <2>3, FirstIs DEF BIs, Closed, ReaderB
<1> QED BY <1>1, Read1A DEF First, TakeB

LEMMA ScanBInA == ASSUME Bounded, Typed, InStepA, ScanB PROVE InStepA'
<1>1. ASSUME NEW k \in 0 .. MaxPad, NEW f \in Int, FromA(k, f)
      PROVE  ReaderB(k, f + 1)' \/ b'.pc = "closed"
  <2>1. /\ IsA(Head(ab), f, k, a.on) /\ ReaderB(k, f)
    BY <1>1, AheadA DEF ScanB, TakeB
  <2>2. f <= -2 /\ b.recv = 0
    BY <2>1 DEF ReaderB, ScanB, TakeB
  <2>3. CASE f = -2
    <3>1. Head(ab) = Clear("req1", 0) /\ f + 1 = -1
      BY <2>1, <2>3 DEF IsA
    <3> QED BY <2>2, <3>1, ScanBIs DEF BIs, Closed, ReaderB
  <2>4. CASE f < -2
    <3>1. Head(ab) # Clear("req1", 0) /\ f + 1 <= -2
      BY <2>1, <2>4 DEF IsA, Clear
    <3> QED BY <2>2, <3>1, ScanBIs DEF BIs, Closed, ReaderB
  <2> QED BY <2>2, <2>3, <2>4
<1> QED BY <1>1, Read1A DEF ScanB, TakeB

LEMMA ReadNamedInA == ASSUME Bounded, Typed, InStepA, ReadNamed PROVE InStepA'
<1>1. ASSUME NEW k \in 0 .. MaxPad, NEW f \in Int, FromA(k, f)
      PROVE  ReaderB(k, f + 1)' \/ b'.pc = "closed"
  <2>1. f = -1 /\ b.recv = 0 /\ f + 1 = 0
    BY <1>1 DEF FromA, ReaderB, ReadNamed, TakeB
  <2> QED BY <2>1, ReadNamedIs DEF BIs, Closed, ReaderB
<1> QED BY <1>1, Read1A DEF ReadNamed, TakeB

LEMMA ReadVCInA == ASSUME Bounded, Typed, InStepA, ReadVC PROVE InStepA'
<1>1. ASSUME NEW k \in 0 .. MaxPad, NEW f \in Int, FromA(k, f)
      PROVE  ReaderB(k, f + 1)' \/ b'.pc = "closed"
  <2>1. f = 0 /\ f + 1 = 1
    BY <1>1 DEF FromA, ReaderB, ReadVC, TakeB
  <2> QED BY <2>1, ReadVCIs DEF BIs, Closed, ReaderB
<1> QED BY <1>1, Read1A DEF ReadVC, TakeB

LEMMA ReadOfferedInA == ASSUME Bounded, Typed, InStepA, ReadOffered PROVE InStepA'
<1>1. ASSUME NEW k \in 0 .. MaxPad, NEW f \in Int, FromA(k, f)
      PROVE  ReaderB(k, f + 1)' \/ b'.pc = "closed"
  <2>1. f = 1 /\ b.recv = 1 /\ f + 1 = 2 /\ b.recv + 1 = 2
    BY <1>1 DEF FromA, ReaderB, ReadOffered, TakeB
  <2> QED BY <2>1, ReadOfferedIs DEF BIs, ReaderB
<1> QED BY <1>1, Read1A DEF ReadOffered, TakeB

LEMMA ReadLenBInA == ASSUME Bounded, Typed, InStepA, ReadLenB PROVE InStepA'
<1>1. ASSUME NEW k \in 0 .. MaxPad, NEW f \in Int, FromA(k, f)
      PROVE  ReaderB(k, f + 1)' \/ b'.pc = "closed"
  <2> DEFINE v == Read(Head(ab), "A", b.recv)
  <2>1. f = 2 /\ b.recv = 2 /\ f + 1 = 3 /\ b.recv + 1 = 3 /\ k \in Nat
    BY <1>1 DEF FromA, ReaderB, ReadLenB, TakeB, Bounded
  <2>2. IsA(Head(ab), f, k, a.on)
    BY <1>1, AheadA DEF ReadLenB, TakeB
  <2>3. v.x \in {k, MaxPad + 1}
    <3>1. /\ Head(ab).key = "A" /\ Head(ab).at = 2 /\ Head(ab).x \in {k, MaxPad + 1}
      BY <2>1, <2>2 DEF IsA
    <3> QED BY <2>1, <3>1 DEF Read
  <2>4. v.x <= MaxPad => v.x = k
    BY <2>3 DEF Bounded
  <2> HIDE DEF v
  <2>5. \/ v.x = k /\ BIs("pad", b.send, b.recv + 1, v.x, b.offered, b.chosen, b.on, b.said)
        \/ Closed
    BY <2>4, ReadLenBIs DEF v
  <2>6. 3 + k = k + 3
    BY <2>1
  <2> QED BY <2>1, <2>5, <2>6 DEF BIs, Closed, ReaderB
<1> QED BY <1>1, Read1A DEF ReadLenB, TakeB

LEMMA ReadPadBInA == ASSUME Bounded, Typed, InStepA, ReadPadB PROVE InStepA'
<1>1. ASSUME NEW k \in 0 .. MaxPad, NEW f \in Int, FromA(k, f)
      PROVE  ReaderB(k, f + 1)' \/ b'.pc = "closed"
  <2>1. b.recv = f /\ f + b.left = k + 3
    BY <1>1 DEF FromA, ReaderB, ReadPadB, TakeB
  <2>2. b.recv + 1 = f + 1 /\ (f + 1) + (b.left - 1) = k + 3
    BY <2>1, Numbers
  <2> QED BY <2>2, ReadPadBIs DEF BIs, ReaderB
<1> QED BY <1>1, Read1A DEF ReadPadB, TakeB

LEMMA ChooseInA == ASSUME Bounded, Typed, InStepA, Choose PROVE InStepA'
<1>1. ASSUME NEW k \in 0 .. MaxPad, NEW f \in Int, FromA(k, f)
      PROVE  ReaderB(k, f)' \/ b'.pc = "closed"
  <2>1. b.recv = f /\ f = k + 3
    <3>1. b.recv = f /\ f + b.left = k + 3 /\ b.left = 0
      BY <1>1 DEF FromA, ReaderB, Choose
    <3> QED BY <3>1
  <2> QED BY <2>1, ChooseIs DEF BIs, Closed, ReaderB
<1> QED BY <1>1, Read0A DEF Choose

LEMMA AnswerInA == ASSUME Bounded, Typed, InStepA, Answer PROVE InStepA'
<1>1. ASSUME NEW k \in 0 .. MaxPad, NEW f \in Int, FromA(k, f)
      PROVE  ReaderB(k, f + 1)' \/ b'.pc = "closed"
  <2>1. b.recv = k + 3 /\ f = k + 3 /\ k \in Nat
    BY <1>1 DEF FromA, ReaderB, Answer, TakeB, Bounded
  <2>2. IsA(Head(ab), f, k, a.on)
    BY <1>1, AheadA DEF Answer, TakeB
  <2>3. Head(ab).key = "A" /\ Head(ab).at = k + 3 /\ Head(ab).t = "greeting" /\ Head(ab).x = 0
    BY <2>1, <2>2 DEF IsA
  <2>4. heardB' = <<Part("greeting", 0)>>
    BY <2>1, <2>3 DEF Answer, Read, Part
  <2>5. b'.pc = "up" /\ b'.recv = b.recv + 1
    BY AnswerIs DEF BIs
  <2>6. b.recv + 1 = f + 1 /\ f + 1 = k + 4
    BY <2>1
  <2> QED BY <2>4, <2>5, <2>6 DEF ReaderB
<1> QED BY <1>1, Read1A DEF Answer, TakeB

LEMMA EndedBInA == ASSUME Bounded, Typed, InStepA, EndedB PROVE InStepA'
<1>1. b'.pc = "closed"
  BY CloseIs DEF EndedB, Closed, BIs
<1> QED BY <1>1 DEF InStepA

LEMMA SayBInA == ASSUME Bounded, Typed, InStepA, SayB PROVE InStepA'
<1>1. ASSUME NEW k \in 0 .. MaxPad, NEW f \in Int, FromA(k, f)
      PROVE  ReaderB(k, f)' \/ b'.pc = "closed"
  BY <1>1, SayBIs DEF BIs, ReaderB, FromA, SayB
<1> QED BY <1>1, Read0A DEF SayB

LEMMA HearBInA == ASSUME Bounded, Typed, InStepA, InStepB, HearB PROVE InStepA'
<1>1. ASSUME NEW k \in 0 .. MaxPad, NEW f \in Int, FromA(k, f), a.encrypting \/ a.pc = "dial"
      PROVE  ReaderB(k, f + 1)' \/ b'.pc = "closed"
  <2>1. /\ b.recv = f
        /\ \/ f = k + 4 /\ heardB = <<Part("greeting", 0)>>
           \/ f = k + 5
    BY <1>1 DEF FromA, ReaderB, HearB, TakeB
  <2>2. /\ k \in Nat /\ IsA(Head(ab), f, k, a.on)
        /\ WriterA(k, f + Len(ab)) /\ Len(ab) \in Nat /\ Len(ab) >= 1
    BY <1>1, AheadA DEF HearB, TakeB
  <2>3. f = k + 4 /\ f + Len(ab) = k + 5
    BY <2>1, <2>2 DEF WriterA
  <2>4. a.pc = "up" /\ a.encrypting
    <3>1. a.pc \notin {"dial", "failed", "public"} /\ ~(~a.said /\ a.pc \in Past)
      BY <2>2, <2>3 DEF WriterA, Past
    <3>2. a.said
      BY <3>1 DEF Typed, Fields, RecA, Past
    <3> QED BY <1>1, <3>1, <3>2 DEF Typed, Counts
  <2>5. b.on = a.on
    BY <2>4 DEF InStepB, Talking, FromB, ReaderA, WriterB, HearB, TakeB
  <2>6. Head(ab) = Hello("A", f, a.on)
    BY <2>2, <2>3 DEF IsA
  <2>7. Hears(b, Head(ab), "A") = Part("hello", 0)
    BY <2>1, <2>5, <2>6 DEF Hears, Hello, Read, Part, Sealed, Clear
  <2>8. heardB' = <<Part("greeting", 0), Part("hello", 0)>>
    <3>1. heardB = <<Part("greeting", 0)>>
      BY <2>1, <2>2, <2>3
    <3>2. heardB' = Append(heardB, Part("hello", 0))
      BY <2>7 DEF HearB
    <3> QED BY <3>1, <3>2, TwoHeard
  <2>9. b'.pc = "up" /\ b'.recv = b.recv + 1
    BY HearBIs DEF BIs
  <2>10. b.recv + 1 = f + 1 /\ f + 1 = k + 5
    BY <2>1, <2>2, <2>3
  <2> QED BY <2>8, <2>9, <2>10 DEF ReaderB
<1>2. CASE a.encrypting \/ a.pc = "dial"
  BY <1>1, <1>2, Read1A DEF HearB, TakeB
<1>3. CASE ~(a.encrypting \/ a.pc = "dial")
  BY <1>3 DEF InStepA, HearB
<1> QED BY <1>2, <1>3

----------------------------------------------------------------------------
(* The way back, alike.                                                    *)
LEMMA Read1B ==
  ASSUME Bounded, Typed, InStepB, ba # <<>>, ba' = Tail(ba), b' = b,
         a'.encrypting /\ Talking' => a.encrypting /\ Talking,
         \A k \in 0 .. MaxPad, f \in Int : FromB(k, f) => ReaderA(k, f + 1)' \/ ~Talking'
  PROVE  InStepB'
<1> SUFFICES ASSUME a'.encrypting, Talking'
             PROVE  \E k \in 0 .. MaxPad, f \in Int : FromB(k, f)'
  BY DEF InStepB
<1>1. PICK k \in 0 .. MaxPad, f \in Int : FromB(k, f)
  BY DEF InStepB
<1>2. /\ Lies(Tail(ba), f + 1, PlacesB(k, b.chosen, b.on))
      /\ (f + 1) + Len(Tail(ba)) = f + Len(ba)
  BY <1>1, LiesTail DEF FromB, Typed, Wires
<1>3. Lies(ba, f + 1, PlacesB(k, b.chosen, b.on))'
  BY <1>2 DEF Lies
<1>4. WriterB(k, (f + 1) + Len(ba))'
  <2>1. WriterB(k, (f + 1) + Len(ba'))
    BY <1>1, <1>2 DEF FromB
  <2> QED BY <2>1 DEF WriterB
<1>5. ReaderA(k, f + 1)'
  BY <1>1
<1>6. FromB(k, f + 1)'
  BY <1>3, <1>4, <1>5 DEF FromB
<1>7. f + 1 \in Int
  OBVIOUS
<1> QED BY <1>6, <1>7

LEMMA Read0B ==
  ASSUME Bounded, Typed, InStepB, ba' = ba, b' = b,
         a'.encrypting /\ Talking' => a.encrypting /\ Talking,
         \A k \in 0 .. MaxPad, f \in Int : FromB(k, f) => ReaderA(k, f)' \/ ~Talking'
  PROVE  InStepB'
<1> SUFFICES ASSUME a'.encrypting, Talking'
             PROVE  \E k \in 0 .. MaxPad, f \in Int : FromB(k, f)'
  BY DEF InStepB
<1>1. PICK k \in 0 .. MaxPad, f \in Int : FromB(k, f)
  BY DEF InStepB
<1>2. Lies(ba, f, PlacesB(k, b.chosen, b.on))' /\ WriterB(k, f + Len(ba))'
  BY <1>1 DEF FromB, Lies, WriterB
<1>3. ReaderA(k, f)'
  BY <1>1
<1>4. FromB(k, f)'
  BY <1>2, <1>3 DEF FromB
<1> QED BY <1>4

(* While the other end has not answered, no choice is known.               *)
LEMMA BehindB ==
  ASSUME Bounded, Typed, NEW k \in 0 .. MaxPad, NEW f \in Int, FromB(k, f), Talking, b.pc # "up"
  PROVE  /\ f <= 0 /\ f + Len(ba) = 0 /\ Len(ba) \in Nat /\ k \in Nat
         /\ a.pc \in {"public", "scan"} /\ a.recv = 0 /\ heardA = <<>>
<1>1. Len(ba) \in Nat /\ k \in Nat
  BY LenProperties DEF Typed, Wires, Bounded
<1>2. f + Len(ba) = 0
  BY DEF FromB, WriterB
<1>3. f <= 0
  BY <1>1, <1>2
<1>4. a.pc \notin {"chosen", "len", "pad"}
  BY <1>3 DEF FromB, ReaderA
<1>5. a.pc # "up"
  BY <1>1, <1>3 DEF FromB, ReaderA
<1>6. a.pc \in {"public", "scan"}
  BY <1>4, <1>5 DEF Talking, Typed, Fields, RecA
<1> QED BY <1>1, <1>2, <1>3, <1>6 DEF FromB, ReaderA

(* Nothing more is written, and what is known of a choice is not touched.  *)
LEMMA SamePlaceB ==
  ASSUME Bounded, Typed, Typed', InStepB, ba' = ba, a' = a, heardA' = heardA,
         b'.pc = "up" <=> b.pc = "up",
         b.pc = "up" => /\ b'.send = b.send /\ b'.said = b.said
                        /\ b'.on = b.on /\ b'.chosen = b.chosen
  PROVE  InStepB'
<1> SUFFICES ASSUME a.encrypting, Talking
             PROVE  \E k \in 0 .. MaxPad, f \in Int : FromB(k, f)'
  BY DEF InStepB, Talking
<1>1. PICK k \in 0 .. MaxPad, f \in Int : FromB(k, f)
  BY DEF InStepB
<1>2. CASE b.pc = "up"
  <2>1. Lies(ba, f, PlacesB(k, b.chosen, b.on))' /\ WriterB(k, f + Len(ba))' /\ ReaderA(k, f)'
    BY <1>1, <1>2 DEF FromB, Lies, WriterB, ReaderA
  <2>2. FromB(k, f)'
    BY <2>1 DEF FromB
  <2> QED BY <2>2
<1>3. CASE b.pc # "up"
  <2>1. /\ f <= 0 /\ f + Len(ba) = 0 /\ k \in Nat
        /\ a.pc \in {"public", "scan"} /\ a.recv = 0 /\ heardA = <<>>
    BY <1>1, <1>3, BehindB
  <2>2. ba \in Seq(Marks) /\ b.on \in BOOLEAN /\ b'.on \in BOOLEAN
    BY DEF Typed, Wires, Fields, RecB
  <2>3. \A j \in Int : j < f + Len(ba) =>
          PlacesB(k, b.chosen, b.on)[j] \subseteq PlacesB(k, b'.chosen, b'.on)[j]
    <3>1. \A j \in Int : j < f + Len(ba) => j < 0
      BY <2>1
    <3> SUFFICES ASSUME NEW j \in Int, j < f + Len(ba)
                 PROVE  PlacesB(k, b.chosen, b.on)[j] \subseteq PlacesB(k, b'.chosen, b'.on)[j]
      OBVIOUS
    <3>2. j < 0
      BY <3>1
    <3>3. k \in Nat
      BY <2>1
    <3> QED BY <2>2, <3>2, <3>3, EarlyB, ZenonT(30)
  <2>4. Lies(ba, f, PlacesB(k, b'.chosen, b'.on))
    <3>1. Lies(ba, f, PlacesB(k, b.chosen, b.on))
      BY <1>1 DEF FromB
    <3> QED BY <2>2, <2>3, <3>1, LiesSame
  <2>5. Lies(ba, f, PlacesB(k, b.chosen, b.on))'
    BY <2>4 DEF Lies
  <2>6. WriterB(k, f + Len(ba))' /\ ReaderA(k, f)'
    BY <1>3, <2>1 DEF WriterB, ReaderA
  <2>7. FromB(k, f)'
    BY <2>5, <2>6 DEF FromB
  <2> QED BY <2>7
<1> QED BY <1>2, <1>3

LEMMA GaveUpB == ASSUME GaveUp PROVE ~Talking'
BY DEF GaveUp, AIs, Talking

LEMMA DialInB == ASSUME Bounded, Typed, Dial PROVE InStepB'
<1> SUFFICES ASSUME a'.encrypting
             PROVE  \E k \in 0 .. MaxPad, f \in Int : FromB(k, f)'
  BY DEF InStepB
<1>1. /\ a'.pc = "public" /\ a'.recv = 0 /\ ba' = <<>> /\ heardA' = <<>> /\ b'.pc = "first"
  BY DialIs DEF AIs, BIs, Typed, Counts, Dial
<1>2. Lies(ba, 0, PlacesB(0, b.chosen, b.on))'
  BY <1>1 DEF Lies
<1>3. 0 + Len(ba') = 0
  BY <1>1
<1>4. WriterB(0, 0 + Len(ba))' /\ ReaderA(0, 0)'
  BY <1>1, <1>3 DEF WriterB, ReaderA
<1>5. FromB(0, 0)'
  BY <1>2, <1>4 DEF FromB
<1>6. 0 \in 0 .. MaxPad
  BY DEF Bounded
<1> QED BY <1>5, <1>6

(* What the dialling end reads, and where.                                 *)
LEMMA AheadB ==
  ASSUME Bounded, Typed, ba # <<>>, NEW k \in 0 .. MaxPad, NEW f \in Int, FromB(k, f)
  PROVE  /\ k \in Nat /\ Head(ba) \in Marks /\ IsB(Head(ba), f, k, b.chosen, b.on)
         /\ ReaderA(k, f) /\ WriterB(k, f + Len(ba)) /\ Len(ba) \in Nat /\ Len(ba) >= 1
<1>1. /\ Head(ba) \in PlacesB(k, b.chosen, b.on)[f] /\ Len(ba) \in Nat /\ Len(ba) >= 1
  BY LiesTail DEF FromB, Typed, Wires
<1> QED BY <1>1, AtB DEF FromB, Bounded

LEMMA ReadPublicInB == ASSUME Bounded, Typed, InStepA, InStepB, ReadPublic PROVE InStepB'
<1>1. a'.pc = "scan" /\ a'.recv = a.recv /\ a'.encrypting = a.encrypting /\ a.pc = "public"
  BY ReadPublicIs DEF AIs, ReadPublic, TakeA
<1>2. ASSUME NEW k \in 0 .. MaxPad, NEW f \in Int, FromB(k, f), a.encrypting
      PROVE  ReaderA(k, f + 1)'
  <2>1. b.pc # "up"
    <3> SUFFICES ASSUME b.pc = "up" PROVE FALSE
      OBVIOUS
    <3>1. PICK l \in 0 .. MaxPad, g \in Int : FromA(l, g)
      BY <1>2 DEF InStepA
    <3>2. g + Len(ab) = -2
      BY <1>1, <3>1 DEF FromA, WriterA
    <3>3. g = l + 4 \/ g = l + 5
      BY <3>1 DEF FromA, ReaderB
    <3>4. Len(ab) \in Nat /\ l \in Nat
      BY LenProperties DEF Typed, Wires, Bounded
    <3> QED BY <3>2, <3>3, <3>4
  <2>2. f + Len(ba) = 0 /\ a.recv = 0 /\ heardA = <<>>
    BY <1>1, <1>2, <2>1, BehindB DEF Talking
  <2>3. Len(ba) \in Nat /\ Len(ba) >= 1
    BY <1>2, AheadB DEF ReadPublic, TakeA
  <2>4. f + 1 <= 0
    BY <2>2, <2>3
  <2> QED BY <1>1, <2>2, <2>4 DEF ReaderA, ReadPublic
<1>3. CASE a.encrypting
  BY <1>1, <1>2, <1>3, Read1B DEF ReadPublic, TakeA, Talking
<1>4. CASE ~a.encrypting
  BY <1>1, <1>4 DEF InStepB
<1> QED BY <1>3, <1>4

LEMMA ScanAInB == ASSUME Bounded, Typed, InStepB, ScanA PROVE InStepB'
<1>1. ASSUME NEW k \in 0 .. MaxPad, NEW f \in Int, FromB(k, f)
      PROVE  ReaderA(k, f + 1)' \/ ~Talking'
  <2>1. /\ IsB(Head(ba), f, k, b.chosen, b.on) /\ ReaderA(k, f) /\ k \in Nat
    BY <1>1, AheadB DEF ScanA, TakeA
  <2>2. f <= 0 /\ a.recv = 0 /\ heardA = <<>>
    BY <2>1 DEF ReaderA, ScanA, TakeA
  <2>3. CASE f = 0
    <3>1. Read(Head(ba), "B", 0) = Part("VC", 0) /\ f + 1 = 1
      BY <2>1, <2>3 DEF IsB, Read, Part
    <3> QED BY <2>2, <3>1, ScanAIs, GaveUpB DEF AIs, ReaderA, ScanA
  <2>4. CASE f < 0
    <3>1. Read(Head(ba), "B", 0) # Part("VC", 0) /\ f + 1 <= 0
      BY <2>1, <2>4 DEF IsB, Read, Part, Noise
    <3> QED BY <2>2, <3>1, ScanAIs, GaveUpB DEF AIs, ReaderA, ScanA
  <2> QED BY <2>2, <2>3, <2>4
<1>2. a'.encrypting /\ Talking' => a.encrypting /\ Talking
  BY ScanAIs, GaveUpB DEF AIs, Talking, ScanA, TakeA
<1> QED BY <1>1, <1>2, Read1B DEF ScanA, TakeA

LEMMA ReadChosenInB == ASSUME Bounded, Typed, InStepB, ReadChosen PROVE InStepB'
<1>1. ASSUME NEW k \in 0 .. MaxPad, NEW f \in Int, FromB(k, f)
      PROVE  ReaderA(k, f + 1)' \/ ~Talking'
  <2>1. /\ IsB(Head(ba), f, k, b.chosen, b.on) /\ ReaderA(k, f) /\ k \in Nat
    BY <1>1, AheadB DEF ReadChosen, TakeA
  <2>2. f = 1 /\ a.recv = 1 /\ heardA = <<>> /\ f + 1 = 2 /\ a.recv + 1 = 2
    BY <2>1 DEF ReaderA, ReadChosen, TakeA
  <2>3. Read(Head(ba), "B", a.recv).x = b.chosen
    BY <2>1, <2>2 DEF IsB, Read
  <2> QED BY <2>2, <2>3, ReadChosenIs DEF AIs, ReaderA, ReadChosen
<1>2. a'.encrypting /\ Talking' => a.encrypting /\ Talking
  BY ReadChosenIs DEF AIs, Talking, ReadChosen, TakeA
<1> QED BY <1>1, <1>2, Read1B DEF ReadChosen, TakeA

LEMMA ReadLenAInB == ASSUME Bounded, Typed, InStepB, ReadLenA PROVE InStepB'
<1>1. ASSUME NEW k \in 0 .. MaxPad, NEW f \in Int, FromB(k, f)
      PROVE  ReaderA(k, f + 1)' \/ ~Talking'
  <2> DEFINE v == Read(Head(ba), "B", a.recv)
  <2>1. /\ IsB(Head(ba), f, k, b.chosen, b.on) /\ ReaderA(k, f) /\ k \in Nat
    BY <1>1, AheadB DEF ReadLenA, TakeA
  <2>2. /\ f = 2 /\ a.recv = 2 /\ f + 1 = 3 /\ a.recv + 1 = 3
        /\ heardA = <<>> /\ a.chosen = b.chosen
    BY <2>1 DEF ReaderA, ReadLenA, TakeA
  <2>3. v.x \in {k, MaxPad + 1}
    BY <2>1, <2>2 DEF IsB, Read
  <2>4. v.x <= MaxPad => v.x = k
    BY <2>3 DEF Bounded
  <2> HIDE DEF v
  <2>5. \/ v.x = k /\ AIs("pad", a.encrypting, a.send, a.recv + 1, v.x, a.chosen, a.on, a.said)
        \/ GaveUp
    BY <2>4, ReadLenAIs DEF v
  <2>6. 3 + k = k + 3
    BY <2>1
  <2>7. CASE /\ v.x = k
             /\ AIs("pad", a.encrypting, a.send, a.recv + 1, v.x, a.chosen, a.on, a.said)
    <3>1. /\ a'.pc = "pad" /\ a'.recv = f + 1 /\ a'.left = k /\ a'.chosen = b.chosen
          /\ heardA' = <<>> /\ b' = b
      BY <2>2, <2>7 DEF AIs, ReadLenA
    <3>2. f + 1 >= 3 /\ (f + 1) + k = k + 3
      BY <2>2, <2>6
    <3> QED BY <3>1, <3>2 DEF ReaderA
  <2> QED BY <2>5, <2>7, GaveUpB
<1>2. a'.encrypting /\ Talking' => a.encrypting /\ Talking
  BY ReadLenAIs, GaveUpB DEF AIs, Talking, ReadLenA, TakeA
<1> QED BY <1>1, <1>2, Read1B DEF ReadLenA, TakeA

LEMMA ReadPadAInB == ASSUME Bounded, Typed, InStepB, ReadPadA PROVE InStepB'
<1>1. ASSUME NEW k \in 0 .. MaxPad, NEW f \in Int, FromB(k, f)
      PROVE  ReaderA(k, f + 1)' \/ ~Talking'
  <2>1. a.recv = f /\ f >= 3 /\ f + a.left = k + 3 /\ a.chosen = b.chosen /\ heardA = <<>>
    BY <1>1 DEF FromB, ReaderA, ReadPadA, TakeA
  <2>2. a.left \in Int /\ k \in Int
    BY Numbers
  <2>3. ASSUME NEW l \in Int, NEW n \in Int, f + l = n + 3
        PROVE  (f + 1) + (l - 1) = n + 3
    BY <2>3
  <2>4. (f + 1) + (a.left - 1) = k + 3
    BY <2>1, <2>2, <2>3
  <2>5. a.recv + 1 = f + 1 /\ f + 1 >= 3
    BY <2>1
  <2> QED BY <2>1, <2>4, <2>5, ReadPadAIs DEF AIs, ReaderA, ReadPadA
<1>2. a'.encrypting /\ Talking' => a.encrypting /\ Talking
  BY ReadPadAIs DEF AIs, Talking, ReadPadA, TakeA
<1> QED BY <1>1, <1>2, Read1B DEF ReadPadA, TakeA

LEMMA SettleAInB == ASSUME Bounded, Typed, InStepB, SettleA PROVE InStepB'
<1>1. ASSUME NEW k \in 0 .. MaxPad, NEW f \in Int, FromB(k, f)
      PROVE  ReaderA(k, f)' \/ ~Talking'
  <2>1. a.recv = f /\ f = k + 3 /\ a.chosen = b.chosen /\ heardA = <<>>
    <3>1. a.recv = f /\ f + a.left = k + 3 /\ a.chosen = b.chosen /\ heardA = <<>> /\ a.left = 0
      BY <1>1 DEF FromB, ReaderA, SettleA
    <3> QED BY <3>1
  <2> QED BY <2>1, SettleAIs, GaveUpB DEF AIs, ReaderA, SettleA
<1>2. a'.encrypting /\ Talking' => a.encrypting /\ Talking
  BY SettleAIs, GaveUpB DEF AIs, Talking, SettleA
<1> QED BY <1>1, <1>2, Read0B DEF SettleA

LEMMA EndedAInB == ASSUME Bounded, Typed, InStepB, EndedA PROVE InStepB'
<1>1. ~Talking'
  BY GivesUpIs, GaveUpB DEF EndedA
<1> QED BY <1>1 DEF InStepB

LEMMA SayAInB == ASSUME Bounded, Typed, InStepB, SayA PROVE InStepB'
<1>1. ASSUME NEW k \in 0 .. MaxPad, NEW f \in Int, FromB(k, f)
      PROVE  ReaderA(k, f)' \/ ~Talking'
  BY <1>1, SayAIs DEF FromB, AIs, ReaderA, SayA
<1>2. a'.encrypting /\ Talking' => a.encrypting /\ Talking
  BY SayAIs DEF AIs, Talking, SayA
<1> QED BY <1>1, <1>2, Read0B DEF SayA

LEMMA HearAInB == ASSUME Bounded, Typed, InStepB, HearA PROVE InStepB'
<1>1. ASSUME NEW k \in 0 .. MaxPad, NEW f \in Int, FromB(k, f)
      PROVE  ReaderA(k, f + 1)' \/ ~Talking'
  <2>1. /\ IsB(Head(ba), f, k, b.chosen, b.on) /\ ReaderA(k, f) /\ k \in Nat
        /\ WriterB(k, f + Len(ba)) /\ Len(ba) \in Nat /\ Len(ba) >= 1
    BY <1>1, AheadB DEF HearA, TakeA
  <2>2. /\ a.recv = f /\ a.chosen = b.chosen /\ a.on = (a.chosen = RC4)
        /\ \/ f = k + 3 /\ heardA = <<>>
           \/ f = k + 4
    BY <2>1 DEF ReaderA, HearA, TakeA
  <2>3. f = k + 3 /\ heardA = <<>> /\ b.on = (b.chosen = RC4)
    <3>1. f + Len(ba) # 0
      BY <2>1, <2>2
    <3>2. b.pc = "up" /\ b.on = (b.chosen = RC4) /\ (f + Len(ba) = k + 3 \/ f + Len(ba) = k + 4)
      BY <2>1, <3>1 DEF WriterB
    <3> QED BY <2>1, <2>2, <3>2
  <2>4. Head(ba) = Hello("B", f, b.on)
    BY <2>1, <2>3 DEF IsB
  <2>5. Hears(a, Head(ba), "B") = Part("hello", 0)
    BY <2>2, <2>3, <2>4 DEF Hears, Hello, Read, Part, Sealed, Clear
  <2>6. heardA' = <<Part("hello", 0)>>
    BY <2>3, <2>5 DEF HearA
  <2>7. a.recv + 1 = f + 1 /\ f + 1 = k + 4
    BY <2>1, <2>2, <2>3
  <2> QED BY <2>2, <2>6, <2>7, HearAIs DEF AIs, ReaderA, HearA
<1>2. a'.encrypting /\ Talking' => a.encrypting /\ Talking
  BY HearAIs DEF AIs, Talking, HearA, TakeA
<1> QED BY <1>1, <1>2, Read1B DEF HearA, TakeA

LEMMA ScanBInB == ASSUME Bounded, Typed, Typed', InStepB, ScanB PROVE InStepB'
BY ScanBIs, SamePlaceB DEF ScanB, TakeB, BIs, Closed

LEMMA ReadNamedInB == ASSUME Bounded, Typed, Typed', InStepB, ReadNamed PROVE InStepB'
BY ReadNamedIs, SamePlaceB DEF ReadNamed, TakeB, BIs, Closed

LEMMA ReadVCInB == ASSUME Bounded, Typed, Typed', InStepB, ReadVC PROVE InStepB'
BY ReadVCIs, SamePlaceB DEF ReadVC, TakeB, BIs, Closed

LEMMA ReadOfferedInB == ASSUME Bounded, Typed, Typed', InStepB, ReadOffered PROVE InStepB'
BY ReadOfferedIs, SamePlaceB DEF ReadOffered, TakeB, BIs

LEMMA ReadLenBInB == ASSUME Bounded, Typed, Typed', InStepB, ReadLenB PROVE InStepB'
BY ReadLenBIs, SamePlaceB DEF ReadLenB, TakeB, BIs, Closed

LEMMA ReadPadBInB == ASSUME Bounded, Typed, Typed', InStepB, ReadPadB PROVE InStepB'
BY ReadPadBIs, SamePlaceB DEF ReadPadB, TakeB, BIs

LEMMA ChooseInB == ASSUME Bounded, Typed, Typed', InStepB, Choose PROVE InStepB'
BY ChooseIs, SamePlaceB DEF Choose, BIs, Closed

LEMMA EndedBInB == ASSUME Bounded, Typed, Typed', InStepB, EndedB PROVE InStepB'
BY CloseIs, SamePlaceB DEF EndedB, BIs, Closed

LEMMA HearBInB == ASSUME Bounded, Typed, Typed', InStepB, HearB PROVE InStepB'
BY HearBIs, SamePlaceB DEF HearB, TakeB, BIs

LEMMA FirstInB == ASSUME Bounded, Typed, Typed', InStepA, InStepB, First PROVE InStepB'
<1>1. CASE Closed /\ ba' = ba /\ heardB' = heardB
  BY <1>1, SamePlaceB DEF First, TakeB, BIs, Closed
<1>2. CASE /\ Head(ab).t = "greeting" /\ AllowsPlaintext(policy["b"])
           /\ BIs("up", b.send, b.recv, b.left, b.offered, b.chosen, b.on, b.said)
  <2> SUFFICES ASSUME a.encrypting PROVE FALSE
    BY DEF InStepB, First
  <2>1. PICK k \in 0 .. MaxPad, f \in Int : FromA(k, f)
    BY DEF InStepA, First, TakeB
  <2>2. /\ IsA(Head(ab), f, k, a.on) /\ ReaderB(k, f)
    BY <2>1, AheadA DEF First, TakeB
  <2>3. f <= -3
    BY <2>2 DEF ReaderB, First, TakeB
  <2> QED BY <1>2, <2>2, <2>3 DEF IsA
<1>3. ASSUME NEW l \in 0 .. MaxPad, ba' \in Seq(Marks), Len(ba') = l + 1,
             \A i \in 1 .. Len(ba') : ba'[i].key = "none",
             BIs("scan", b.send, b.recv, MaxPad + 1, b.offered, b.chosen, b.on, b.said)
      PROVE  InStepB'
  <2> SUFFICES ASSUME a.encrypting, Talking
               PROVE  \E k \in 0 .. MaxPad, f \in Int : FromB(k, f)'
    BY DEF InStepB, First, Talking
  <2>1. PICK k \in 0 .. MaxPad, f \in Int : FromB(k, f)
    BY DEF InStepB
  <2>2. a.pc \in {"public", "scan"} /\ a.recv = 0 /\ heardA = <<>>
    BY <2>1, BehindB DEF First, TakeB
  <2>3. l \in Nat /\ -(l + 1) \in Int /\ -(l + 1) <= 0 /\ -(l + 1) + Len(ba') = 0
    BY <1>3 DEF Bounded
  <2>4. Lies(ba', -(l + 1), PlacesB(l, b'.chosen, b'.on))
    <3> SUFFICES ASSUME NEW i \in 1 .. Len(ba')
                 PROVE  ba'[i] \in PlacesB(l, b'.chosen, b'.on)[-(l + 1) + i - 1]
      BY DEF Lies
    <3>1. -(l + 1) + i - 1 \in Int /\ -(l + 1) + i - 1 < 0
      BY <1>3, <2>3
    <3>2. ba'[i] \in Marks
      BY <1>3, ElementOfSeq
    <3>3. IsB(ba'[i], -(l + 1) + i - 1, l, b'.chosen, b'.on)
      BY <1>3, <2>3, <3>1 DEF IsB
    <3> QED BY <3>1, <3>2, <3>3, AtB
  <2>5. Lies(ba, -(l + 1), PlacesB(l, b.chosen, b.on))'
    BY <2>4 DEF Lies
  <2>6. b'.pc = "scan"
    BY <1>3 DEF BIs
  <2>7. WriterB(l, -(l + 1) + Len(ba))' /\ ReaderA(l, -(l + 1))'
    BY <2>2, <2>3, <2>6 DEF WriterB, ReaderA, First
  <2>8. FromB(l, -(l + 1))'
    BY <2>5, <2>7 DEF FromB
  <2> QED BY <2>3, <2>8
<1> QED BY <1>1, <1>2, <1>3, FirstIs

LEMMA AnswerInB == ASSUME Bounded, Typed, Typed', InStepB, Answer PROVE InStepB'
<1> SUFFICES ASSUME a.encrypting, Talking
             PROVE  \E k \in 0 .. MaxPad, f \in Int : FromB(k, f)'
  BY DEF InStepB, Answer, Talking
<1>1. PICK k \in 0 .. MaxPad, f \in Int : FromB(k, f)
  BY DEF InStepB
<1>2. PICK l \in 0 .. MaxPad, c \in Values, s \in Seq(Marks) :
        /\ c \in {l, MaxPad + 1}
        /\ ba' = ba \o s
        /\ IsAnswer(s, b.chosen, l, c)
        /\ BIs("up", l + 3, b.recv + 1, b.left, b.offered, b.chosen, b.chosen = RC4, b.said)
  BY AnswerIs
<1>3. /\ f <= 0 /\ f + Len(ba) = 0 /\ Len(ba) \in Nat /\ k \in Nat
      /\ a.pc \in {"public", "scan"} /\ a.recv = 0 /\ heardA = <<>>
  BY <1>1, BehindB DEF Answer, TakeB
<1>4. l \in Nat /\ ba \in Seq(Marks) /\ b.on \in BOOLEAN /\ b'.on \in BOOLEAN
  BY DEF Typed, Wires, Fields, RecB, Bounded
<1> DEFINE S == PlacesB(l, b.chosen, b'.on)
<1>5. Lies(ba, f, S)
  <2>1. Lies(ba, f, PlacesB(k, b.chosen, b.on))
    BY <1>1 DEF FromB
  <2>2. \A j \in Int : j < f + Len(ba) => j < 0
    BY <1>3
  <2>3. \A j \in Int : j < f + Len(ba) => PlacesB(k, b.chosen, b.on)[j] \subseteq S[j]
    <3> SUFFICES ASSUME NEW j \in Int, j < f + Len(ba)
                 PROVE  PlacesB(k, b.chosen, b.on)[j] \subseteq S[j]
      OBVIOUS
    <3>1. j < 0
      BY <2>2
    <3>2. PlacesB(k, b.chosen, b.on)[j] \subseteq PlacesB(l, b.chosen, b'.on)[j]
      <4>1. /\ k \in Nat /\ l \in Nat /\ b.on \in BOOLEAN /\ b'.on \in BOOLEAN
            /\ j \in Int /\ j < 0
        BY <1>3, <1>4, <3>1
      <4> HIDE DEF S
      <4> QED BY <4>1, EarlyB
    <3> QED BY <3>2
  <2> HIDE DEF S
  <2> QED BY <1>4, <2>1, <2>3, LiesSame
<1>6. Lies(s, 0, S)
  <2> SUFFICES ASSUME NEW i \in 1 .. Len(s)
               PROVE  s[i] \in S[0 + i - 1]
    BY DEF Lies
  <2>1. i \in 1 .. l + 3
    BY <1>2 DEF IsAnswer
  <2>2. s[i] \in Marks
    BY ElementOfSeq
  <2>3. IsB(s[i], i - 1, l, b.chosen, b'.on)
    <3>1. /\ s[i].key = "B" /\ s[i].at = i - 1
          /\ i = 1 => s[i].t = "VC" /\ s[i].x = 0
          /\ i = 2 => s[i].x = b.chosen
          /\ i = 3 => s[i].t = "len" /\ s[i].x = c
      BY <1>2, <2>1 DEF IsAnswer
    <3>2. /\ i - 1 \in 0 .. l + 2
          /\ (i - 1 = 0 => i = 1) /\ (i - 1 = 1 => i = 2) /\ (i - 1 = 2 => i = 3)
      BY <1>4, <2>1
    <3> QED BY <1>2, <1>4, <3>1, <3>2 DEF IsB
  <2>4. 0 + i - 1 = i - 1 /\ i - 1 \in Int
    BY <2>1
  <2> QED BY <2>2, <2>3, <2>4, AtB
<1> HIDE DEF S
<1>7. Lies(ba \o s, f, S) /\ Len(ba \o s) = Len(ba) + Len(s)
  BY <1>3, <1>4, <1>5, <1>6, LiesJoin
<1>8. Len(s) = l + 3
  BY <1>2 DEF IsAnswer
<1>9. f + Len(ba') = l + 3
  BY <1>2, <1>3, <1>4, <1>7, <1>8
<1>10. /\ b'.pc = "up" /\ b'.send = l + 3 /\ b'.chosen = b.chosen /\ ~b'.said
       /\ b'.on = (b'.chosen = RC4)
  <2>1. ~b.said
    BY DEF Answer, TakeB, Typed, Counts
  <2> QED BY <1>2, <2>1 DEF BIs
<1>11. WriterB(l, f + Len(ba))' /\ ReaderA(l, f)'
  BY <1>3, <1>9, <1>10 DEF WriterB, ReaderA, Answer
<1>12. Lies(ba, f, PlacesB(l, b.chosen, b.on))'
  BY <1>2, <1>7, <1>10 DEF S, Lies
<1>13. FromB(l, f)'
  BY <1>11, <1>12 DEF FromB
<1> QED BY <1>13

LEMMA SayBInB == ASSUME Bounded, Typed, InStepB, SayB PROVE InStepB'
<1> SUFFICES ASSUME a.encrypting, Talking
             PROVE  \E k \in 0 .. MaxPad, f \in Int : FromB(k, f)'
  BY DEF InStepB, SayB, Talking
<1>1. BIs("up", b.send + 1, b.recv, b.left, b.offered, b.chosen, b.on, TRUE)
  BY SayBIs
<1>2. PICK k \in 0 .. MaxPad, f \in Int : FromB(k, f)
  BY DEF InStepB
<1>3. k \in Nat /\ ba \in Seq(Marks) /\ Len(ba) \in Nat
  BY LenProperties DEF Typed, Wires, Bounded
<1>4. f + Len(ba) = b.send /\ b.send = k + 3 /\ b.on = (b.chosen = RC4)
  BY <1>2 DEF FromB, WriterB, SayB
<1>5. Says(b, "B") \in Marks /\ ba' = Append(ba, Says(b, "B"))
  BY SaysAMark DEF SayB
<1>6. Says(b, "B") \in PlacesB(k, b.chosen, b.on)[f + Len(ba)]
  <2>1. Says(b, "B") = Hello("B", b.send, b.on)
    BY DEF Says, Hello
  <2>2. IsB(Says(b, "B"), k + 3, k, b.chosen, b.on)
    BY <1>3, <1>4, <2>1 DEF IsB
  <2> QED BY <1>3, <1>4, <1>5, <2>2, AtB
<1>7. /\ Lies(Append(ba, Says(b, "B")), f, PlacesB(k, b.chosen, b.on))
      /\ Len(Append(ba, Says(b, "B"))) = Len(ba) + 1
  BY <1>2, <1>3, <1>5, <1>6, LiesMore DEF FromB
<1>8. WriterB(k, f + Len(ba))'
  <2>1. f + Len(ba') = k + 4 /\ b.send + 1 = k + 4
    BY <1>3, <1>4, <1>5, <1>7
  <2> QED BY <1>1, <1>4, <2>1 DEF WriterB, BIs
<1>9. Lies(ba, f, PlacesB(k, b.chosen, b.on))' /\ ReaderA(k, f)'
  <2>1. b'.on = b.on /\ b'.chosen = b.chosen
    BY <1>1 DEF BIs
  <2> QED BY <1>2, <1>5, <1>7, <2>1 DEF Lies, FromB, ReaderA, SayB
<1>10. FromB(k, f)'
  BY <1>8, <1>9 DEF FromB
<1> QED BY <1>10

----------------------------------------------------------------------------
(* The dialling end in the clear.                                          *)
LEMMA InitInStep == ASSUME ShakeInit PROVE InStepA /\ InStepB /\ Plain
<1>1. a.pc = "dial"
  BY DEF ShakeInit, Dialling
<1>2. b.pc = "closed"
  BY DEF ShakeInit, Waiting
<1> QED BY <1>1, <1>2 DEF InStepA, InStepB, Plain, Talking

LEMMA HangUpInStep ==
  ASSUME InStepA, InStepB, Plain, HangUp \/ UNCHANGED peers
  PROVE  InStepA' /\ InStepB' /\ Plain'
<1>1. /\ a' = a /\ b' = b /\ ab' = ab /\ ba' = ba
      /\ heardA' = heardA /\ heardB' = heardB
  BY DEF HangUp, peers
<1> QED BY <1>1 DEF InStepA, InStepB, Plain, InPlain, Talking, FromA, FromB, Lies,
                    WriterA, WriterB, ReaderA, ReaderB

(* In the middle of its handshake the dialling end is not the plain one.   *)
LEMMA StillSealedA ==
  ASSUME Plain, a.pc \notin {"dial", "up"}, GaveUp \/ a'.encrypting = a.encrypting
  PROVE  Plain'
<1>1. a.encrypting
  BY DEF Plain, InPlain
<1>2. a'.encrypting \/ a'.pc = "dial"
  BY <1>1 DEF GaveUp, AIs
<1> QED BY <1>2 DEF Plain

LEMMA StillSealedB ==
  ASSUME Plain, b.pc \notin {"first", "up", "closed"}, a' = a
  PROVE  Plain'
BY DEF Plain, InPlain

LEMMA MidwayA ==
  ASSUME Bounded, Typed, Plain,
         \/ ReadPublic \/ ScanA \/ ReadChosen \/ ReadLenA \/ ReadPadA
         \/ SettleA \/ EndedA
  PROVE  Plain'
<1>1. CASE ReadPublic
  BY <1>1, ReadPublicIs, StillSealedA DEF ReadPublic, TakeA, AIs
<1>2. CASE ScanA
  BY <1>2, ScanAIs, StillSealedA DEF ScanA, TakeA, AIs
<1>3. CASE ReadChosen
  BY <1>3, ReadChosenIs, StillSealedA DEF ReadChosen, TakeA, AIs
<1>4. CASE ReadLenA
  BY <1>4, ReadLenAIs, StillSealedA DEF ReadLenA, TakeA, AIs
<1>5. CASE ReadPadA
  BY <1>5, ReadPadAIs, StillSealedA DEF ReadPadA, TakeA, AIs
<1>6. CASE SettleA
  BY <1>6, SettleAIs, StillSealedA DEF SettleA, AIs
<1>7. CASE EndedA
  BY <1>7, GivesUpIs, StillSealedA DEF EndedA, AIs
<1> QED BY <1>1, <1>2, <1>3, <1>4, <1>5, <1>6, <1>7

LEMMA MidwayB ==
  ASSUME Plain,
         \/ ScanB \/ ReadNamed \/ ReadVC \/ ReadOffered \/ ReadLenB \/ ReadPadB
         \/ Choose \/ Answer
  PROVE  Plain'
<1>1. b.pc \notin {"first", "up", "closed"} /\ a' = a
  BY DEF ScanB, ReadNamed, ReadVC, ReadOffered, ReadLenB, ReadPadB, Choose, Answer, TakeB
<1> QED BY <1>1, StillSealedB

(* The others, in the clear.                                               *)
LEMMA DialPlain == ASSUME Bounded, Typed, Dial PROVE Plain'
<1> SUFFICES ASSUME ~a'.encrypting
             PROVE  InPlain'
  BY DEF Plain
<1>1. ~a.encrypting
  BY DialIs DEF AIs
<1>2. ~a.on /\ ~a.said
  BY DEF Dial, Typed, Counts
<1>3. /\ a'.pc = "up" /\ ~a'.on /\ ~a'.said
      /\ b'.pc = "first" /\ ~b'.on /\ ~b'.said
      /\ ab' = <<Clear("greeting", 0)>> /\ ba' = <<>> /\ heardA' = <<>>
  BY <1>1, <1>2, DialIs DEF AIs, BIs, Dial
<1> QED BY <1>3 DEF InPlain

LEMMA SayAPlain == ASSUME Bounded, Typed, Plain, SayA PROVE Plain'
<1> SUFFICES ASSUME ~a.encrypting
             PROVE  InPlain'
  BY SayAIs DEF Plain, AIs
<1>1. InPlain /\ ~a.said
  BY DEF Plain, SayA
<1>2. a'.pc = "up" /\ ~a'.on /\ a'.said
  BY <1>1, SayAIs DEF AIs, InPlain
<1>3. ab' = Append(ab, Clear("hello", 0))
  BY <1>1 DEF SayA, Says, InPlain
<1>4. b.pc = "first" => ab' = <<Clear("greeting", 0), Clear("hello", 0)>>
  BY <1>1, <1>3, TwoHeard DEF InPlain
<1>5. b.pc = "up" => heardB = <<Part("greeting", 0)>> /\ ab' = <<Clear("hello", 0)>>
  BY <1>1, <1>3, AloneIs DEF InPlain
<1> QED BY <1>1, <1>2, <1>4, <1>5 DEF InPlain, SayA

LEMMA HearAPlain == ASSUME Bounded, Typed, Plain, HearA PROVE Plain'
<1> SUFFICES ASSUME ~a.encrypting
             PROVE  InPlain'
  BY HearAIs DEF Plain, AIs
<1>1. InPlain /\ ba # <<>>
  BY DEF Plain, HearA, TakeA
<1>2. a'.pc = "up" /\ ~a'.on /\ a'.said = a.said
  BY <1>1, HearAIs DEF AIs, InPlain
<1>3. heardA = <<>> /\ b.said /\ ba = <<Clear("hello", 0)>>
  BY <1>1 DEF InPlain
<1>4. Hears(a, Clear("hello", 0), "B") = Part("hello", 0)
  BY <1>1 DEF InPlain, Hears, Read, Clear, Part
<1>5. heardA' = <<Part("hello", 0)>> /\ ba' = <<>>
  BY <1>3, <1>4, AloneIs DEF HearA, TakeA
<1> QED BY <1>1, <1>2, <1>3, <1>5 DEF InPlain, HearA

LEMMA EndedBPlain == ASSUME Typed, Plain, EndedB PROVE Plain'
<1> SUFFICES ASSUME ~a.encrypting, a.pc # "dial"
             PROVE  InPlain'
  BY DEF Plain, EndedB
<1>1. InPlain /\ b.pc # "up"
  BY DEF Plain, EndedB
<1>2. b'.pc = "closed" /\ ~b'.on /\ ~b'.said /\ ~b.said
  BY <1>1, CloseIs DEF EndedB, Closed, BIs, InPlain
<1> QED BY <1>1, <1>2 DEF InPlain, EndedB

LEMMA FirstPlain == ASSUME Bounded, Typed, Plain, First PROVE Plain'
<1> SUFFICES ASSUME ~a.encrypting, a.pc # "dial"
             PROVE  InPlain'
  BY DEF Plain, First
<1>1. InPlain /\ b.pc = "first"
  BY DEF Plain, First, TakeB
<1>2. Head(ab).t = "greeting" /\ Tail(ab) = IF a.said THEN <<Clear("hello", 0)>> ELSE <<>>
  <2>1. CASE a.said
    <3>1. ab = <<Clear("greeting", 0), Clear("hello", 0)>>
      BY <1>1, <2>1 DEF InPlain
    <3> QED BY <2>1, <3>1, PairIs DEF Clear
  <2>2. CASE ~a.said
    <3>1. ab = <<Clear("greeting", 0)>>
      BY <1>1, <2>2 DEF InPlain
    <3> QED BY <2>2, <3>1, AloneIs DEF Clear
  <2> QED BY <2>1, <2>2
<1>3. a' = a /\ heardA' = heardA /\ ab' = Tail(ab) /\ ~b.said /\ ~b.on
  BY <1>1 DEF First, TakeB, InPlain
<1>4. CASE /\ BIs("up", b.send, b.recv, b.left, b.offered, b.chosen, b.on, b.said)
           /\ heardB' = <<Part("greeting", 0)>> /\ ba' = ba
  BY <1>1, <1>2, <1>3, <1>4 DEF BIs, InPlain
<1>5. CASE Closed /\ ba' = ba
  BY <1>1, <1>3, <1>5 DEF Closed, BIs, InPlain
<1> QED BY <1>2, <1>4, <1>5, FirstIs

LEMMA SayBPlain == ASSUME Bounded, Typed, Plain, SayB PROVE Plain'
<1> SUFFICES ASSUME ~a.encrypting, a.pc # "dial"
             PROVE  InPlain'
  BY DEF Plain, SayB
<1>1. InPlain /\ b.pc = "up" /\ ~b.said
  BY DEF Plain, SayB
<1>2. b'.pc = "up" /\ ~b'.on /\ b'.said
  BY <1>1, SayBIs DEF BIs, InPlain
<1>3. heardA = <<>> /\ ba = <<>>
  BY <1>1 DEF InPlain
<1>4. ba' = <<Clear("hello", 0)>>
  BY <1>1, <1>3, AloneIs DEF SayB, Says, InPlain
<1> QED BY <1>1, <1>2, <1>3, <1>4 DEF InPlain, SayB

LEMMA HearBPlain == ASSUME Bounded, Typed, Plain, HearB PROVE Plain'
<1> SUFFICES ASSUME ~a.encrypting, a.pc # "dial"
             PROVE  InPlain'
  BY DEF Plain, HearB
<1>1. InPlain /\ b.pc = "up" /\ ab # <<>>
  BY DEF Plain, HearB, TakeB
<1>2. b'.pc = "up" /\ ~b'.on /\ b'.said = b.said
  BY <1>1, HearBIs DEF BIs, InPlain
<1>3. heardB = <<Part("greeting", 0)>> /\ a.said /\ ab = <<Clear("hello", 0)>>
  BY <1>1 DEF InPlain
<1>4. Hears(b, Clear("hello", 0), "A") = Part("hello", 0)
  BY <1>1 DEF InPlain, Hears, Read, Clear, Part
<1>5. heardB' = <<Part("greeting", 0), Part("hello", 0)>> /\ ab' = <<>>
  BY <1>3, <1>4, AloneIs, TwoHeard DEF HearB, TakeB
<1> QED BY <1>1, <1>2, <1>3, <1>5 DEF InPlain, HearB

----------------------------------------------------------------------------
(* All of it together is what every step keeps.                            *)
Inv == Typed /\ Kept /\ InStepA /\ InStepB /\ Plain

LEMMA InitInv == ASSUME Bounded, ShakeInit PROVE Inv
BY InitTyped, InitKept, InitInStep DEF Inv

LEMMA StillInv ==
  ASSUME Inv, HangUp \/ UNCHANGED peers
  PROVE  Inv'
<1>1. CASE HangUp
  BY <1>1, HangUpTyped, HangUpKept, HangUpInStep DEF Inv
<1>2. CASE UNCHANGED peers
  <2>1. Typed'
    BY <1>2 DEF Inv, Typed, Fields, Wires, Counts, peers
  <2>2. Kept'
    BY <1>2 DEF Inv, Kept, Honest, WiresKept, Carries, KeptA, KeptB, peers
  <2> QED BY <1>2, <2>1, <2>2, HangUpInStep DEF Inv
<1> QED BY <1>1, <1>2

LEMMA StepInv == ASSUME Bounded, Inv, [ShakeNext]_peers PROVE Inv'
<1>1. CASE Dial
  <2>1. Typed'
    BY <1>1, DialTyped DEF Inv
  <2> QED BY <1>1, <2>1, DialKept, DialInA, DialInB, DialPlain DEF Inv
<1>2. CASE ReadPublic
  <2>1. Typed'
    BY <1>2, ReadPublicTyped DEF Inv
  <2> QED BY <1>2, <2>1, ReadPublicKept, ReadPublicInA, ReadPublicInB, MidwayA DEF Inv
<1>3. CASE ScanA
  <2>1. Typed'
    BY <1>3, ScanATyped DEF Inv
  <2> QED BY <1>3, <2>1, ScanAKept, ScanAInA, ScanAInB, MidwayA DEF Inv
<1>4. CASE ReadChosen
  <2>1. Typed'
    BY <1>4, ReadChosenTyped DEF Inv
  <2> QED BY <1>4, <2>1, ReadChosenKept, ReadChosenInA, ReadChosenInB, MidwayA DEF Inv
<1>5. CASE ReadLenA
  <2>1. Typed'
    BY <1>5, ReadLenATyped DEF Inv
  <2> QED BY <1>5, <2>1, ReadLenAKept, ReadLenAInA, ReadLenAInB, MidwayA DEF Inv
<1>6. CASE ReadPadA
  <2>1. Typed'
    BY <1>6, ReadPadATyped DEF Inv
  <2> QED BY <1>6, <2>1, ReadPadAKept, ReadPadAInA, ReadPadAInB, MidwayA DEF Inv
<1>7. CASE SettleA
  <2>1. Typed'
    BY <1>7, SettleATyped DEF Inv
  <2> QED BY <1>7, <2>1, SettleAKept, SettleAInA, SettleAInB, MidwayA DEF Inv
<1>8. CASE EndedA
  <2>1. Typed'
    BY <1>8, EndedATyped DEF Inv
  <2> QED BY <1>8, <2>1, EndedAKept, EndedAInA, EndedAInB, MidwayA DEF Inv
<1>9. CASE SayA
  <2>1. Typed'
    BY <1>9, SayATyped DEF Inv
  <2> QED BY <1>9, <2>1, SayAKept, SayAInA, SayAInB, SayAPlain DEF Inv
<1>10. CASE HearA
  <2>1. Typed'
    BY <1>10, HearATyped DEF Inv
  <2> QED BY <1>10, <2>1, HearAKept, HearAInA, HearAInB, HearAPlain DEF Inv
<1>11. CASE First
  <2>1. Typed'
    BY <1>11, FirstTyped DEF Inv
  <2> QED BY <1>11, <2>1, FirstKept, FirstInA, FirstInB, FirstPlain DEF Inv
<1>12. CASE ScanB
  <2>1. Typed'
    BY <1>12, ScanBTyped DEF Inv
  <2> QED BY <1>12, <2>1, ScanBKept, ScanBInA, ScanBInB, MidwayB DEF Inv
<1>13. CASE ReadNamed
  <2>1. Typed'
    BY <1>13, ReadNamedTyped DEF Inv
  <2> QED BY <1>13, <2>1, ReadNamedKept, ReadNamedInA, ReadNamedInB, MidwayB DEF Inv
<1>14. CASE ReadVC
  <2>1. Typed'
    BY <1>14, ReadVCTyped DEF Inv
  <2> QED BY <1>14, <2>1, ReadVCKept, ReadVCInA, ReadVCInB, MidwayB DEF Inv
<1>15. CASE ReadOffered
  <2>1. Typed'
    BY <1>15, ReadOfferedTyped DEF Inv
  <2> QED BY <1>15, <2>1, ReadOfferedKept, ReadOfferedInA, ReadOfferedInB, MidwayB DEF Inv
<1>16. CASE ReadLenB
  <2>1. Typed'
    BY <1>16, ReadLenBTyped DEF Inv
  <2> QED BY <1>16, <2>1, ReadLenBKept, ReadLenBInA, ReadLenBInB, MidwayB DEF Inv
<1>17. CASE ReadPadB
  <2>1. Typed'
    BY <1>17, ReadPadBTyped DEF Inv
  <2> QED BY <1>17, <2>1, ReadPadBKept, ReadPadBInA, ReadPadBInB, MidwayB DEF Inv
<1>18. CASE Choose
  <2>1. Typed'
    BY <1>18, ChooseTyped DEF Inv
  <2> QED BY <1>18, <2>1, ChooseKept, ChooseInA, ChooseInB, MidwayB DEF Inv
<1>19. CASE Answer
  <2>1. Typed'
    BY <1>19, AnswerTyped DEF Inv
  <2> QED BY <1>19, <2>1, AnswerKept, AnswerInA, AnswerInB, MidwayB DEF Inv
<1>20. CASE EndedB
  <2>1. Typed'
    BY <1>20, EndedBTyped DEF Inv
  <2> QED BY <1>20, <2>1, EndedBKept, EndedBInA, EndedBInB, EndedBPlain DEF Inv
<1>21. CASE SayB
  <2>1. Typed'
    BY <1>21, SayBTyped DEF Inv
  <2> QED BY <1>21, <2>1, SayBKept, SayBInA, SayBInB, SayBPlain DEF Inv
<1>22. CASE HearB
  <2>1. Typed'
    BY <1>22, HearBTyped DEF Inv
  <2> QED BY <1>22, <2>1, HearBKept, HearBInA, HearBInB, HearBPlain DEF Inv
<1>23. CASE HangUp \/ UNCHANGED peers
  BY <1>23, StillInv
<1> QED
  BY <1>1, <1>2, <1>3, <1>4, <1>5, <1>6, <1>7, <1>8, <1>9, <1>10, <1>11, <1>12,
     <1>13, <1>14, <1>15, <1>16, <1>17, <1>18, <1>19, <1>20, <1>21, <1>22, <1>23
  DEF ShakeNext, StepA, StepB

(* What it says of the two ends when they have agreed.                     *)
LEMMA InvTyped == ASSUME Bounded, Inv PROVE ShakeTypeOK
<1>1. Typed
  BY DEF Inv
<1>2. a.pc \in {"dial", "public", "scan", "chosen", "len", "pad", "up", "failed"}
  BY <1>1 DEF Typed, Fields, RecA
<1>3. b.pc \in {"first", "scan", "named", "vc", "offered", "len", "pad", "payload", "up",
                "closed"}
  BY <1>1 DEF Typed, Fields, RecB
<1>4. \A e \in {a, b} : e.left \in 0 .. MaxPad + (IF e.pc = "pad" THEN 0 ELSE 1)
  BY <1>1, Numbers DEF Typed, Counts, Bounded
<1>5. /\ \A i \in 1 .. Len(ab) : ab[i] \in Marks
      /\ \A i \in 1 .. Len(ba) : ba[i] \in Marks
  BY <1>1, ElementOfSeq DEF Typed, Wires
<1> QED BY <1>1, <1>2, <1>3, <1>4, <1>5 DEF ShakeTypeOK, Typed, Fields

LEMMA InvUnderstood == ASSUME Inv PROVE Understood
<1>1. CASE ~a.encrypting /\ a.pc # "dial"
  BY <1>1 DEF Inv, Plain, InPlain, Understood
<1>2. CASE a.encrypting \/ a.pc = "dial"
  <2>1. a.pc = "up" => heardA \in {<<>>, <<Part("hello", 0)>>}
    BY <1>2 DEF Inv, InStepB, Talking, FromB, ReaderA
  <2>2. b.pc = "up" => heardB \in {<<Part("greeting", 0)>>,
                                   <<Part("greeting", 0), Part("hello", 0)>>}
    BY <1>2 DEF Inv, InStepA, FromA, ReaderB
  <2> QED BY <2>1, <2>2 DEF Understood
<1> QED BY <1>1, <1>2

LEMMA InvKept == ASSUME Inv PROVE RequiredIsKept
<1> SUFFICES ASSUME Honest
             PROVE  /\ a.pc = "up" /\ policy["a"] = "require" => a.on
                    /\ b.pc = "up" /\ policy["b"] = "require" => b.on
  BY DEF RequiredIsKept, Honest
<1>1. KeptA /\ KeptB
  BY DEF Inv, Kept
<1>2. policy["b"] = "require" => ~AllowsPlaintext(policy["b"])
  BY DEF AllowsPlaintext
<1> QED BY <1>1, <1>2 DEF KeptA, KeptB

(* What is read after the handshake is what the other end said, from its   *)
(* first byte, for every length of the paddings and whatever other clients *)
(* do to agree; and between two like this one, who demands encryption has  *)
(* it (handshake.rs scan_for, settle; encryption.rs Require).              *)
THEOREM EndsAgree == ShakeSpec => []Agreement
<1>1. Bounded
  BY HandshakeAssumption
<1>2. ShakeInit => Inv
  BY <1>1, InitInv
<1>3. Inv /\ [ShakeNext]_peers => Inv'
  BY <1>1, StepInv
<1>4. Inv => Agreement
  BY <1>1, InvTyped, InvUnderstood, InvKept DEF Agreement
<1> QED BY <1>2, <1>3, <1>4, PTL DEF ShakeSpec

----------------------------------------------------------------------------
(* The list of files in the panel, for any torrents in the session.        *)

EntryOf(t) == [ticks : [At(t) -> BOOLEAN], first : [At(t) -> BOOLEAN], done : SUBSET At(t)]

Messages ==
  {c \in [do : {"wanted", "first", "watch"}, id : Torrents, files : SUBSET Nat, on : BOOLEAN] :
     /\ c.files \subseteq At(c.id)
     /\ c.do = "first" => \E f \in At(c.id) : c.files = {f}}

EngineTyped ==
  /\ world \in Habits /\ watching \in Torrents
  /\ truth = [t \in Torrents |-> truth[t]] /\ \A t \in Torrents : truth[t] \in EntryOf(t)
  /\ inbox \in Seq(Messages)
  /\ latest # <<>> => latest[1].id \in Torrents /\ latest[1].of \in EntryOf(latest[1].id)

(* Whose list is drawn, and that every row of a file has one of its files. *)
ListTyped ==
  /\ shown \in Torrents \cup {0}
  /\ shown = 0 => ticks = <<>> /\ pins = <<>> /\ rows = <<>>
  /\ shown # 0 => ticks \in [At(shown) -> BOOLEAN] /\ pins \in [At(shown) -> BOOLEAN]
  /\ \A i \in DOMAIN rows : rows[i].at = 0 \/ rows[i].at \in At(shown)

(* A pinned file is ticked, in the session and in the snapshot.            *)
PinsAreTicked == \A t \in Torrents : \A f \in At(t) : truth[t].first[f] => truth[t].ticks[f]

RowsAgree ==
  \A i \in DOMAIN rows : rows[i].at # 0 =>
    rows[i].ticked = Tick(ticks[rows[i].at]) /\ rows[i].first = pins[rows[i].at]

(* A list that was drawn last is the snapshot's, and no press is waited    *)
(* for: a press drops "drawn", and only a newer snapshot or another        *)
(* torrent brings it back.                                                 *)
DrawnIsLatest ==
  /\ caught \in {"drawn", "published", "pressed"}
  /\ guess \in BOOLEAN /\ caught # "pressed" => ~guess
  /\ caught = "drawn" /\ shown # 0 =>
       /\ latest # <<>> /\ latest[1].id = shown
       /\ ticks = latest[1].of.ticks /\ pins = latest[1].of.first
       /\ RowsAgree

PanelInv == EngineTyped /\ ListTyped /\ PinsAreTicked /\ PinsHoldBack /\ DrawnIsLatest

(* The files of a torrent are counted from one, and so are torrents.       *)
LEMMA CountedFromOne ==
  ASSUME IsLibrary
  PROVE  /\ 1 \in Torrents /\ 0 \notin Torrents
         /\ \A t \in Torrents : At(t) \subseteq Nat /\ 0 \notin At(t)
<1>1. Len(Library) \in Nat /\ Torrents = 1 .. Len(Library) /\ Len(Library) # 0
  BY EmptySeq DEF IsLibrary, Torrents
<1>2. \A t \in Torrents : Library[t] \in Seq(Seq(Seq(Nat)))
  BY <1>1 DEF IsLibrary, Torrents
<1>3. \A t \in Torrents : At(t) = 1 .. Len(Library[t]) /\ Len(Library[t]) \in Nat
  BY <1>2 DEF At
<1> QED BY <1>1, <1>3

LEMMA InitPanel ==
  ASSUME IsLibrary, PanelInit
  PROVE  PanelInv
<1>1. \A t \in Torrents : Fresh(t) \in EntryOf(t) /\ \A f \in At(t) : ~Fresh(t).first[f]
  BY DEF Fresh, EntryOf
<1>2. EngineTyped
  BY <1>1, CountedFromOne DEF PanelInit, EngineTyped
<1>3. ListTyped
  BY DEF PanelInit, ListTyped
<1>4. PinsAreTicked
  BY <1>1 DEF PanelInit, PinsAreTicked
<1>5. PinsHoldBack /\ DrawnIsLatest
  BY DEF PanelInit, PinsHoldBack, DrawnIsLatest
<1> QED BY <1>2, <1>3, <1>4, <1>5 DEF PanelInv

----------------------------------------------------------------------------
(* The engine's steps.                                                     *)

LEMMA SetWantedTyped ==
  ASSUME NEW t, NEW e \in EntryOf(t), \A f \in At(t) : e.first[f] => e.ticks[f],
         NEW files, NEW on \in BOOLEAN
  PROVE  /\ SetWanted(e, files, on) \in EntryOf(t)
         /\ \A f \in At(t) : SetWanted(e, files, on).first[f] => SetWanted(e, files, on).ticks[f]
<1> DEFINE next == [f \in DOMAIN e.ticks |-> IF f \in files THEN on ELSE e.ticks[f]]
           held == [f \in DOMAIN next |-> e.first[f] /\ next[f]]
<1>1. e.ticks \in [At(t) -> BOOLEAN] /\ e.first \in [At(t) -> BOOLEAN]
  BY DEF EntryOf
<1>2. next \in [At(t) -> BOOLEAN]
  BY <1>1
<1>3. held \in [At(t) -> BOOLEAN] /\ \A f \in At(t) : held[f] => next[f]
  BY <1>1, <1>2
<1>4. SetWanted(e, files, on) = [e EXCEPT !.ticks = next, !.first = held]
  BY DEF SetWanted
<1> HIDE DEF next, held
<1>5. [e EXCEPT !.ticks = next, !.first = held] \in EntryOf(t)
  BY <1>2, <1>3 DEF EntryOf
<1>6. /\ [e EXCEPT !.ticks = next, !.first = held].ticks = next
      /\ [e EXCEPT !.ticks = next, !.first = held].first = held
  BY DEF EntryOf
<1> QED BY <1>3, <1>4, <1>5, <1>6

LEMMA SetFirstTyped ==
  ASSUME NEW t, NEW e \in EntryOf(t), \A f \in At(t) : e.first[f] => e.ticks[f],
         NEW g \in At(t), NEW on \in BOOLEAN
  PROVE  /\ SetFirst(e, g, on) \in EntryOf(t)
         /\ \A f \in At(t) : SetFirst(e, g, on).first[f] => SetFirst(e, g, on).ticks[f]
<1>1. e.ticks \in [At(t) -> BOOLEAN] /\ e.first \in [At(t) -> BOOLEAN]
  BY DEF EntryOf
<1>2. CASE on /\ ~e.ticks[g]
  BY <1>2 DEF SetFirst
<1>3. CASE ~(on /\ ~e.ticks[g])
  <2> DEFINE held == [e.first EXCEPT ![g] = on]
  <2>1. held \in [At(t) -> BOOLEAN] /\ \A f \in At(t) : held[f] => e.ticks[f]
    BY <1>1, <1>3
  <2>2. SetFirst(e, g, on) = [e EXCEPT !.first = held]
    BY <1>3 DEF SetFirst
  <2> HIDE DEF held
  <2>3. [e EXCEPT !.first = held] \in EntryOf(t)
    BY <2>1 DEF EntryOf
  <2>4. [e EXCEPT !.first = held].ticks = e.ticks /\ [e EXCEPT !.first = held].first = held
    BY DEF EntryOf
  <2> QED BY <2>1, <2>2, <2>3, <2>4
<1> QED BY <1>2, <1>3

(* What a step does that leaves the list alone.                            *)
LEMMA ListIsLeft ==
  ASSUME PanelInv, UNCHANGED <<models, latest>>
  PROVE  ListTyped' /\ PinsHoldBack' /\ DrawnIsLatest'
<1>1. UNCHANGED <<shown, ticks, pins, shut, rows, guess, stale, caught, latest>>
  BY DEF models
<1>2. ListTyped'
  BY <1>1 DEF PanelInv, ListTyped
<1>3. PinsHoldBack'
  BY <1>1 DEF PanelInv, PinsHoldBack
<1>4. DrawnIsLatest'
  BY <1>1 DEF PanelInv, DrawnIsLatest, RowsAgree
<1> QED BY <1>2, <1>3, <1>4

LEMMA EntryChanges ==
  ASSUME EngineTyped, PinsAreTicked, NEW t \in Torrents, NEW e \in EntryOf(t),
         \A f \in At(t) : e.first[f] => e.ticks[f], truth' = [truth EXCEPT ![t] = e]
  PROVE  /\ truth' = [u \in Torrents |-> truth'[u]] /\ \A u \in Torrents : truth'[u] \in EntryOf(u)
         /\ PinsAreTicked'
<1>1. DOMAIN truth = Torrents
  BY DEF EngineTyped
<1>2. truth'[t] = e /\ \A u \in Torrents : u # t => truth'[u] = truth[u]
  BY <1>1
<1>3. truth' = [u \in Torrents |-> truth'[u]]
  BY <1>1
<1>4. \A u \in Torrents : truth'[u] \in EntryOf(u)
  BY <1>2 DEF EngineTyped
<1>5. \A u \in Torrents : \A f \in At(u) : truth'[u].first[f] => truth'[u].ticks[f]
  BY <1>2 DEF PinsAreTicked
<1>6. PinsAreTicked'
  BY <1>5 DEF PinsAreTicked
<1> QED BY <1>3, <1>4, <1>6

LEMMA MinOfOne == ASSUME NEW f \in Nat PROVE Min({f}) = f
BY DEF Min

LEMMA TakePanel ==
  ASSUME IsLibrary, PanelInv, Take
  PROVE  PanelInv'
<1> DEFINE c == Head(inbox)
<1>1. EngineTyped /\ PinsAreTicked
  BY DEF PanelInv
<1>2. inbox \in Seq(Messages) /\ inbox # <<>> /\ inbox' = Tail(inbox)
  BY <1>1 DEF EngineTyped, Take
<1>3. c \in Messages /\ inbox' \in Seq(Messages)
  BY <1>2
<1>4. /\ watching' = IF c.do = "watch" THEN c.id ELSE watching
      /\ truth' = CASE c.do = "watch" -> truth
                    [] c.do = "wanted" -> [truth EXCEPT ![c.id] = SetWanted(@, c.files, c.on)]
                    [] c.do = "first" -> [truth EXCEPT ![c.id] = SetFirst(@, Min(c.files), c.on)]
      /\ UNCHANGED <<world, latest, models>>
  BY DEF Take
<1> HIDE DEF c
<1>5. c.id \in Torrents /\ c.on \in BOOLEAN /\ c.do \in {"wanted", "first", "watch"}
  BY <1>3 DEF Messages
<1>6. /\ truth[c.id] \in EntryOf(c.id)
      /\ \A f \in At(c.id) : truth[c.id].first[f] => truth[c.id].ticks[f]
  BY <1>1, <1>5 DEF EngineTyped, PinsAreTicked
<1>7. /\ truth' = [u \in Torrents |-> truth'[u]] /\ \A u \in Torrents : truth'[u] \in EntryOf(u)
      /\ PinsAreTicked'
  <2>1. CASE c.do = "watch"
    <3>1. truth' = truth
      BY <1>4, <2>1
    <3> QED BY <1>1, <3>1 DEF EngineTyped, PinsAreTicked
  <2>2. CASE c.do = "wanted"
    <3> DEFINE e == SetWanted(truth[c.id], c.files, c.on)
    <3>1. truth' = [truth EXCEPT ![c.id] = e]
      BY <1>4, <2>2
    <3>2. e \in EntryOf(c.id) /\ \A f \in At(c.id) : e.first[f] => e.ticks[f]
      BY <1>5, <1>6, SetWantedTyped
    <3> HIDE DEF e
    <3> QED BY <1>1, <1>5, <3>1, <3>2, EntryChanges
  <2>3. CASE c.do = "first"
    <3>1. PICK f \in At(c.id) : c.files = {f}
      BY <1>3, <2>3 DEF Messages
    <3>2. Min(c.files) = f
      BY <1>5, <3>1, CountedFromOne, MinOfOne
    <3> DEFINE e == SetFirst(truth[c.id], f, c.on)
    <3>3. truth' = [truth EXCEPT ![c.id] = e]
      BY <1>4, <2>3, <3>2
    <3>4. e \in EntryOf(c.id) /\ \A g \in At(c.id) : e.first[g] => e.ticks[g]
      BY <1>5, <1>6, SetFirstTyped
    <3> HIDE DEF e
    <3> QED BY <1>1, <1>5, <3>3, <3>4, EntryChanges
  <2> QED BY <1>5, <2>1, <2>2, <2>3
<1>8. EngineTyped'
  BY <1>1, <1>3, <1>4, <1>5, <1>7 DEF EngineTyped
<1>9. ListTyped' /\ PinsHoldBack' /\ DrawnIsLatest'
  BY <1>4, ListIsLeft
<1> QED BY <1>7, <1>8, <1>9 DEF PanelInv

LEMMA ReconciledTyped ==
  ASSUME NEW t, NEW e \in EntryOf(t), \A f \in At(t) : e.first[f] => e.ticks[f]
  PROVE  /\ Reconciled(e) \in EntryOf(t)
         /\ \A f \in At(t) : Reconciled(e).first[f] =>
              Reconciled(e).ticks[f] /\ f \notin Reconciled(e).done
<1> DEFINE held == [f \in DOMAIN e.first |-> e.first[f] /\ f \notin e.done]
<1>1. held \in [At(t) -> BOOLEAN] /\ \A f \in At(t) : held[f] => e.ticks[f] /\ f \notin e.done
  BY DEF EntryOf
<1>2. Reconciled(e) = [e EXCEPT !.first = held]
  BY DEF Reconciled
<1> HIDE DEF held
<1>3. [e EXCEPT !.first = held] \in EntryOf(t)
  BY <1>1 DEF EntryOf
<1>4. /\ [e EXCEPT !.first = held].first = held
      /\ [e EXCEPT !.first = held].ticks = e.ticks
      /\ [e EXCEPT !.first = held].done = e.done
  BY DEF EntryOf
<1> QED BY <1>1, <1>2, <1>3, <1>4

LEMMA PublishPanel ==
  ASSUME PanelInv, Publish
  PROVE  PanelInv'
<1>1. EngineTyped /\ PinsAreTicked /\ ListTyped /\ DrawnIsLatest
  BY DEF PanelInv
<1>2. /\ truth' = [t \in Torrents |-> Reconciled(truth[t])]
      /\ latest' = <<[id |-> watching, of |-> truth'[watching]]>>
      /\ guess' = FALSE /\ caught' = "published"
      /\ UNCHANGED <<world, inbox, watching, shown, ticks, pins, rows>>
  BY DEF Publish
<1>3. \A t \in Torrents : truth[t] \in EntryOf(t) /\ \A f \in At(t) : truth[t].first[f] => truth[t].ticks[f]
  BY <1>1 DEF EngineTyped, PinsAreTicked
<1>4. \A t \in Torrents : /\ truth'[t] \in EntryOf(t)
                          /\ \A f \in At(t) : truth'[t].first[f] => truth'[t].ticks[f] /\ f \notin truth'[t].done
  BY <1>2, <1>3, ReconciledTyped
<1>5. latest'[1].id = watching /\ latest'[1].of = truth'[watching] /\ watching \in Torrents
  BY <1>1, <1>2 DEF EngineTyped
<1>6. EngineTyped'
  BY <1>1, <1>2, <1>4, <1>5 DEF EngineTyped
<1>7. ListTyped'
  BY <1>1, <1>2 DEF ListTyped
<1>8. PinsAreTicked'
  BY <1>4 DEF PinsAreTicked
<1>9. PinsHoldBack'
  <2>1. DOMAIN truth'[watching].first = At(watching)
    BY <1>4, <1>5 DEF EntryOf
  <2> QED BY <1>4, <1>5, <2>1 DEF PinsHoldBack
<1>10. DrawnIsLatest'
  BY <1>2 DEF DrawnIsLatest
<1> QED BY <1>6, <1>7, <1>8, <1>9, <1>10 DEF PanelInv

LEMMA LandPanel ==
  ASSUME PanelInv, NEW t \in Torrents, NEW f \in At(t), Land(t, f)
  PROVE  PanelInv'
<1> DEFINE e == [truth[t] EXCEPT !.done = @ \cup {f}]
<1>1. EngineTyped /\ PinsAreTicked
  BY DEF PanelInv
<1>2. truth' = [truth EXCEPT ![t] = e] /\ UNCHANGED <<world, inbox, watching, latest, models>>
  BY DEF Land
<1>3. truth[t] \in EntryOf(t) /\ \A g \in At(t) : truth[t].first[g] => truth[t].ticks[g]
  BY <1>1 DEF EngineTyped, PinsAreTicked
<1>4. e \in EntryOf(t) /\ \A g \in At(t) : e.first[g] => e.ticks[g]
  BY <1>3 DEF EntryOf
<1> HIDE DEF e
<1>5. /\ truth' = [u \in Torrents |-> truth'[u]] /\ \A u \in Torrents : truth'[u] \in EntryOf(u)
      /\ PinsAreTicked'
  BY <1>1, <1>2, <1>4, EntryChanges
<1>6. EngineTyped'
  BY <1>1, <1>2, <1>5 DEF EngineTyped
<1> QED BY <1>2, <1>5, <1>6, ListIsLeft DEF PanelInv

----------------------------------------------------------------------------
(* Drawing the newest snapshot.                                            *)

(* Every row of a file has one of the torrent's, with its tick and pin.    *)
Shows(list, t, chosen, pinned) ==
  \A i \in DOMAIN list :
    \/ list[i].at = 0
    \/ /\ list[i].at \in At(t)
       /\ list[i].ticked = Tick(chosen[list[i].at])
       /\ list[i].first = pinned[list[i].at]

LEMMA BuiltRows ==
  ASSUME IsLibrary, NEW t \in Torrents, NEW closed,
         NEW chosen, NEW pinned, NEW done
  PROVE  Shows(BuildFiles(t, closed, chosen, pinned, done), t, chosen, pinned)
<1> DEFINE list == [f \in At(t) |-> [at |-> f, path |-> Library[t][f], ticked |-> chosen[f],
                                     first |-> pinned[f], complete |-> f \in done]]
           tree == Tree[t][closed \cap FoldersIn(t)]
           lines == BuildFiles(t, closed, chosen, pinned, done)
<1>1. lines = [i \in DOMAIN tree |-> IF tree[i].at \in At(t) THEN Leaf(list[tree[i].at])
                                     ELSE Sum(list, tree[i].path)]
  BY DEF BuildFiles
<1>2. \A f \in At(t) : /\ Leaf(list[f]).at = f /\ Leaf(list[f]).ticked = Tick(chosen[f])
                       /\ Leaf(list[f]).first = pinned[f]
  BY DEF Leaf
<1>3. \A path : Sum(list, path).at = 0
  BY DEF Sum
<1> HIDE DEF list, tree, lines
<1>4. \A i \in DOMAIN lines :
        \/ lines[i].at = 0
        \/ /\ lines[i].at \in At(t)
           /\ lines[i].ticked = Tick(chosen[lines[i].at])
           /\ lines[i].first = pinned[lines[i].at]
  BY <1>1, <1>2, <1>3
<1> QED BY <1>4 DEF lines, Shows

LEMMA RedrawPanel ==
  ASSUME IsLibrary, PanelInv, NEW closed, Redraw(closed),
         UNCHANGED <<truth, latest>>
  PROVE  ListTyped' /\ PinsAreTicked' /\ PinsHoldBack' /\ DrawnIsLatest'
<1>1. EngineTyped /\ PinsAreTicked /\ ListTyped /\ DrawnIsLatest /\ PinsHoldBack
  BY DEF PanelInv
<1>2. PinsAreTicked' /\ PinsHoldBack'
  BY <1>1 DEF PinsAreTicked, PinsHoldBack
<1>3. CASE latest = <<>>
  <2>1. UNCHANGED <<shown, ticks, pins, rows, guess, caught, latest>>
    BY <1>3 DEF Redraw
  <2> QED BY <1>1, <1>2, <2>1 DEF ListTyped, DrawnIsLatest, RowsAgree
<1>4. CASE latest # <<>>
  <2> DEFINE d == latest[1]
             kept == InFlight(d)
             chosen == IF kept THEN ticks ELSE d.of.ticks
             pinned == IF kept THEN pins ELSE d.of.first
  <2>1. /\ shown' = d.id /\ guess' = kept /\ ticks' = chosen /\ pins' = pinned
        /\ rows' = BuildFiles(d.id, closed, chosen, pinned, d.of.done)
        /\ caught' = IF caught = "published" \/ shown # d.id THEN "drawn" ELSE caught
    BY <1>4 DEF Redraw
  <2>2. d.id \in Torrents /\ d.of \in EntryOf(d.id) /\ d.id # 0
    BY <1>1, <1>4, CountedFromOne DEF EngineTyped
  <2>3. kept \in BOOLEAN /\ (kept => shown = d.id /\ guess)
    BY DEF InFlight
  <2>4. chosen \in [At(d.id) -> BOOLEAN] /\ pinned \in [At(d.id) -> BOOLEAN]
    BY <1>1, <2>2, <2>3 DEF ListTyped, EntryOf
  <2>5. Shows(rows', d.id, ticks', pins')
    BY <2>1, <2>2, BuiltRows
  <2>6. ListTyped'
    <3>1. shown' \in Torrents /\ shown' # 0
      BY <2>1, <2>2
    <3>2. ticks' \in [At(shown') -> BOOLEAN] /\ pins' \in [At(shown') -> BOOLEAN]
      BY <2>1, <2>4
    <3>3. \A i \in DOMAIN rows' : rows'[i].at = 0 \/ rows'[i].at \in At(shown')
      <4>1. shown' = d.id
        BY <2>1
      <4> HIDE DEF d
      <4>2. \A i \in DOMAIN rows' : rows'[i].at = 0 \/ rows'[i].at \in At(d.id)
        BY <2>5 DEF Shows
      <4> QED BY <4>1, <4>2
    <3> QED BY <3>1, <3>2, <3>3 DEF ListTyped
  <2>7. caught' = "drawn" => ~kept
    BY <1>1, <2>1, <2>3 DEF DrawnIsLatest
  <2>8. caught' # "pressed" => caught' = "drawn"
    BY <1>1, <2>1 DEF DrawnIsLatest
  <2>9. RowsAgree'
    BY <2>5 DEF RowsAgree, Shows
  <2>10. DrawnIsLatest'
    BY <1>4, <2>1, <2>3, <2>7, <2>8, <2>9 DEF DrawnIsLatest
  <2> QED BY <1>2, <2>6, <2>10
<1> QED BY <1>3, <1>4

----------------------------------------------------------------------------
(* The user's steps.                                                       *)

LEMMA SendTyped ==
  ASSUME inbox \in Seq(Messages), NEW c \in Messages, Send(c)
  PROVE  inbox' \in Seq(Messages)
BY DEF Send

LEMMA WantedIsMessage ==
  ASSUME IsLibrary, NEW t \in Torrents, NEW files \in SUBSET At(t), NEW on \in BOOLEAN
  PROVE  Command("wanted", t, files, on) \in Messages
<1>1. files \in SUBSET Nat
  BY CountedFromOne
<1> QED BY <1>1 DEF Command, Messages

LEMMA FirstIsMessage ==
  ASSUME IsLibrary, NEW t \in Torrents, NEW f \in At(t), NEW on \in BOOLEAN
  PROVE  Command("first", t, {f}, on) \in Messages
<1>1. {f} \in SUBSET Nat
  BY CountedFromOne
<1> QED BY <1>1 DEF Command, Messages

LEMMA WatchIsMessage ==
  ASSUME NEW t \in Torrents
  PROVE  Command("watch", t, {}, TRUE) \in Messages
BY DEF Command, Messages

LEMMA SetTicksPanel ==
  ASSUME IsLibrary, PanelInv, NEW files \in SUBSET DOMAIN ticks, NEW on \in BOOLEAN, shown # 0,
         SetTicks(files, on), UNCHANGED <<world, truth, watching, latest>>
  PROVE  PanelInv'
<1>1. EngineTyped /\ PinsAreTicked /\ ListTyped /\ PinsHoldBack
  BY DEF PanelInv
<1>2. /\ guess' = TRUE /\ caught' = "pressed" /\ ticks' = Ticked(files, on)
      /\ MarkTicks(ticks') /\ Send(Command("wanted", shown, files, on))
      /\ UNCHANGED <<shown, pins>>
  BY DEF SetTicks
<1>3. shown \in Torrents /\ ticks \in [At(shown) -> BOOLEAN]
  BY <1>1 DEF ListTyped
<1>4. inbox' \in Seq(Messages)
  BY <1>1, <1>2, <1>3, WantedIsMessage, SendTyped DEF EngineTyped
<1>5. ticks' \in [At(shown) -> BOOLEAN]
  BY <1>2, <1>3 DEF Ticked
<1>6. \A i \in DOMAIN rows' : i \in DOMAIN rows /\ rows'[i].at = rows[i].at
  <2>1. rows' = [i \in DOMAIN rows |->
                  IF rows[i].at = 0 THEN rows[i]
                  ELSE [rows[i] EXCEPT !.ticked = Tick(ticks'[rows[i].at])]]
    BY <1>2 DEF MarkTicks
  <2>2. \A i \in DOMAIN rows : [rows[i] EXCEPT !.ticked = Tick(ticks'[rows[i].at])].at = rows[i].at
    OBVIOUS
  <2> QED BY <2>1, <2>2
<1>7. EngineTyped'
  BY <1>1, <1>4 DEF EngineTyped
<1>8. ListTyped'
  BY <1>1, <1>2, <1>3, <1>5, <1>6 DEF ListTyped
<1>9. PinsAreTicked' /\ PinsHoldBack'
  BY <1>1 DEF PinsAreTicked, PinsHoldBack
<1>10. DrawnIsLatest'
  BY <1>2 DEF DrawnIsLatest
<1> QED BY <1>7, <1>8, <1>9, <1>10 DEF PanelInv

LEMMA ToggleFirstPanel ==
  ASSUME IsLibrary, PanelInv, NEW f, shown # 0,
         ToggleFirst(f), UNCHANGED <<world, truth, watching, latest>>
  PROVE  PanelInv'
<1>1. EngineTyped /\ PinsAreTicked /\ ListTyped /\ PinsHoldBack
  BY DEF PanelInv
<1>2. /\ f \in DOMAIN pins /\ guess' = TRUE /\ caught' = "pressed"
      /\ pins' = [pins EXCEPT ![f] = ~@]
      /\ rows' = IF f \in DOMAIN rows THEN [rows EXCEPT ![f].first = pins'[f]] ELSE rows
      /\ Send(Command("first", shown, {f}, pins'[f]))
      /\ UNCHANGED <<shown, ticks>>
  BY DEF ToggleFirst
<1>3. shown \in Torrents /\ pins \in [At(shown) -> BOOLEAN] /\ f \in At(shown)
  BY <1>1, <1>2 DEF ListTyped
<1>4. pins' \in [At(shown) -> BOOLEAN] /\ pins'[f] \in BOOLEAN
  BY <1>2, <1>3
<1>5. inbox' \in Seq(Messages)
  BY <1>1, <1>2, <1>3, <1>4, FirstIsMessage, SendTyped DEF EngineTyped
<1>6. \A i \in DOMAIN rows' : i \in DOMAIN rows /\ rows'[i].at = rows[i].at
  BY <1>2
<1>7. EngineTyped'
  BY <1>1, <1>5 DEF EngineTyped
<1>8. ListTyped'
  BY <1>1, <1>2, <1>3, <1>4, <1>6 DEF ListTyped
<1>9. PinsAreTicked' /\ PinsHoldBack'
  BY <1>1 DEF PinsAreTicked, PinsHoldBack
<1>10. DrawnIsLatest'
  BY <1>2 DEF DrawnIsLatest
<1> QED BY <1>7, <1>8, <1>9, <1>10 DEF PanelInv

LEMMA ToggleFilePanel ==
  ASSUME IsLibrary, PanelInv, NEW f, ToggleFile(f), UNCHANGED <<world, truth, watching, latest>>
  PROVE  PanelInv'
<1>1. f \in DOMAIN ticks /\ SetTicks({f}, ~ticks[f])
  BY DEF ToggleFile
<1>2. ListTyped
  BY DEF PanelInv
<1>3. shown # 0
  BY <1>1, <1>2 DEF ListTyped
<1> DEFINE on == ~ticks[f]
<1>4. {f} \in SUBSET DOMAIN ticks /\ on \in BOOLEAN /\ SetTicks({f}, on)
  BY <1>1
<1> HIDE DEF on
<1> QED BY <1>3, <1>4, SetTicksPanel

(* A press changes the list as its kind does, or leaves it alone.          *)
LEMMA PressPanel ==
  ASSUME IsLibrary, PanelInv, Press
  PROVE  PanelInv'
<1>1. EngineTyped /\ ListTyped /\ PinsAreTicked
  BY DEF PanelInv
<1>2. ASSUME NEW i \in DOMAIN rows
      PROVE  shown # 0
  BY <1>1, <1>2 DEF ListTyped
<1>3. ASSUME UNCHANGED <<world, truth, watching, latest, models>>, inbox' \in Seq(Messages)
      PROVE  PanelInv'
  <2>1. EngineTyped'
    BY <1>1, <1>3 DEF EngineTyped
  <2>2. PinsAreTicked'
    BY <1>1, <1>3 DEF PinsAreTicked
  <2> QED BY <1>3, <2>1, <2>2, ListIsLeft DEF PanelInv
<1>4. ASSUME UNCHANGED <<world, truth, watching, latest, models, inbox>>
      PROVE  PanelInv'
  BY <1>1, <1>3, <1>4 DEF EngineTyped
<1>5. ASSUME NEW i \in DOMAIN rows, PressTick(i)
      PROVE  PanelInv'
  BY <1>5, ToggleFilePanel DEF PressTick, Presses
<1>6. ASSUME NEW i \in DOMAIN rows, PressPin(i)
      PROVE  PanelInv'
  BY <1>2, <1>6, ToggleFirstPanel DEF PressPin, Presses
<1>7. ASSUME NEW i \in DOMAIN rows, PressFolderTick(i)
      PROVE  PanelInv'
  <2> DEFINE under == FilesUnder(rows[i].path)
             on == \E f \in under : ~ticks[f]
  <2>1. SetTicks(under, on) /\ UNCHANGED <<world, truth, watching, latest>>
    BY <1>7 DEF PressFolderTick, Presses
  <2>2. under \subseteq DOMAIN ticks /\ on \in BOOLEAN
    BY DEF FilesUnder
  <2> HIDE DEF under, on
  <2> QED BY <1>2, <1>7, <2>1, <2>2, SetTicksPanel
<1>8. ASSUME NEW i \in DOMAIN rows, PressChevron(i)
      PROVE  PanelInv'
  <2>1. Redraw(shut') /\ UNCHANGED <<world, truth, watching, latest, inbox>>
    BY <1>8 DEF PressChevron, Presses
  <2>2. ListTyped' /\ PinsAreTicked' /\ PinsHoldBack' /\ DrawnIsLatest'
    BY <2>1, RedrawPanel
  <2>3. EngineTyped'
    BY <1>1, <2>1 DEF EngineTyped
  <2> QED BY <2>2, <2>3 DEF PanelInv
<1>9. ASSUME NEW i \in DOMAIN rows, DoubleClick(i) \/ OpenMenu(i)
      PROVE  PanelInv'
  BY <1>4, <1>9 DEF DoubleClick, OpenMenu, Opens, OpenFile
<1>10. ASSUME NEW on \in BOOLEAN, PressAll(on)
       PROVE  PanelInv'
  <2>1. SetTicks(DOMAIN ticks, on) /\ UNCHANGED <<world, truth, watching, latest>> /\ shown # 0
    BY <1>10 DEF PressAll, Presses
  <2> QED BY <2>1, SetTicksPanel
<1>11. ASSUME NEW t \in Torrents, Select(t)
       PROVE  PanelInv'
  <2>1. Send(Command("watch", t, {}, TRUE)) /\ UNCHANGED <<world, truth, watching, latest, models>>
    BY <1>11 DEF Select, Presses
  <2>2. inbox' \in Seq(Messages)
    BY <1>1, <2>1, WatchIsMessage, SendTyped DEF EngineTyped
  <2> QED BY <1>3, <2>1, <2>2
<1>12. CASE MenuOpens \/ MenuPlays
  BY <1>4, <1>12 DEF MenuOpens, MenuPlays, Opens, OpenFile, PlayFile
<1>13. CASE MenuTicks
  BY <1>13, ToggleFilePanel DEF MenuTicks, Presses
<1> QED BY <1>5, <1>6, <1>7, <1>8, <1>9, <1>10, <1>11, <1>12, <1>13 DEF Press

LEMMA StepPanel ==
  ASSUME IsLibrary, PanelInv, [PanelNext]_panelVars
  PROVE  PanelInv'
<1>1. CASE Draw
  <2>1. Redraw(shut) /\ UNCHANGED <<world, truth, inbox, watching, latest>>
    BY <1>1 DEF Draw
  <2>2. ListTyped' /\ PinsAreTicked' /\ PinsHoldBack' /\ DrawnIsLatest'
    BY <2>1, RedrawPanel
  <2>3. EngineTyped'
    BY <2>1 DEF PanelInv, EngineTyped
  <2> QED BY <2>2, <2>3 DEF PanelInv
<1>2. CASE UNCHANGED panelVars
  <2>1. UNCHANGED <<world, truth, inbox, watching, latest, models>>
    BY <1>2 DEF panelVars
  <2>2. EngineTyped' /\ PinsAreTicked'
    BY <2>1 DEF PanelInv, EngineTyped, PinsAreTicked
  <2> QED BY <2>1, <2>2, ListIsLeft DEF PanelInv
<1> QED BY <1>1, <1>2, TakePanel, PublishPanel, PressPanel, LandPanel DEF PanelNext

LEMMA PanelAlways == ASSUME IsLibrary PROVE PanelSpec => []PanelInv
BY InitPanel, StepPanel, PTL DEF PanelSpec

(* A list that is drawn is the truth, once the commands are carried out:   *)
(* for any number of torrents, files and presses, of every kind.           *)
THEOREM ListIsTrue == ASSUME IsLibrary PROVE PanelSpec => [](PanelIsTruth /\ PinsHoldBack)
<1>1. ASSUME PanelInv
      PROVE  PanelIsTruth /\ PinsHoldBack
  <2>1. ASSUME caught = "drawn", shown # 0, latest = <<[id |-> shown, of |-> truth[shown]]>>
        PROVE  /\ ticks = truth[shown].ticks /\ pins = truth[shown].first
               /\ \A i \in DOMAIN rows : rows[i].at # 0 =>
                    rows[i].ticked = Tick(ticks[rows[i].at]) /\ rows[i].first = pins[rows[i].at]
    BY <1>1, <2>1 DEF PanelInv, DrawnIsLatest, RowsAgree
  <2> QED BY <1>1, <2>1 DEF PanelIsTruth, PanelInv
<1> QED BY <1>1, PanelAlways, PTL

----------------------------------------------------------------------------
(* What a player is given.                                                 *)

(* The menu keeps the index of a file and not the torrent, so the panel    *)
(* may not move to another torrent under it.                               *)
NoSwitchUnderMenu == \A w \in Habits : ~({"menu", "switches"} \subseteq w)

Watched(q) == \E k \in DOMAIN q : q[k].do = "watch"

(* What a step may do to the torrent shown, to the menu and to what was    *)
(* opened.                                                                 *)
PanelMoves ==
  /\ world' = world
  /\ shown' = shown \/ (latest # <<>> /\ shown' = latest[1].id)
  /\ latest' = latest \/ latest'[1].id = watching
  /\ watching' = watching \/ Watched(inbox)
  /\ Watched(inbox') => Watched(inbox) \/ "switches" \in world
  /\ \/ menu' \in {menu, Nothing}
     \/ /\ "menu" \in world /\ shown' = shown /\ shown # 0
        /\ \E f \in At(shown) : menu' = Here(f)
  /\ \/ opened' = opened \/ opened'.how # "play"
     \/ /\ menu # Nothing
        /\ opened'.asked = menu
        /\ opened'.got = IF menu.at \in At(shown) THEN Here(menu.at) ELSE Nothing

LEMMA SentOrNot ==
  ASSUME inbox \in Seq(Messages), NEW c, Send(c), c.do # "watch"
  PROVE  Watched(inbox') => Watched(inbox)
<1>1. inbox' = Append(inbox, c) /\ Len(inbox) \in Nat /\ DOMAIN inbox = 1 .. Len(inbox)
  BY DEF Send
<1>2. DOMAIN inbox' = 1 .. Len(inbox) + 1 /\ inbox'[Len(inbox) + 1] = c
  BY <1>1
<1>3. \A k \in 1 .. Len(inbox) : inbox'[k] = inbox[k]
  BY <1>1
<1>4. ASSUME NEW k \in DOMAIN inbox', inbox'[k].do = "watch"
      PROVE  k \in DOMAIN inbox /\ inbox[k].do = "watch"
  BY <1>1, <1>2, <1>3, <1>4
<1> QED BY <1>4 DEF Watched

LEMMA SetTicksMoves ==
  ASSUME PanelInv, NEW files, NEW on, SetTicks(files, on),
         UNCHANGED <<world, watching, latest>>, menu' \in {menu, Nothing}, opened' = Unopened
  PROVE  PanelMoves
<1>1. inbox \in Seq(Messages)
  BY DEF PanelInv, EngineTyped
<1>2. UNCHANGED shown /\ Send(Command("wanted", shown, files, on))
  BY DEF SetTicks
<1>3. Command("wanted", shown, files, on).do # "watch"
  BY DEF Command
<1>4. Watched(inbox') => Watched(inbox)
  BY <1>1, <1>2, <1>3, SentOrNot
<1>5. opened'.how # "play"
  BY DEF Unopened
<1> QED BY <1>2, <1>4, <1>5 DEF PanelMoves

LEMMA ToggleFirstMoves ==
  ASSUME PanelInv, NEW f, ToggleFirst(f),
         UNCHANGED <<world, watching, latest, menu>>, opened' = Unopened
  PROVE  PanelMoves
<1>1. inbox \in Seq(Messages)
  BY DEF PanelInv, EngineTyped
<1>2. UNCHANGED shown /\ Send(Command("first", shown, {f}, pins'[f]))
  BY DEF ToggleFirst
<1>3. Command("first", shown, {f}, pins'[f]).do # "watch"
  BY DEF Command
<1>4. Watched(inbox') => Watched(inbox)
  BY <1>1, <1>2, <1>3, SentOrNot
<1>5. opened'.how # "play"
  BY DEF Unopened
<1> QED BY <1>2, <1>4, <1>5 DEF PanelMoves

LEMMA RedrawMoves ==
  ASSUME NEW closed, Redraw(closed), UNCHANGED <<world, watching, latest, inbox, menu>>,
         opened' \in {opened, Unopened}
  PROVE  PanelMoves
<1>1. shown' = shown \/ (latest # <<>> /\ shown' = latest[1].id)
  BY DEF Redraw
<1>2. opened' = opened \/ opened'.how # "play"
  BY DEF Unopened
<1> QED BY <1>1, <1>2 DEF PanelMoves

LEMMA PressMoves ==
  ASSUME PanelInv, Press
  PROVE  PanelMoves
<1>1. ListTyped /\ inbox \in Seq(Messages)
  BY DEF PanelInv, EngineTyped
<1>2. ASSUME NEW i \in DOMAIN rows, PressTick(i)
      PROVE  PanelMoves
  <2>1. UNCHANGED <<world, watching, latest, menu>> /\ opened' = Unopened /\ ToggleFile(rows[i].at)
    BY <1>2 DEF PressTick, Presses, Uncovered
  <2> QED BY <2>1, SetTicksMoves DEF ToggleFile
<1>3. ASSUME NEW i \in DOMAIN rows, PressPin(i)
      PROVE  PanelMoves
  BY <1>3, ToggleFirstMoves DEF PressPin, Presses, Uncovered
<1>4. ASSUME NEW i \in DOMAIN rows, PressFolderTick(i)
      PROVE  PanelMoves
  <2> DEFINE under == FilesUnder(rows[i].path)
             on == \E f \in under : ~ticks[f]
  <2>1. SetTicks(under, on) /\ UNCHANGED <<world, watching, latest, menu>> /\ opened' = Unopened
    BY <1>4 DEF PressFolderTick, Presses, Uncovered
  <2> HIDE DEF under, on
  <2> QED BY <2>1, SetTicksMoves
<1>5. ASSUME NEW i \in DOMAIN rows, PressChevron(i)
      PROVE  PanelMoves
  <2>1. Redraw(shut') /\ UNCHANGED <<world, watching, latest, inbox, menu>> /\ opened' = Unopened
    BY <1>5 DEF PressChevron, Presses, Uncovered
  <2> QED BY <2>1, RedrawMoves
<1>6. ASSUME NEW i \in DOMAIN rows, DoubleClick(i)
      PROVE  PanelMoves
  <2>1. UNCHANGED <<world, watching, latest, menu, inbox, shown>> /\ opened'.how = "open"
    BY <1>6 DEF DoubleClick, Opens, OpenFile, Uncovered, models
  <2> QED BY <2>1 DEF PanelMoves
<1>7. ASSUME NEW i \in DOMAIN rows, OpenMenu(i)
      PROVE  PanelMoves
  <2>1. /\ UNCHANGED <<world, watching, latest, inbox, shown, opened>> /\ "menu" \in world
        /\ rows[i].at # 0 /\ menu' = Here(rows[i].at)
    BY <1>7 DEF OpenMenu, models
  <2>2. shown # 0 /\ rows[i].at \in At(shown)
    BY <1>1, <1>7, <2>1 DEF ListTyped
  <2> QED BY <2>1, <2>2 DEF PanelMoves
<1>8. ASSUME NEW on \in BOOLEAN, PressAll(on)
      PROVE  PanelMoves
  BY <1>8, SetTicksMoves DEF PressAll, Presses, Uncovered
<1>9. ASSUME NEW t \in Torrents, Select(t)
      PROVE  PanelMoves
  <2>1. /\ UNCHANGED <<world, watching, latest, menu, shown>> /\ opened' = Unopened
        /\ "switches" \in world
    BY <1>9 DEF Select, Presses, models
  <2>2. opened'.how # "play"
    BY <2>1 DEF Unopened
  <2> QED BY <2>1, <2>2 DEF PanelMoves
<1>10. CASE MenuOpens
  <2>1. UNCHANGED <<world, watching, latest, inbox, shown>> /\ opened'.how = "open" /\ menu' = Nothing
    BY <1>10 DEF MenuOpens, Opens, OpenFile, models
  <2> QED BY <2>1 DEF PanelMoves
<1>11. CASE MenuPlays
  <2>1. /\ UNCHANGED <<world, watching, latest, inbox, shown>> /\ menu' = Nothing /\ menu # Nothing
        /\ opened'.asked = menu
        /\ opened'.got = IF menu.at \in At(shown) THEN Here(menu.at) ELSE Nothing
    BY <1>11 DEF MenuPlays, Opens, PlayFile, models
  <2> QED BY <2>1 DEF PanelMoves
<1>12. CASE MenuTicks
  <2>1. /\ UNCHANGED <<world, watching, latest>> /\ opened' = Unopened /\ menu' = Nothing
        /\ ToggleFile(menu.at)
    BY <1>12 DEF MenuTicks, Presses
  <2> QED BY <2>1, SetTicksMoves DEF ToggleFile
<1> QED BY <1>2, <1>3, <1>4, <1>5, <1>6, <1>7, <1>8, <1>9, <1>10, <1>11, <1>12 DEF Press

LEMMA EveryMove ==
  ASSUME PanelInv, [PanelNext]_panelVars
  PROVE  PanelMoves
<1>1. inbox \in Seq(Messages)
  BY DEF PanelInv, EngineTyped
<1>2. CASE Take
  <2>1. /\ inbox # <<>> /\ inbox' = Tail(inbox)
        /\ watching' = IF Head(inbox).do = "watch" THEN Head(inbox).id ELSE watching
        /\ UNCHANGED <<world, latest, shown, menu, opened>>
    BY <1>2 DEF Take, models
  <2>2. /\ 1 \in DOMAIN inbox /\ Head(inbox) = inbox[1]
        /\ \A k \in DOMAIN Tail(inbox) : k + 1 \in DOMAIN inbox /\ Tail(inbox)[k] = inbox[k + 1]
    BY <1>1, <2>1
  <2> QED BY <2>1, <2>2 DEF PanelMoves, Watched
<1>3. CASE Publish
  <2>1. /\ latest' = <<[id |-> watching, of |-> truth'[watching]]>>
        /\ UNCHANGED <<world, watching, inbox, shown, menu, opened>>
    BY <1>3 DEF Publish
  <2>2. latest'[1].id = watching
    BY <2>1
  <2> QED BY <2>1, <2>2 DEF PanelMoves
<1>4. CASE Draw
  <2>1. Redraw(shut) /\ UNCHANGED <<world, watching, latest, inbox, menu>> /\ opened' = opened
    BY <1>4 DEF Draw
  <2> QED BY <2>1, RedrawMoves
<1>5. ASSUME NEW t \in Torrents, NEW f \in At(t), Land(t, f)
      PROVE  PanelMoves
  BY <1>5 DEF Land, models, PanelMoves
<1>6. CASE UNCHANGED panelVars
  BY <1>6 DEF panelVars, models, PanelMoves
<1> QED BY <1>2, <1>3, <1>4, <1>5, <1>6, PressMoves DEF PanelNext

(* Where nobody changes the torrent there is only the first; and an open   *)
(* menu is about a file of the torrent that is shown.                      *)
Playing ==
  /\ "switches" \notin world =>
       /\ watching = 1 /\ shown \in {0, 1} /\ ~Watched(inbox)
       /\ latest # <<>> => latest[1].id = 1
  /\ menu # Nothing => "menu" \in world /\ shown # 0 /\ \E f \in At(shown) : menu = Here(f)
  /\ PlaysWhatWasClicked

LEMMA StepPlays ==
  ASSUME IsLibrary, NoSwitchUnderMenu, PanelInv, Playing, PanelMoves
  PROVE  Playing'
<1>1. world' = world /\ ("menu" \in world => "switches" \notin world)
  BY DEF PanelMoves, PanelInv, EngineTyped, NoSwitchUnderMenu
<1>2. ASSUME "switches" \notin world
      PROVE  /\ watching' = 1 /\ shown' \in {0, 1} /\ ~Watched(inbox')
             /\ latest' # <<>> => latest'[1].id = 1
             /\ shown # 0 => shown' = shown
  <2>1. watching = 1 /\ shown \in {0, 1} /\ ~Watched(inbox) /\ (latest # <<>> => latest[1].id = 1)
    BY <1>2 DEF Playing
  <2> QED BY <1>2, <2>1 DEF PanelMoves
<1>3. ASSUME menu' # Nothing
      PROVE  "menu" \in world' /\ shown' # 0 /\ \E f \in At(shown') : menu' = Here(f)'
  <2>1. CASE menu' = menu
    <3>1. "menu" \in world /\ shown # 0 /\ \E f \in At(shown) : menu = Here(f)
      BY <1>3, <2>1 DEF Playing
    <3>2. shown' = shown
      BY <1>1, <1>2, <3>1
    <3> QED BY <1>1, <2>1, <3>1, <3>2 DEF Here
  <2>2. CASE menu' # menu
    <3>1. "menu" \in world /\ shown' = shown /\ shown # 0 /\ \E f \in At(shown) : menu' = Here(f)
      BY <1>3, <2>2 DEF PanelMoves
    <3> QED BY <1>1, <3>1 DEF Here
  <2> QED BY <2>1, <2>2
<1>4. PlaysWhatWasClicked'
  <2>1. CASE opened' = opened
    BY <2>1 DEF Playing, PlaysWhatWasClicked
  <2>2. CASE opened'.how # "play"
    BY <2>2 DEF PlaysWhatWasClicked
  <2>3. CASE /\ menu # Nothing /\ opened'.asked = menu
             /\ opened'.got = IF menu.at \in At(shown) THEN Here(menu.at) ELSE Nothing
    <3>1. PICK f \in At(shown) : menu = Here(f)
      BY <2>3 DEF Playing
    <3>2. menu.at = f
      BY <3>1 DEF Here
    <3> QED BY <2>3, <3>1, <3>2 DEF PlaysWhatWasClicked
  <2> QED BY <2>1, <2>2, <2>3 DEF PanelMoves
<1> QED BY <1>1, <1>2, <1>3, <1>4 DEF Playing

(* The list is true, a pin holds back, and a player is given the file      *)
(* whose row was pressed: for any number of torrents, files and presses.   *)
THEOREM PanelTellsTheTruth ==
  ASSUME IsLibrary, NoSwitchUnderMenu
  PROVE  PanelSpec => []PanelIsRight
<1>1. PanelInit => Playing
  BY DEF PanelInit, Playing, PlaysWhatWasClicked, Watched, Unopened
<1>2. PanelInv /\ Playing /\ [PanelNext]_panelVars => Playing'
  BY EveryMove, StepPlays
<1>3. Playing => PlaysWhatWasClicked
  BY DEF Playing
<1> QED BY <1>1, <1>2, <1>3, PanelAlways, ListIsTrue, PTL DEF PanelSpec, PanelIsRight

----------------------------------------------------------------------------
NameNow(t) == IF t \in known THEN Catalogue[t].name ELSE [at |-> 100 + t, has |-> {"hash"}]
SizeNow(t) == IF t \in known THEN Bytes(Catalogue[t].files) ELSE 0
EtaNow(t)  == IF speed[t] = 0 \/ SizeNow(t) = 0 THEN None ELSE SizeNow(t) \div speed[t]

RowNow(t) ==
  [id |-> t, name |-> NameNow(t), size |-> SizeNow(t), moves |-> speed[t], eta |-> EtaNow(t),
   content |-> content[t]]

ContentNow(t) == IF t \in known THEN Of(Catalogue[t].files) ELSE "unknown"

IdsListed == {table[i].id : i \in DOMAIN table}

(* What is said of a torrent is what is known of it.                       *)
EntriesAreTrue ==
  /\ known \subseteq Entries /\ speed \in [Entries -> Nat]
  /\ content = [t \in Entries |-> IF t \in IdsListed THEN ContentNow(t) ELSE "none"]

(* Each row is a torrent of its own, as it is.                             *)
RowsAreTrue ==
  /\ table \in Seq({RowNow(t) : t \in Entries})
  /\ \A i, j \in DOMAIN table : table[i].id = table[j].id => i = j

(* The rows that the search and the shelf leave.                           *)
IsOnNow(row) ==
  picked # "" => row.id \in DOMAIN assigned /\ Key(assigned[row.id]) = picked
KeptRows == {i \in DOMAIN table : IsOnNow(table[i]) /\ Matches(table[i], query)}

InOrder ==
  \A i \in DOMAIN order : \A j \in i + 1 .. Len(order) :
    order[i] # order[j] /\ Precedes(table[order[i]], table[order[j]], sort)

Once == \A i, j \in DOMAIN order : order[i] = order[j] => i = j

OrderIsTrue ==
  /\ order \in Seq(DOMAIN table) /\ Once
  /\ ~late => InOrder
  /\ ~late \/ query = {} => order \in [1 .. Cardinality(KeptRows) -> KeptRows]
  /\ built.generation \in Nat /\ built.generation <= generation

(* A torrent is on a shelf while it is listed, on the one it was meant for.*)
ShelvesAreTrue ==
  /\ stored = assigned
  /\ DOMAIN assigned = DOMAIN meant /\ DOMAIN assigned \subseteq IdsListed
  /\ \A t \in DOMAIN assigned : assigned[t] \in DOMAIN categories /\ Key(assigned[t]) = meant[t]
  /\ OneShelfPerName

WindowIsPlain ==
  /\ habit \in TableWorlds /\ generation \in Nat
  /\ sort \in [col : Columns, desc : BOOLEAN] /\ query \in Queries \cup {{}}
  /\ late \in BOOLEAN /\ gestures \in 0 .. MaxGestures

TableInv == WindowIsPlain /\ EntriesAreTrue /\ RowsAreTrue /\ OrderIsTrue /\ ShelvesAreTrue

NothingRefused == \A w \in TableWorlds : "refusals" \notin w

----------------------------------------------------------------------------
LEMMA KeyOfTyped ==
  ASSUME NEW m \in TypedShelves
  PROVE  Key(m.as) = m.key
<1> DEFINE k == CHOOSE o \in TypedShelves : o.as = m.as
<1>1. k \in TypedShelves /\ k.as = m.as
  OBVIOUS
<1> QED BY <1>1, SpellingAssumption DEF Key

LEMMA EntryIsPlain ==
  ASSUME NEW t \in Entries
  PROVE  /\ t \in Nat /\ Catalogue[t].name.at \in Nat
         /\ Bytes(Catalogue[t].files) \in Nat /\ Bytes(Catalogue[t].files) < Longest
         /\ \A kind \in Named : HeldOf(Catalogue[t].files, kind) \in Nat
<1>1. t \in Nat /\ Catalogue[t].name.at \in Nat
  BY CatalogueAssumption DEF CatalogueAssumption
<1>2. Bytes(Catalogue[t].files) \in 0 .. Longest - 1
  BY CatalogueAssumption DEF CatalogueAssumption
<1>3. \A kind \in Named : HeldOf(Catalogue[t].files, kind) \in Nat
  BY CatalogueAssumption DEF CatalogueAssumption
<1> QED BY <1>1, <1>2, <1>3 DEF Longest

LEMMA SomeKindHasMost ==
  ASSUME NEW f \in [Named -> Nat]
  PROVE  \E k \in Named : \A other \in Named : f[other] <= f[k]
<1> DEFINE v1 == f["video"]  v2 == f["audio"]  v3 == f["image"]
           v4 == f["archive"]  v5 == f["disc"]  v6 == f["document"]
<1>1. v1 \in Nat /\ v2 \in Nat /\ v3 \in Nat /\ v4 \in Nat /\ v5 \in Nat /\ v6 \in Nat
  BY DEF Named
<1>2. \A x \in Named : f[x] \in {v1, v2, v3, v4, v5, v6}
  BY DEF Named
<1>3. \E m \in {v1, v2, v3, v4, v5, v6} : v1 <= m /\ v2 <= m /\ v3 <= m /\ v4 <= m /\ v5 <= m /\ v6 <= m
  <2> HIDE DEF v1, v2, v3, v4, v5, v6
  <2> QED BY <1>1
<1>4. PICK m \in {v1, v2, v3, v4, v5, v6} : v1 <= m /\ v2 <= m /\ v3 <= m /\ v4 <= m /\ v5 <= m /\ v6 <= m
  BY <1>3
<1>5. \E k \in Named : f[k] = m
  BY <1>4 DEF Named
<1> QED BY <1>2, <1>4, <1>5

(* A name for v1 kind is earned: two thirds of the bytes.                   *)
LEMMA KindIsEarned ==
  ASSUME NEW t \in Entries
  PROVE  LET files == Catalogue[t].files
             rest(k) == Bytes(files) - HeldOf(files, k)
         IN  IF Bytes(files) = 0 THEN Of(files) = "unknown"
             ELSE \/ Of(files) = "mixed" /\ \A k \in Named : 2 * rest(k) > HeldOf(files, k)
                  \/ Of(files) \in Named /\ 2 * rest(Of(files)) <= HeldOf(files, Of(files))
<1> DEFINE files == Catalogue[t].files
           f == [k \in Named |-> HeldOf(files, k)]
           most == CHOOSE k \in Named : \A other \in Named : HeldOf(files, other) <= HeldOf(files, k)
           whole == Bytes(files)
<1>1. f \in [Named -> Nat] /\ whole \in Nat
  BY EntryIsPlain
<1>2. \E k \in Named : \A other \in Named : HeldOf(files, other) <= HeldOf(files, k)
  <2>1. PICK k \in Named : \A other \in Named : f[other] <= f[k]
    BY <1>1, SomeKindHasMost
  <2> QED BY <2>1
<1>3. most \in Named /\ \A other \in Named : HeldOf(files, other) <= HeldOf(files, most)
  BY <1>2
<1>4. Of(files) = IF whole = 0 THEN "unknown"
                  ELSE IF HeldOf(files, most) * 3 >= whole * 2 THEN most ELSE "mixed"
  BY DEF Of
<1>5. \A k \in Named : HeldOf(files, k) \in Nat
  BY EntryIsPlain
<1> HIDE DEF files, most, f
<1>6. CASE whole = 0
  BY <1>6, <1>4 DEF files
<1>7. CASE whole # 0 /\ HeldOf(files, most) * 3 >= whole * 2
  <2>1. Of(files) = most
    BY <1>7, <1>4
  <2>2. 2 * (whole - HeldOf(files, most)) <= HeldOf(files, most)
    BY <1>7, <1>1, <1>3, <1>5
  <2> QED BY <1>7, <2>1, <2>2, <1>3 DEF files
<1>8. CASE whole # 0 /\ ~(HeldOf(files, most) * 3 >= whole * 2)
  <2>1. Of(files) = "mixed"
    BY <1>8, <1>4
  <2>2. ASSUME NEW k \in Named
        PROVE  2 * (whole - HeldOf(files, k)) > HeldOf(files, k)
    BY <1>8, <1>1, <1>3, <1>5
  <2> QED BY <1>8, <2>1, <2>2 DEF files
<1> QED BY <1>6, <1>7, <1>8

LEMMA KindIsKind ==
  ASSUME NEW t \in Entries
  PROVE  Of(Catalogue[t].files) \in Named \cup {"unknown", "mixed"}
BY KindIsEarned

(* How long at a rate: not longer than the bytes at one a second.          *)
LEMMA EstimateIsShort ==
  ASSUME NEW s \in Nat, NEW v \in Nat \ {0}
  PROVE  s \div v \in Nat /\ s \div v <= s
<1>1. s \div v \in Nat
  OBVIOUS
<1>2. v * (s \div v) <= s
  OBVIOUS
<1> DEFINE q == s \div v
<1>3. q <= v * q
  <2> HIDE DEF q
  <2>1. ASSUME NEW x \in Nat, NEW y \in Nat \ {0} PROVE x <= y * x
    OBVIOUS
  <2> QED BY <2>1, <1>1 DEF q
<1>4. v * q \in Nat
  BY <1>1
<1> QED BY <1>1, <1>2, <1>3, <1>4

----------------------------------------------------------------------------
LEMMA NamesNow ==
  ASSUME NEW t \in Entries, EntriesAreTrue
  PROVE  /\ NameNow(t).at \in Nat /\ SizeNow(t) \in Nat /\ SizeNow(t) < Longest
         /\ speed[t] \in Nat
         /\ EtaNow(t) \in Nat \cup {None} /\ (EtaNow(t) # None => EtaNow(t) < Longest)
<1>1. NameNow(t).at \in Nat
  BY EntryIsPlain DEF NameNow
<1>2. SizeNow(t) \in Nat /\ SizeNow(t) < Longest
  BY EntryIsPlain DEF SizeNow, Longest
<1>3. speed[t] \in Nat
  BY DEF EntriesAreTrue
<1>4. CASE speed[t] = 0 \/ SizeNow(t) = 0
  BY <1>1, <1>2, <1>3, <1>4 DEF EtaNow
<1>5. CASE speed[t] # 0 /\ SizeNow(t) # 0
  <2>1. EtaNow(t) = SizeNow(t) \div speed[t]
    BY <1>5 DEF EtaNow
  <2>2. EtaNow(t) \in Nat /\ EtaNow(t) <= SizeNow(t)
    BY <1>2, <1>3, <1>5, <2>1, EstimateIsShort
  <2>3. Longest \in Nat
    BY DEF Longest
  <2> QED BY <1>1, <1>2, <1>3, <2>2, <2>3
<1> QED BY <1>4, <1>5

LEMMA RowIs ==
  ASSUME RowsAreTrue, NEW i \in DOMAIN table
  PROVE  table[i].id \in Entries /\ table[i] = RowNow(table[i].id)
<1>1. table[i] \in {RowNow(t) : t \in Entries}
  BY DEF RowsAreTrue
<1>2. PICK t \in Entries : table[i] = RowNow(t)
  BY <1>1
<1>3. RowNow(t).id = t
  BY DEF RowNow
<1> QED BY <1>2, <1>3

LEMMA ValueIsInt ==
  ASSUME EntriesAreTrue, RowsAreTrue, NEW i \in DOMAIN table, NEW col \in Columns
  PROVE  Value(table[i], col) \in Int /\ table[i].id \in Int
<1> DEFINE t == table[i].id
<1>1. t \in Entries /\ table[i] = RowNow(t)
  BY RowIs
<1>2. t \in Nat
  BY <1>1, EntryIsPlain
<1>3. /\ table[i].name.at \in Nat /\ table[i].size \in Nat /\ table[i].moves \in Nat
      /\ table[i].eta \in Nat \cup {None}
  <2> HIDE DEF t
  <2>1. table[i].name = NameNow(t) /\ table[i].size = SizeNow(t) /\ table[i].moves = speed[t]
        /\ table[i].eta = EtaNow(t)
    BY <1>1 DEF RowNow
  <2> QED BY <1>1, <2>1, NamesNow
<1>4. col = "name" \/ col = "size" \/ col = "moves" \/ col = "eta"
  BY DEF Columns
<1> HIDE DEF t
<1>5. Value(table[i], col) \in Int
  <2>1. CASE col = "name"
    BY <1>3, <2>1 DEF Value
  <2>2. CASE col = "size"
    BY <1>3, <2>2 DEF Value
  <2>3. CASE col = "moves"
    BY <1>3, <2>3 DEF Value
  <2>4. CASE col = "eta"
    BY <1>3, <2>4 DEF Value, Longest
  <2> QED BY <1>4, <2>1, <2>2, <2>3, <2>4
<1> QED BY <1>2, <1>5 DEF t

(* Of two rows, not each can precede the other.                            *)
LEMMA PrecedesOneWay ==
  ASSUME EntriesAreTrue, RowsAreTrue, NEW by \in [col : Columns, desc : BOOLEAN],
         NEW i \in DOMAIN table, NEW j \in DOMAIN table, Precedes(table[i], table[j], by)
  PROVE  ~Precedes(table[j], table[i], by)
<1> DEFINE x == Value(table[i], by.col)  y == Value(table[j], by.col)
<1>1. by.col \in Columns
  OBVIOUS
<1>2. x \in Int /\ y \in Int /\ table[i].id \in Int /\ table[j].id \in Int
  BY <1>1, ValueIsInt
<1>3. (IF by.desc THEN x > y ELSE x < y) \/ (x = y /\ table[i].id < table[j].id)
  BY DEF Precedes
<1>4. Precedes(table[j], table[i], by)
        <=> (IF by.desc THEN y > x ELSE y < x) \/ (y = x /\ table[j].id < table[i].id)
  BY DEF Precedes
<1> HIDE DEF x, y
<1> QED BY <1>2, <1>3, <1>4

----------------------------------------------------------------------------
(* What is published: the entries as they are, in the order given.         *)
LEMMA PublishedRows ==
  ASSUME NEW ids \in Seq(Entries),
         \A i, j \in DOMAIN ids : ids[i] = ids[j] => i = j,
         EntriesAreTrue, PublishRows(ids),
         speed' \in [Entries -> Nat], known' \subseteq Entries,
         \A i \in DOMAIN ids : ids[i] \in known => ids[i] \in known'
  PROVE  /\ EntriesAreTrue' /\ RowsAreTrue'
         /\ Len(table') = Len(ids) /\ DOMAIN table' = DOMAIN ids
         /\ \A i \in DOMAIN ids : table'[i].id = ids[i]
<1>1. table' = [i \in DOMAIN ids |->
       [id |-> ids[i], name |-> Name(ids[i]), size |-> SizeOf(ids[i]),
        moves |-> speed'[ids[i]], eta |-> Eta(ids[i]), content |-> content'[ids[i]]]]
  BY DEF PublishRows
<1>2. \A t : RowNow(t)' = [id |-> t, name |-> Name(t), size |-> SizeOf(t), moves |-> speed'[t],
                          eta |-> Eta(t), content |-> content'[t]]
  BY DEF RowNow, NameNow, SizeNow, EtaNow, Name, SizeOf, Eta
<1>3. DOMAIN ids = 1 .. Len(ids) /\ Len(ids) \in Nat
  OBVIOUS
<1>4. \A i \in DOMAIN ids : table'[i] = RowNow(ids[i])' 
  BY <1>1, <1>2
<1>5. table' \in Seq({RowNow(t)' : t \in Entries})
  <2>1. table' = [i \in 1 .. Len(ids) |-> table'[i]]
    BY <1>1, <1>3
  <2>2. \A i \in 1 .. Len(ids) : table'[i] \in {RowNow(t)' : t \in Entries}
    BY <1>3, <1>4
  <2> QED BY <1>3, <2>1, <2>2
<1>6. Len(table') = Len(ids) /\ DOMAIN table' = DOMAIN ids
  BY <1>1, <1>3
<1>7. \A i \in DOMAIN ids : table'[i].id = ids[i]
  BY <1>1
<1>8. RowsAreTrue'
  BY <1>5, <1>6, <1>7 DEF RowsAreTrue
<1>9. \A t : t \in IdsListed' <=> \E i \in DOMAIN ids : ids[i] = t
  BY <1>6, <1>7 DEF IdsListed
<1>10. ASSUME NEW t \in Entries, NEW i \in DOMAIN ids, ids[i] = t
       PROVE  Resolved(t) = ContentNow(t)'
  <2>1. ContentNow(t)' = IF t \in known' THEN Of(Catalogue[t].files) ELSE "unknown"
    BY DEF ContentNow
  <2>2. CASE content[t] \notin {"none", "unknown"}
    <3>1. t \in known /\ content[t] = Of(Catalogue[t].files)
      BY <2>2 DEF EntriesAreTrue, ContentNow
    <3>2. t \in known'
      BY <1>10, <3>1
    <3> QED BY <2>1, <2>2, <3>1, <3>2 DEF Resolved
  <2>3. CASE content[t] \in {"none", "unknown"}
    BY <2>1, <2>3 DEF Resolved
  <2> QED BY <2>2, <2>3
<1>11. content' = [t \in Entries |->
       IF \E i \in DOMAIN ids : ids[i] = t THEN Resolved(t) ELSE "none"]
  BY DEF PublishRows
<1>12. content' = [t \in Entries |-> IF t \in IdsListed' THEN ContentNow(t)' ELSE "none"]
  <2>1. \A t \in Entries : (IF \E i \in DOMAIN ids : ids[i] = t THEN Resolved(t) ELSE "none")
                           = (IF t \in IdsListed' THEN ContentNow(t)' ELSE "none")
    BY <1>9, <1>10
  <2> QED BY <1>11, <2>1
<1>13. EntriesAreTrue'
  BY <1>12 DEF EntriesAreTrue
<1> QED BY <1>6, <1>7, <1>8, <1>13

----------------------------------------------------------------------------
(* Lists of distinct numbers.                                              *)
Distinct(ids) == \A i, j \in DOMAIN ids : ids[i] = ids[j] => i = j
In(ids)       == {ids[i] : i \in DOMAIN ids}
Drop(ids, i)  == [j \in 1 .. Len(ids) - 1 |-> ids[IF j < i THEN j ELSE j + 1]]

LEMMA AppendIsDistinct ==
  ASSUME NEW S, NEW ids \in Seq(S), Distinct(ids), NEW t \in S, t \notin In(ids)
  PROVE  /\ Append(ids, t) \in Seq(S) /\ Distinct(Append(ids, t))
         /\ In(Append(ids, t)) = In(ids) \cup {t}
         /\ Len(Append(ids, t)) = Len(ids) + 1
<1> DEFINE n == Len(ids)  more == Append(ids, t)
<1>1. /\ n \in Nat /\ DOMAIN ids = 1 .. n
      /\ more \in Seq(S) /\ Len(more) = n + 1 /\ DOMAIN more = 1 .. n + 1
      /\ more[n + 1] = t /\ \A i \in 1 .. n : more[i] = ids[i]
  OBVIOUS
<1>2. \A i \in 1 .. n : ids[i] # t
  BY <1>1 DEF In
<1> HIDE DEF n, more
<1>3. Distinct(more)
  <2> SUFFICES ASSUME NEW i \in DOMAIN more, NEW j \in DOMAIN more, more[i] = more[j]
               PROVE  i = j
    BY DEF Distinct
  <2>1. (i \in 1 .. n \/ i = n + 1) /\ (j \in 1 .. n \/ j = n + 1)
    BY <1>1
  <2>2. CASE i \in 1 .. n /\ j \in 1 .. n
    BY <1>1, <2>2 DEF Distinct
  <2> QED BY <1>1, <1>2, <2>1, <2>2
<1>4. In(more) = In(ids) \cup {t}
  <2>1. ASSUME NEW x \in In(more)
        PROVE  x \in In(ids) \cup {t}
    <3>1. PICK i \in 1 .. n + 1 : x = more[i]
      BY <1>1 DEF In
    <3>2. i \in 1 .. n \/ i = n + 1
      BY <1>1
    <3> QED BY <1>1, <3>1, <3>2 DEF In
  <2>2. ASSUME NEW x \in In(ids) \cup {t}
        PROVE  x \in In(more)
    <3>1. CASE x = t
      <4>1. n + 1 \in DOMAIN more
        BY <1>1
      <4> QED BY <1>1, <3>1, <4>1 DEF In
    <3>2. CASE x \in In(ids)
      <4>1. PICK i \in 1 .. n : x = ids[i]
        BY <1>1, <3>2 DEF In
      <4>2. i \in DOMAIN more /\ more[i] = x
        BY <1>1, <4>1
      <4> QED BY <4>2 DEF In
    <3> QED BY <3>1, <3>2
  <2> QED BY <2>1, <2>2
<1> QED BY <1>1, <1>3, <1>4 DEF n, more

LEMMA DropIsDistinct ==
  ASSUME NEW S, NEW ids \in Seq(S), Distinct(ids), NEW i \in DOMAIN ids
  PROVE  /\ Drop(ids, i) \in Seq(S) /\ Distinct(Drop(ids, i))
         /\ In(Drop(ids, i)) = In(ids) \ {ids[i]}
         /\ Len(Drop(ids, i)) = Len(ids) - 1
<1> DEFINE n == Len(ids)  less == Drop(ids, i)
           Skip(j) == IF j < i THEN j ELSE j + 1
<1>1. n \in Nat /\ DOMAIN ids = 1 .. n /\ i \in 1 .. n /\ n - 1 \in Nat
  OBVIOUS
<1>2. \A j \in 1 .. n - 1 : Skip(j) \in 1 .. n /\ Skip(j) # i
  BY <1>1
<1>3. less = [j \in 1 .. n - 1 |-> ids[Skip(j)]]
  BY DEF Drop
<1>4. DOMAIN less = 1 .. n - 1 /\ \A j \in 1 .. n - 1 : less[j] = ids[Skip(j)] /\ less[j] \in S
  BY <1>1, <1>2, <1>3
<1>5. less \in Seq(S) /\ Len(less) = n - 1
  BY <1>1, <1>3, <1>4
<1> HIDE DEF n, less
<1>6. Distinct(less)
  <2> SUFFICES ASSUME NEW j \in 1 .. n - 1, NEW k \in 1 .. n - 1, less[j] = less[k]
               PROVE  j = k
    BY <1>4 DEF Distinct
  <2>1. Skip(j) = Skip(k)
    BY <1>1, <1>2, <1>4 DEF Distinct
  <2> QED BY <1>1, <2>1
<1>7. In(less) = In(ids) \ {ids[i]}
  <2>1. ASSUME NEW x \in In(less)
        PROVE  x \in In(ids) /\ x # ids[i]
    <3>1. PICK j \in 1 .. n - 1 : x = less[j]
      BY <1>4, <2>1 DEF In
    <3>2. Skip(j) \in 1 .. n /\ Skip(j) # i /\ x = ids[Skip(j)]
      BY <1>2, <1>4, <3>1
    <3> HIDE DEF Skip
    <3> QED BY <1>1, <3>2 DEF In, Distinct
  <2>2. ASSUME NEW x \in In(ids), x # ids[i]
        PROVE  x \in In(less)
    <3>1. PICK k \in 1 .. n : x = ids[k]
      BY <1>1, <2>2 DEF In
    <3> DEFINE j == IF k < i THEN k ELSE k - 1
    <3>2. j \in 1 .. n - 1 /\ Skip(j) = k
      BY <1>1, <2>2, <3>1
    <3> QED BY <1>4, <3>1, <3>2 DEF In
  <2> QED BY <2>1, <2>2
<1> QED BY <1>5, <1>6, <1>7 DEF n, less

LEMMA IdsAre ==
  ASSUME EntriesAreTrue, RowsAreTrue
  PROVE  /\ Ids \in Seq(Entries) /\ Distinct(Ids) /\ In(Ids) = IdsListed
         /\ Len(Ids) = Len(table) /\ DOMAIN Ids = DOMAIN table
         /\ DOMAIN table = 1 .. Len(table) /\ Len(table) \in Nat
         /\ \A i \in DOMAIN table : Ids[i] = table[i].id
         /\ \A i \in DOMAIN table : Drop(Ids, i)
              = [j \in 1 .. Len(table) - 1 |-> Ids[IF j < i THEN j ELSE j + 1]]
<1>1. DOMAIN table = 1 .. Len(table) /\ Len(table) \in Nat
  BY DEF RowsAreTrue
<1>2. DOMAIN Ids = DOMAIN table /\ \A i \in DOMAIN table : Ids[i] = table[i].id
  BY DEF Ids
<1>3. Ids = [i \in 1 .. Len(table) |-> table[i].id]
  BY <1>1 DEF Ids
<1>4. \A i \in 1 .. Len(table) : table[i].id \in Entries
  BY <1>1, RowIs
<1>5. Ids \in Seq(Entries) /\ Len(Ids) = Len(table)
  BY <1>1, <1>3, <1>4
<1>6. Distinct(Ids)
  BY <1>2 DEF Distinct, RowsAreTrue
<1>7. In(Ids) = IdsListed
  BY <1>2 DEF In, IdsListed
<1>8. \A i \in DOMAIN table : Drop(Ids, i)
              = [j \in 1 .. Len(table) - 1 |-> Ids[IF j < i THEN j ELSE j + 1]]
  BY <1>5 DEF Drop
<1> QED BY <1>1, <1>2, <1>5, <1>6, <1>7, <1>8

----------------------------------------------------------------------------
(* The two things a step does to the order: it is built again, or it stays *)
(* over the same torrents.                                                 *)
StaysAsItWas ==
  /\ UNCHANGED <<order, built, sort, query, picked, assigned, generation>>
  /\ DOMAIN table' = DOMAIN table
  /\ \A i \in DOMAIN table : table'[i].id = table[i].id
  /\ ~late' =>
       /\ ~late
       /\ \A i \in DOMAIN table : /\ table'[i].name = table[i].name
                                  /\ Value(table'[i], sort.col) = Value(table[i], sort.col)

LEMMA PartIsFinite ==
  ASSUME NEW n \in Nat, NEW part \in SUBSET (1 .. n)
  PROVE  IsFiniteSet(part) /\ Cardinality(part) \in Nat
<1>1. IsFiniteSet(1 .. n)
  BY FS_Interval
<1>2. IsFiniteSet(part)
  BY <1>1, FS_Subset
<1> QED BY <1>2, FS_CardinalityType

LEMMA RebuiltOrder ==
  ASSUME EntriesAreTrue', RowsAreTrue', generation' \in Nat, Rebuild
  PROVE  /\ OrderIsTrue' /\ late' = FALSE
         /\ order' \in [1 .. Cardinality(KeptRows') -> KeptRows']
<1> DEFINE kept == {i \in DOMAIN table' : IsOn(table'[i], picked') /\ Matches(table'[i], query')}
<1>1. kept = KeptRows'
  BY DEF KeptRows, IsOn, IsOnNow
<1>2. DOMAIN table' = 1 .. Len(table') /\ Len(table') \in Nat
  BY DEF RowsAreTrue
<1>3. Cardinality(kept) \in Nat /\ kept \subseteq DOMAIN table'
  <2>1. kept \in SUBSET (1 .. Len(table'))
    BY <1>2
  <2> QED BY <1>2, <2>1, PartIsFinite
<1>4. PICK listed \in [1 .. Cardinality(kept) -> kept] :
        /\ \A i \in DOMAIN listed : \A j \in i + 1 .. Len(listed) :
             listed[i] # listed[j] /\ Precedes(table'[listed[i]], table'[listed[j]], sort')
        /\ order' = listed
  BY DEF Rebuild
<1>5. built'.generation = generation' /\ late' = FALSE
  BY DEF Rebuild
<1> HIDE DEF kept
<1>6. order' \in Seq(DOMAIN table')
  BY <1>3, <1>4
<1>7. InOrder'
  <2>1. InOrder' <=> \A i \in DOMAIN order' : \A j \in i + 1 .. Len(order') :
          order'[i] # order'[j] /\ Precedes(table'[order'[i]], table'[order'[j]], sort')
    BY DEF InOrder, Precedes, Value
  <2> QED BY <1>4, <2>1
<1>8. order' \in [1 .. Cardinality(KeptRows') -> KeptRows']
  BY <1>1, <1>4
<1>9. built'.generation \in Nat /\ built'.generation <= generation'
  BY <1>5
<1>10. Once'
  <2> SUFFICES ASSUME NEW i \in DOMAIN order', NEW j \in DOMAIN order', order'[i] = order'[j]
               PROVE  i = j
    BY DEF Once
  <2>1. i \in 1 .. Len(order') /\ j \in 1 .. Len(order') /\ Len(order') \in Nat
    BY <1>6
  <2>2. i < j => FALSE
    BY <2>1, <1>7 DEF InOrder
  <2>3. j < i => FALSE
    BY <2>1, <1>7 DEF InOrder
  <2> QED BY <2>1, <2>2, <2>3
<1> QED BY <1>5, <1>6, <1>7, <1>8, <1>9, <1>10 DEF OrderIsTrue

LEMMA StayingOrder ==
  ASSUME WindowIsPlain, EntriesAreTrue, RowsAreTrue, OrderIsTrue, StaysAsItWas,
         late' \in BOOLEAN
  PROVE  OrderIsTrue'
<1>1. order' \in Seq(DOMAIN table') /\ Once'
  BY DEF OrderIsTrue, StaysAsItWas, Once
<1>2. ASSUME ~late'
      PROVE  InOrder'
  <2>1. InOrder
    BY <1>2 DEF OrderIsTrue, StaysAsItWas
  <2> SUFFICES ASSUME NEW i \in DOMAIN order, NEW j \in i + 1 .. Len(order)
               PROVE  /\ order[i] # order[j]
                      /\ Precedes(table'[order[i]], table'[order[j]], sort)
    <3>1. InOrder' <=> \A i \in DOMAIN order' : \A j \in i + 1 .. Len(order') :
            order'[i] # order'[j] /\ Precedes(table'[order'[i]], table'[order'[j]], sort')
      BY DEF InOrder, Precedes, Value
    <3> QED BY <3>1 DEF StaysAsItWas
  <2>2. order[i] # order[j] /\ Precedes(table[order[i]], table[order[j]], sort)
    BY <2>1 DEF InOrder
  <2>3. order[i] \in DOMAIN table /\ order[j] \in DOMAIN table
    <3>1. i \in 1 .. Len(order) /\ j \in 1 .. Len(order)
      BY DEF OrderIsTrue
    <3> QED BY <3>1 DEF OrderIsTrue
  <2>4. /\ Value(table'[order[i]], sort.col) = Value(table[order[i]], sort.col)
        /\ Value(table'[order[j]], sort.col) = Value(table[order[j]], sort.col)
        /\ table'[order[i]].id = table[order[i]].id /\ table'[order[j]].id = table[order[j]].id
    BY <1>2, <2>3 DEF StaysAsItWas
  <2> QED BY <2>2, <2>4 DEF Precedes
<1>3. ASSUME ~late' \/ query' = {}
      PROVE  order' \in [1 .. Cardinality(KeptRows') -> KeptRows']
  <2>1. \A i \in DOMAIN table : Matches(table'[i], query') <=> Matches(table[i], query)
    BY <1>3 DEF StaysAsItWas, Matches
  <2>2. \A i \in DOMAIN table : IsOnNow(table[i])' <=> IsOnNow(table[i])
    BY DEF StaysAsItWas, IsOnNow
  <2>3. KeptRows' = {i \in DOMAIN table' : IsOnNow(table[i])' /\ Matches(table'[i], query')}
    BY DEF KeptRows, IsOnNow
  <2>4. KeptRows' = KeptRows
    BY <2>1, <2>2, <2>3 DEF KeptRows, StaysAsItWas
  <2>5. order \in [1 .. Cardinality(KeptRows) -> KeptRows]
    BY <1>3 DEF OrderIsTrue, StaysAsItWas
  <2> QED BY <2>4, <2>5 DEF StaysAsItWas
<1>4. built'.generation \in Nat /\ built'.generation <= generation'
  BY DEF OrderIsTrue, StaysAsItWas
<1> QED BY <1>1, <1>2, <1>3, <1>4 DEF OrderIsTrue

(* A step that lists other torrents builds it again.                       *)
LEMMA GrownIsRebuilt ==
  ASSUME WindowIsPlain, OrderIsTrue, generation' \in Nat, generation' > generation, Refresh(FALSE)
  PROVE  Rebuild
<1>1. generation' # built.generation
  BY DEF WindowIsPlain, OrderIsTrue
<1> QED BY <1>1 DEF Refresh, Outdated

(* One that lists the same stays, unless the column moves.                 *)
LEMMA SameIsKept ==
  ASSUME WindowIsPlain, EntriesAreTrue, RowsAreTrue, OrderIsTrue,
         NEW arrived \in BOOLEAN, Refresh(arrived), PublishRows(Ids),
         UNCHANGED <<sort, query, picked, assigned, generation>>,
         known \subseteq known', known' \subseteq Entries, speed' \in [Entries -> Nat],
         ~arrived => known' = known
  PROVE  /\ EntriesAreTrue' /\ RowsAreTrue' /\ IdsListed' = IdsListed
         /\ late' \in BOOLEAN
         /\ Rebuild \/ StaysAsItWas
<1>1. /\ Ids \in Seq(Entries) /\ Distinct(Ids)
      /\ DOMAIN Ids = DOMAIN table /\ \A i \in DOMAIN table : Ids[i] = table[i].id
  BY IdsAre
<1>2. /\ EntriesAreTrue' /\ RowsAreTrue'
      /\ DOMAIN table' = DOMAIN table
      /\ \A i \in DOMAIN table : table'[i].id = table[i].id
  BY <1>1, PublishedRows DEF Distinct
<1>3. IdsListed' = IdsListed
  BY <1>2 DEF IdsListed
<1>4. CASE Outdated
  BY <1>2, <1>3, <1>4 DEF Refresh, Rebuild
<1>5. CASE ~Outdated
  <2>1. UNCHANGED <<order, built>> /\ late' = (late \/ arrived)
    BY <1>5 DEF Refresh
  <2>2. sort.col \in {"name", "size"}
    BY <1>5 DEF Outdated, IsVolatile
  <2>3. ASSUME ~late', NEW i \in DOMAIN table
        PROVE  /\ table'[i].name = table[i].name
               /\ Value(table'[i], sort.col) = Value(table[i], sort.col)
    <3>1. known' = known
      BY <2>1, <2>3
    <3>2. table[i] = RowNow(table[i].id)
      BY RowIs
    <3>3. table'[i].name = Name(table[i].id) /\ table'[i].size = SizeOf(table[i].id)
      BY <1>1 DEF PublishRows
    <3>4. table[i].name = NameNow(table[i].id) /\ table[i].size = SizeNow(table[i].id)
      BY <3>2 DEF RowNow
    <3>5. table'[i].name = table[i].name /\ table'[i].size = table[i].size
      BY <3>1, <3>3, <3>4 DEF Name, NameNow, SizeOf, SizeNow
    <3> QED BY <2>2, <3>5 DEF Value
  <2>4. late' \in BOOLEAN /\ (~late' => ~late)
    BY <2>1 DEF WindowIsPlain
  <2>5. StaysAsItWas
    BY <1>2, <2>1, <2>3, <2>4 DEF StaysAsItWas
  <2> QED BY <1>2, <1>3, <2>4, <2>5
<1> QED BY <1>4, <1>5

----------------------------------------------------------------------------
LEMMA ShelvesStay ==
  ASSUME ShelvesAreTrue, UNCHANGED shelves, IdsListed' = IdsListed
  PROVE  ShelvesAreTrue'
<1>1. UNCHANGED <<categories, stored, assigned, homes, meant>>
  BY DEF shelves
<1>2. OneShelfPerName'
  BY <1>1 DEF ShelvesAreTrue, OneShelfPerName
<1> QED BY <1>1, <1>2 DEF ShelvesAreTrue

LEMMA ShelvesForget ==
  ASSUME ShelvesAreTrue, NEW gone, NEW others, gone \in others,
         \A t \in others : t # gone => t \notin IdsListed,
         Forget(gone), meant' = Without(meant, others),
         UNCHANGED <<categories, homes>>, IdsListed \ {gone} \subseteq IdsListed'
  PROVE  ShelvesAreTrue'
<1>1. assigned' = [t \in DOMAIN assigned \ {gone} |-> assigned[t]]
  BY DEF Forget, Without
<1>2. stored' = assigned'
  BY DEF Forget, Without, ShelvesAreTrue
<1>3. meant' = [t \in DOMAIN meant \ others |-> meant[t]]
  BY DEF Without
<1>4. DOMAIN meant \ others = DOMAIN assigned \ {gone}
  BY DEF ShelvesAreTrue
<1>5. DOMAIN assigned' = DOMAIN meant' /\ DOMAIN assigned' \subseteq IdsListed'
  BY <1>1, <1>3, <1>4 DEF ShelvesAreTrue
<1>6. ASSUME NEW t \in DOMAIN assigned'
      PROVE  assigned'[t] \in DOMAIN categories' /\ Key(assigned'[t]) = meant'[t]
  <2>1. t \in DOMAIN assigned /\ assigned'[t] = assigned[t] /\ meant'[t] = meant[t]
    BY <1>1, <1>3, <1>4, <1>6
  <2> QED BY <2>1 DEF ShelvesAreTrue
<1>7. OneShelfPerName'
  BY DEF ShelvesAreTrue, OneShelfPerName
<1> QED BY <1>2, <1>5, <1>6, <1>7 DEF ShelvesAreTrue

(* However a shelf is typed, it is the one that is there.                  *)
LEMMA TypedIsTheShelf ==
  ASSUME ShelvesAreTrue, NEW n \in TypedShelves
  PROVE  /\ Key(Canonical(n)) = n.key
         /\ n.key \in DOMAIN homes => Canonical(n) = homes[n.key].as
         /\ n.key \notin DOMAIN homes => Canonical(n) = n.as
         /\ \A s \in DOMAIN categories : Key(s) = n.key => s = Canonical(n)
<1>0. /\ \A s \in DOMAIN categories : Key(s) \in DOMAIN homes
      /\ \A k \in DOMAIN homes : \E s \in DOMAIN categories : Key(s) = k
      /\ \A s \in DOMAIN categories : homes[Key(s)].as = s
  <2>1. /\ {Key(s) : s \in DOMAIN categories} = DOMAIN homes
        /\ \A s \in DOMAIN categories : homes[Key(s)] = [as |-> s, folder |-> categories[s]]
    BY DEF ShelvesAreTrue, OneShelfPerName
  <2>2. \A s \in DOMAIN categories : Key(s) \in DOMAIN homes
    BY <2>1
  <2>3. \A k \in DOMAIN homes : \E s \in DOMAIN categories : Key(s) = k
    BY <2>1
  <2>4. ASSUME NEW s \in DOMAIN categories
        PROVE  homes[Key(s)].as = s
    <3>1. homes[Key(s)] = [as |-> s, folder |-> categories[s]]
      BY <2>1
    <3> QED BY <3>1
  <2> QED BY <2>2, <2>3, <2>4
<1>1. CASE Spelled(n) = {}
  <2>1. Canonical(n) = n.as
    BY <1>1 DEF Canonical
  <2>2. \A s \in DOMAIN categories : Key(s) # n.key
    BY <1>1 DEF Spelled
  <2>3. Key(n.as) = n.key
    BY KeyOfTyped
  <2> QED BY <1>0, <2>1, <2>2, <2>3
<1>2. CASE Spelled(n) # {}
  <2>1. Canonical(n) \in Spelled(n)
    BY <1>2 DEF Canonical
  <2>2. Canonical(n) \in DOMAIN categories /\ Key(Canonical(n)) = n.key
    BY <2>1 DEF Spelled
  <2> QED BY <1>0, <2>2
<1> QED BY <1>1, <1>2

LEMMA ShelvesTake ==
  ASSUME ShelvesAreTrue, NEW t \in Entries, NEW n \in TypedShelves, NEW folder \in ShelfFolders,
         Shelve(t, n, folder), t \notin IdsListed, IdsListed' = IdsListed \cup {t}
  PROVE  ShelvesAreTrue'
<1>1. CASE n.key = ""
  <2>1. UNCHANGED <<categories, stored, assigned, homes>> /\ meant' = Without(meant, {t})
    BY <1>1 DEF Shelve
  <2>2. t \notin DOMAIN meant
    BY DEF ShelvesAreTrue
  <2>3. meant' = [u \in DOMAIN meant |-> meant[u]]
    BY <2>1, <2>2 DEF Without
  <2>4. DOMAIN meant' = DOMAIN meant /\ \A u \in DOMAIN meant : meant'[u] = meant[u]
    BY <2>3
  <2>5. OneShelfPerName'
    BY <2>1 DEF ShelvesAreTrue, OneShelfPerName
  <2> QED BY <2>1, <2>4, <2>5 DEF ShelvesAreTrue
<1>2. CASE n.key # ""
  <2> DEFINE c == Canonical(n)
  <2>1. /\ categories' = [s \in DOMAIN categories \cup {c} |->
                            IF s = c THEN folder ELSE categories[s]]
        /\ stored' = With(stored, t, c) /\ assigned' = stored'
        /\ meant' = [u \in DOMAIN meant \cup {t} |-> IF u = t THEN n.key ELSE meant[u]]
        /\ homes' = [k \in DOMAIN homes \cup {n.key} |-> IF k = n.key
             THEN [as |-> IF n.key \in DOMAIN homes THEN homes[n.key].as ELSE n.as,
                   folder |-> folder]
             ELSE homes[k]]
    BY <1>2 DEF Shelve, Remember, With
  <2>2. assigned' = [u \in DOMAIN assigned \cup {t} |-> IF u = t THEN c ELSE assigned[u]]
    BY <2>1 DEF With, ShelvesAreTrue
  <2>3. /\ Key(c) = n.key
        /\ n.key \in DOMAIN homes => c = homes[n.key].as
        /\ n.key \notin DOMAIN homes => c = n.as
        /\ \A s \in DOMAIN categories : Key(s) = n.key => s = c
    BY TypedIsTheShelf
  <2> HIDE DEF c
  <2>4. DOMAIN assigned' = DOMAIN meant' /\ DOMAIN assigned' \subseteq IdsListed'
    BY <2>1, <2>2 DEF ShelvesAreTrue
  <2>5. DOMAIN categories' = DOMAIN categories \cup {c}
    BY <2>1
  <2>6. ASSUME NEW u \in DOMAIN assigned'
        PROVE  assigned'[u] \in DOMAIN categories' /\ Key(assigned'[u]) = meant'[u]
    <3>1. CASE u = t
      <4>1. assigned'[u] = c /\ meant'[u] = n.key
        BY <2>1, <2>2, <3>1
      <4> QED BY <2>3, <2>5, <4>1
    <3>2. CASE u # t
      <4>1. u \in DOMAIN assigned /\ assigned'[u] = assigned[u] /\ meant'[u] = meant[u]
        BY <2>1, <2>2, <2>6, <3>2 DEF ShelvesAreTrue
      <4> QED BY <2>5, <4>1 DEF ShelvesAreTrue
    <3> QED BY <3>1, <3>2
  <2>7. OneShelfPerName'
    <3>0. /\ {Key(s) : s \in DOMAIN categories} = DOMAIN homes
          /\ \A s \in DOMAIN categories : homes[Key(s)] = [as |-> s, folder |-> categories[s]]
      BY DEF ShelvesAreTrue, OneShelfPerName
    <3>1. DOMAIN homes' = DOMAIN homes \cup {n.key}
      BY <2>1
    <3>2. {Key(s) : s \in DOMAIN categories'} = DOMAIN homes'
      BY <2>3, <2>5, <3>0, <3>1
    <3>3. ASSUME NEW s \in DOMAIN categories'
          PROVE  homes'[Key(s)] = [as |-> s, folder |-> categories'[s]]
      <4>1. CASE s = c
        <5>1. categories'[s] = folder
          BY <2>1, <4>1
        <5>2. homes'[n.key] = [as |-> IF n.key \in DOMAIN homes THEN homes[n.key].as ELSE n.as,
                               folder |-> folder]
          BY <2>1
        <5> QED BY <2>3, <4>1, <5>1, <5>2
      <4>2. CASE s # c
        <5>1. s \in DOMAIN categories /\ categories'[s] = categories[s]
          BY <2>1, <2>5, <3>3, <4>2
        <5>2. Key(s) # n.key /\ Key(s) \in DOMAIN homes
          BY <2>3, <3>0, <4>2, <5>1
        <5>3. homes'[Key(s)] = homes[Key(s)]
          BY <2>1, <5>2
        <5> QED BY <3>0, <5>1, <5>3
      <4> QED BY <4>1, <4>2
    <3> QED BY <3>2, <3>3 DEF OneShelfPerName
  <2>8. stored' = assigned'
    BY <2>1
  <2> QED BY <2>4, <2>6, <2>7, <2>8 DEF ShelvesAreTrue
<1> QED BY <1>1, <1>2

----------------------------------------------------------------------------
(* What any step leaves.                                                   *)
TableSteps ==
  /\ WindowIsPlain' /\ EntriesAreTrue' /\ RowsAreTrue' /\ ShelvesAreTrue'
  /\ Rebuild \/ StaysAsItWas
  /\ table' = table => assigned' = assigned

LEMMA ClockTicks ==
  ASSUME TableInv, NEW what, Happens(what)
  PROVE  habit' \in TableWorlds /\ gestures' \in 0 .. MaxGestures
BY CatalogueAssumption DEF CatalogueAssumption, TableInv, WindowIsPlain, Happens

(* A snapshot with other torrents.                                         *)
LEMMA OthersListed ==
  ASSUME TableInv, NEW what, Happens(what), UNCHANGED view,
         NEW ids \in Seq(Entries), Distinct(ids), PublishRows(ids), Refresh(FALSE),
         Len(ids) # Len(table) \/ In(ids) # IdsListed,
         generation' \in Nat, generation' > generation,
         speed' \in [Entries -> Nat], known' \subseteq Entries,
         \A t \in In(ids) : t \in known => t \in known'
  PROVE  /\ WindowIsPlain' /\ EntriesAreTrue' /\ RowsAreTrue' /\ Rebuild
         /\ IdsListed' = In(ids) /\ table' # table
<1>1. \A i \in DOMAIN ids : ids[i] \in known => ids[i] \in known'
  BY DEF In
<1>2. /\ EntriesAreTrue' /\ RowsAreTrue'
      /\ Len(table') = Len(ids) /\ DOMAIN table' = DOMAIN ids
      /\ \A i \in DOMAIN ids : table'[i].id = ids[i]
  BY <1>1, PublishedRows DEF Distinct, TableInv
<1>3. IdsListed' = In(ids)
  BY <1>2 DEF IdsListed, In
<1>4. table' # table
  BY <1>2, <1>3 DEF IdsListed
<1>5. Rebuild
  BY GrownIsRebuilt DEF TableInv
<1>6. late' \in BOOLEAN
  BY <1>5 DEF Rebuild
<1>7. WindowIsPlain'
  BY <1>6, ClockTicks DEF WindowIsPlain, TableInv, view
<1> QED BY <1>2, <1>3, <1>4, <1>5, <1>7

LEMMA AddSteps ==
  ASSUME TableInv, NEW t \in Entries, NEW n \in TypedShelves, NEW folder \in ShelfFolders,
         Add(t, n, folder)
  PROVE  TableSteps
<1> DEFINE ids == Append(Ids, t)
<1>0. EntriesAreTrue /\ RowsAreTrue
  BY DEF TableInv
<1>1. t \notin IdsListed
  BY DEF Add, IdsListed
<1>2. ids \in Seq(Entries) /\ Distinct(ids) /\ In(ids) = IdsListed \cup {t} /\ In(ids) # IdsListed
  BY <1>0, <1>1, IdsAre, AppendIsDistinct
<1>3. /\ Happens("adds") /\ UNCHANGED view /\ PublishRows(ids) /\ Refresh(FALSE)
      /\ UNCHANGED speed /\ known' \subseteq Entries /\ known \subseteq known'
      /\ generation' = generation + 1 /\ Shelve(t, n, folder)
  BY <1>0 DEF Add, Joins, Steady, EntriesAreTrue
<1>4. generation' \in Nat /\ generation' > generation
  BY <1>3 DEF TableInv, WindowIsPlain
<1>5. speed' \in [Entries -> Nat]
  BY <1>0, <1>3 DEF EntriesAreTrue
<1> HIDE DEF ids
<1>6. /\ WindowIsPlain' /\ EntriesAreTrue' /\ RowsAreTrue' /\ Rebuild
      /\ IdsListed' = In(ids) /\ table' # table
  BY <1>2, <1>3, <1>4, <1>5, OthersListed
<1>7. ShelvesAreTrue'
  BY <1>1, <1>2, <1>3, <1>6, ShelvesTake DEF TableInv
<1> QED BY <1>6, <1>7 DEF TableSteps

LEMMA DroppedIds ==
  ASSUME EntriesAreTrue, RowsAreTrue, NEW i \in DOMAIN table
  PROVE  /\ Drop(Ids, i) \in Seq(Entries) /\ Distinct(Drop(Ids, i))
         /\ In(Drop(Ids, i)) = IdsListed \ {table[i].id}
         /\ Len(Drop(Ids, i)) = Len(table) - 1 /\ Len(table) \in Nat
         /\ Drop(Ids, i) = [j \in 1 .. Len(table) - 1 |-> Ids[IF j < i THEN j ELSE j + 1]]
<1>1. /\ Ids \in Seq(Entries) /\ Distinct(Ids) /\ In(Ids) = IdsListed
      /\ Len(Ids) = Len(table) /\ i \in DOMAIN Ids /\ Len(table) \in Nat
      /\ Ids[i] = table[i].id
      /\ Drop(Ids, i) = [j \in 1 .. Len(table) - 1 |-> Ids[IF j < i THEN j ELSE j + 1]]
  BY IdsAre
<1>2. /\ Drop(Ids, i) \in Seq(Entries) /\ Distinct(Drop(Ids, i))
      /\ In(Drop(Ids, i)) = In(Ids) \ {Ids[i]}
      /\ Len(Drop(Ids, i)) = Len(Ids) - 1
  BY <1>1, DropIsDistinct
<1> QED BY <1>1, <1>2

LEMMA RemoveSteps ==
  ASSUME TableInv, NEW i \in DOMAIN table, RemoveRow(i)
  PROVE  TableSteps
<1> DEFINE gone == table[i].id  ids == Drop(Ids, i)
<1>0. EntriesAreTrue /\ RowsAreTrue
  BY DEF TableInv
<1>1. /\ ids \in Seq(Entries) /\ Distinct(ids) /\ In(ids) = IdsListed \ {gone}
      /\ Len(ids) = Len(table) - 1 /\ Len(table) \in Nat
      /\ ids = [j \in 1 .. Len(table) - 1 |-> Ids[IF j < i THEN j ELSE j + 1]]
  BY <1>0, DroppedIds
<1>2. gone \in Entries
  BY <1>0, RowIs
<1>3. /\ Happens("removes") /\ UNCHANGED view /\ PublishRows(ids) /\ Refresh(FALSE)
      /\ known' = known \ {gone} /\ speed' = [speed EXCEPT ![gone] = 0]
      /\ generation' = generation + 1
      /\ Forget(gone) /\ meant' = Without(meant, {gone}) /\ UNCHANGED <<categories, homes>>
  BY <1>1 DEF RemoveRow, Steady
<1>4. generation' \in Nat /\ generation' > generation
  BY <1>3 DEF TableInv, WindowIsPlain
<1>5. speed' \in [Entries -> Nat] /\ known' \subseteq Entries
      /\ \A t \in In(ids) : t \in known => t \in known'
  BY <1>0, <1>1, <1>2, <1>3 DEF EntriesAreTrue
<1> HIDE DEF ids, gone
<1>6. /\ WindowIsPlain' /\ EntriesAreTrue' /\ RowsAreTrue' /\ Rebuild
      /\ IdsListed' = In(ids) /\ table' # table
  <2>1. Len(ids) # Len(table)
    BY <1>1
  <2> QED BY <1>1, <1>3, <1>4, <1>5, <2>1, OthersListed
<1>7. ShelvesAreTrue'
  BY <1>1, <1>3, <1>6, ShelvesForget DEF TableInv
<1> QED BY <1>6, <1>7 DEF TableSteps

LEMMA SwapSteps ==
  ASSUME TableInv, NEW i \in DOMAIN table, NEW t \in Entries, Swap(i, t)
  PROVE  TableSteps
<1> DEFINE gone == table[i].id  rest == Drop(Ids, i)  ids == Append(rest, t)
<1>0. EntriesAreTrue /\ RowsAreTrue
  BY DEF TableInv
<1>1. /\ rest \in Seq(Entries) /\ Distinct(rest) /\ In(rest) = IdsListed \ {gone}
      /\ rest = [j \in 1 .. Len(table) - 1 |-> Ids[IF j < i THEN j ELSE j + 1]]
  BY <1>0, DroppedIds
<1>2. gone \in Entries /\ gone \in IdsListed /\ t \notin IdsListed
  BY <1>0, RowIs DEF Swap, IdsListed
<1>3. /\ ids \in Seq(Entries) /\ Distinct(ids) /\ In(ids) = (IdsListed \ {gone}) \cup {t}
      /\ In(ids) # IdsListed
  <2> HIDE DEF gone, rest
  <2>1. t \notin In(rest)
    BY <1>1, <1>2
  <2>2. rest \in Seq(Entries) /\ Distinct(rest) /\ t \in Entries /\ t \notin In(rest)
    BY <1>1, <2>1
  <2>3. /\ ids \in Seq(Entries) /\ Distinct(ids) /\ In(ids) = In(rest) \cup {t}
    BY <2>2, AppendIsDistinct, Zenon
  <2> QED BY <1>1, <1>2, <2>3
<1>4. /\ Happens("swaps") /\ UNCHANGED view /\ PublishRows(ids) /\ Refresh(FALSE)
      /\ known' = (known \ {gone}) \cup {t} /\ speed' = [speed EXCEPT ![gone] = 0]
      /\ generation' = generation + 2
      /\ Forget(gone) /\ meant' = Without(meant, {gone, t}) /\ UNCHANGED <<categories, homes>>
  BY <1>1 DEF Swap, Steady
<1>5. generation' \in Nat /\ generation' > generation
  BY <1>4 DEF TableInv, WindowIsPlain
<1>6. speed' \in [Entries -> Nat] /\ known' \subseteq Entries
      /\ \A u \in In(ids) : u \in known => u \in known'
  BY <1>0, <1>2, <1>3, <1>4 DEF EntriesAreTrue
<1> HIDE DEF ids, gone, rest
<1>7. /\ WindowIsPlain' /\ EntriesAreTrue' /\ RowsAreTrue' /\ Rebuild
      /\ IdsListed' = In(ids) /\ table' # table
  BY <1>3, <1>4, <1>5, <1>6, OthersListed
<1>8. ShelvesAreTrue'
  <2> DEFINE others == {gone, t}
  <2>1. /\ gone \in others /\ \A u \in others : u # gone => u \notin IdsListed
        /\ meant' = Without(meant, others) /\ IdsListed \ {gone} \subseteq IdsListed'
    BY <1>2, <1>3, <1>4, <1>7
  <2> HIDE DEF others
  <2> QED BY <1>4, <2>1, ShelvesForget DEF TableInv
<1> QED BY <1>7, <1>8 DEF TableSteps

(* A snapshot of the same torrents.                                        *)
LEMMA SameListed ==
  ASSUME TableInv, NEW what, Happens(what), UNCHANGED view, UNCHANGED <<generation, shelves>>,
         NEW arrived \in BOOLEAN, Refresh(arrived), PublishRows(Ids),
         known \subseteq known', known' \subseteq Entries, speed' \in [Entries -> Nat],
         ~arrived => known' = known
  PROVE  TableSteps
<1>1. UNCHANGED <<sort, query, picked, assigned, generation>>
  BY DEF view, shelves
<1>2. /\ EntriesAreTrue' /\ RowsAreTrue' /\ IdsListed' = IdsListed
      /\ late' \in BOOLEAN /\ (Rebuild \/ StaysAsItWas)
  BY <1>1, SameIsKept DEF TableInv
<1>3. WindowIsPlain'
  BY <1>1, <1>2, ClockTicks DEF WindowIsPlain, TableInv
<1>4. ShelvesAreTrue'
  BY <1>2, ShelvesStay DEF TableInv
<1> QED BY <1>1, <1>2, <1>3, <1>4 DEF TableSteps

LEMMA LearnSteps ==
  ASSUME TableInv, NEW i \in DOMAIN table, Learn(i)
  PROVE  TableSteps
<1>1. table[i].id \in Entries
  BY RowIs DEF TableInv
<1>2. /\ known \subseteq known' /\ known' \subseteq Entries /\ speed' \in [Entries -> Nat]
  BY <1>1 DEF Learn, TableInv, EntriesAreTrue
<1>3. /\ Happens("magnets") /\ UNCHANGED view /\ UNCHANGED <<generation, shelves>>
      /\ PublishRows(Ids) /\ Refresh(TRUE)
  BY DEF Learn, Steady
<1> QED BY <1>2, <1>3, SameListed

LEMMA MoveSteps ==
  ASSUME TableInv, NEW i \in DOMAIN table, NEW v \in Speeds, Move(i, v)
  PROVE  TableSteps
<1>1. table[i].id \in Entries /\ v \in Nat
  BY RowIs, CatalogueAssumption DEF CatalogueAssumption, TableInv
<1>2. /\ known' = known /\ known' \subseteq Entries /\ speed' \in [Entries -> Nat]
  BY <1>1 DEF Move, TableInv, EntriesAreTrue
<1>3. /\ Happens("moves") /\ UNCHANGED view /\ UNCHANGED <<generation, shelves>>
      /\ PublishRows(Ids) /\ Refresh(FALSE)
  BY DEF Move, Steady
<1> QED BY <1>2, <1>3, SameListed

LEMMA NarrowSteps ==
  ASSUME TableInv, NEW what, Happens(what),
         NEW by \in [col : Columns, desc : BOOLEAN], NEW words \in Queries \cup {{}}, NEW key,
         Narrow(by, words, key)
  PROVE  TableSteps
<1>1. /\ UNCHANGED <<table, generation, known, content, speed>> /\ UNCHANGED shelves
      /\ assigned' = assigned /\ sort' = by /\ query' = words /\ Rebuild /\ late' = FALSE
  BY DEF Narrow, session, shelves, Rebuild
<1>2. WindowIsPlain'
  BY <1>1, ClockTicks DEF WindowIsPlain, TableInv
<1>3. IdsListed' = IdsListed
  BY <1>1 DEF IdsListed
<1>4. EntriesAreTrue'
  BY <1>1, <1>3 DEF TableInv, EntriesAreTrue, ContentNow
<1>5. RowsAreTrue'
  <2>1. \A t : RowNow(t)' = RowNow(t)
    BY <1>1 DEF RowNow, NameNow, SizeNow, EtaNow
  <2>2. {RowNow(t)' : t \in Entries} = {RowNow(t) : t \in Entries}
    BY <2>1
  <2>3. RowsAreTrue' <=> /\ table' \in Seq({RowNow(t)' : t \in Entries})
                         /\ \A i, j \in DOMAIN table' : table'[i].id = table'[j].id => i = j
    BY DEF RowsAreTrue
  <2> QED BY <1>1, <2>2, <2>3 DEF TableInv, RowsAreTrue
<1>6. ShelvesAreTrue'
  BY <1>1, <1>3, ShelvesStay DEF TableInv
<1> QED BY <1>1, <1>2, <1>4, <1>5, <1>6 DEF TableSteps

LEMMA ClickIsAnOrder ==
  ASSUME WindowIsPlain, NEW col \in Columns
  PROVE  Clicked(col) \in [col : Columns, desc : BOOLEAN]
<1>1. CASE sort.col = col
  BY <1>1 DEF Clicked, WindowIsPlain
<1>2. CASE sort.col # col
  BY <1>2 DEF Clicked, FirstClick
<1> QED BY <1>1, <1>2

LEMMA NothingSteps ==
  ASSUME TableInv, UNCHANGED tableVars
  PROVE  TableSteps
<1>1. /\ UNCHANGED <<table, generation, known, content, speed>> /\ UNCHANGED shelves
      /\ UNCHANGED <<habit, gestures, sort, query, picked, order, built, late, assigned>>
  BY DEF tableVars, session, shelves, view, drawn
<1>2. WindowIsPlain'
  BY <1>1 DEF WindowIsPlain, TableInv
<1>3. IdsListed' = IdsListed
  BY <1>1 DEF IdsListed
<1>4. EntriesAreTrue'
  BY <1>1, <1>3 DEF TableInv, EntriesAreTrue, ContentNow
<1>5. RowsAreTrue'
  <2>1. \A t : RowNow(t)' = RowNow(t)
    BY <1>1 DEF RowNow, NameNow, SizeNow, EtaNow
  <2>2. {RowNow(t)' : t \in Entries} = {RowNow(t) : t \in Entries}
    BY <2>1
  <2>3. RowsAreTrue' <=> /\ table' \in Seq({RowNow(t)' : t \in Entries})
                         /\ \A i, j \in DOMAIN table' : table'[i].id = table'[j].id => i = j
    BY DEF RowsAreTrue
  <2> QED BY <1>1, <2>2, <2>3 DEF TableInv, RowsAreTrue
<1>6. ShelvesAreTrue'
  BY <1>1, <1>3, ShelvesStay DEF TableInv
<1>7. StaysAsItWas
  BY <1>1 DEF StaysAsItWas
<1> QED BY <1>1, <1>2, <1>4, <1>5, <1>6, <1>7 DEF TableSteps

LEMMA StepsOfTheTable ==
  ASSUME NothingRefused, TableInv, [TableNext]_tableVars
  PROVE  TableSteps
<1>1. ASSUME NEW t \in Entries, NEW n \in TypedShelves, NEW folder \in ShelfFolders,
             Add(t, n, folder) \/ Refused(t, n, folder)
      PROVE  TableSteps
  <2>1. CASE Add(t, n, folder)
    BY <2>1, AddSteps
  <2>2. CASE Refused(t, n, folder)
    BY <2>2 DEF Refused, Happens, NothingRefused, TableInv, WindowIsPlain
  <2> QED BY <1>1, <2>1, <2>2
<1>2. ASSUME NEW i \in DOMAIN table,
             \/ RemoveRow(i) \/ Learn(i)
             \/ \E t \in Entries : Swap(i, t)
             \/ \E v \in Speeds : Move(i, v)
      PROVE  TableSteps
  BY <1>2, RemoveSteps, LearnSteps, SwapSteps, MoveSteps
<1>3. /\ sort \in [col : Columns, desc : BOOLEAN] /\ query \in Queries \cup {{}}
      /\ WindowIsPlain
  BY DEF TableInv, WindowIsPlain
<1>4. ASSUME NEW col \in Columns, Click(col)
      PROVE  TableSteps
  <2>1. Clicked(col) \in [col : Columns, desc : BOOLEAN]
    BY <1>3, ClickIsAnOrder
  <2> QED BY <1>3, <1>4, <2>1, NarrowSteps DEF Click
<1>5. ASSUME NEW words \in Queries, Type(words)
      PROVE  TableSteps
  BY <1>3, <1>5, NarrowSteps DEF Type
<1>6. ASSUME NEW key, Pick(key)
      PROVE  TableSteps
  BY <1>3, <1>6, NarrowSteps DEF Pick
<1>7. ASSUME ShowAll
      PROVE  TableSteps
  BY <1>3, <1>7, NarrowSteps DEF ShowAll
<1>8. CASE UNCHANGED tableVars
  BY <1>8, NothingSteps
<1>9. CASE TableNext
  BY <1>1, <1>2, <1>4, <1>5, <1>6, <1>7, <1>9 DEF TableNext
<1> QED BY <1>8, <1>9

LEMMA TableInvKept ==
  ASSUME TableInv, TableSteps
  PROVE  TableInv'
<1>1. WindowIsPlain' /\ EntriesAreTrue' /\ RowsAreTrue' /\ ShelvesAreTrue'
  BY DEF TableSteps
<1>2. OrderIsTrue'
  <2>1. CASE Rebuild
    BY <1>1, <2>1, RebuiltOrder DEF WindowIsPlain
  <2>2. CASE StaysAsItWas
    BY <1>1, <2>2, StayingOrder DEF WindowIsPlain, TableInv
  <2> QED BY <2>1, <2>2 DEF TableSteps
<1> QED BY <1>1, <1>2 DEF TableInv

LEMMA NothingListed ==
  ASSUME NEW s, s = <<>>
  PROVE  /\ DOMAIN s = {} /\ \A S : s \in Seq(S)
         /\ s \in [1 .. 0 -> {}]
<1>1. DOMAIN s = {}
  OBVIOUS
<1>2. \A S : s \in Seq(S)
  OBVIOUS
<1>3. s \in [1 .. 0 -> {}]
  <2>1. s \in Seq({}) /\ Len(s) = 0
    OBVIOUS
  <2>2. s \in [1 .. Len(s) -> {}]
    BY <2>1, SeqDef
  <2> QED BY <2>1, <2>2
<1> QED BY <1>1, <1>2, <1>3

LEMMA TableInvAtFirst ==
  TableInit => TableInv
<1> SUFFICES ASSUME TableInit
             PROVE  TableInv
  OBVIOUS
<1>1. /\ table = <<>> /\ order = <<>>
      /\ categories = <<>> /\ stored = <<>> /\ assigned = <<>> /\ homes = <<>> /\ meant = <<>>
  BY DEF TableInit
<1>2. /\ DOMAIN table = {} /\ DOMAIN order = {} /\ DOMAIN categories = {}
      /\ DOMAIN assigned = {} /\ DOMAIN meant = {} /\ DOMAIN homes = {}
      /\ \A S : table \in Seq(S) /\ order \in Seq(S)
      /\ order \in [1 .. 0 -> {}]
  BY <1>1, NothingListed
<1>3. WindowIsPlain
  <2>1. /\ habit \in TableWorlds /\ generation = 1 /\ query = {} /\ late = FALSE /\ gestures = 0
        /\ sort = [col |-> "name", desc |-> FALSE]
    BY DEF TableInit, FirstClick
  <2>2. sort \in [col : Columns, desc : BOOLEAN]
    BY <2>1 DEF Columns
  <2>3. 0 \in 0 .. MaxGestures
    BY CatalogueAssumption DEF CatalogueAssumption
  <2> QED BY <2>1, <2>2, <2>3 DEF WindowIsPlain
<1>4. EntriesAreTrue
  <2>1. /\ known = {} /\ content = [t \in Entries |-> "none"] /\ speed = [t \in Entries |-> 0]
    BY DEF TableInit
  <2>2. IdsListed = {}
    BY <1>2 DEF IdsListed
  <2> QED BY <2>1, <2>2 DEF EntriesAreTrue
<1>5. RowsAreTrue
  BY <1>2 DEF RowsAreTrue
<1>6. OrderIsTrue
  <2>1. InOrder
    BY <1>2 DEF InOrder
  <2>2. KeptRows = {}
    BY <1>2 DEF KeptRows
  <2>3. Cardinality(KeptRows) = 0
    BY <2>2, FS_EmptySet
  <2>4. order \in [1 .. Cardinality(KeptRows) -> KeptRows]
    BY <1>2, <2>2, <2>3
  <2>5. order \in Seq(DOMAIN table) /\ Once
    BY <1>2 DEF Once
  <2>6. built.generation \in Nat /\ built.generation <= generation
    <3>1. built = [generation |-> 0, rows |-> 0] /\ generation = 1
      BY DEF TableInit
    <3> QED BY <3>1
  <2> QED BY <2>1, <2>4, <2>5, <2>6 DEF OrderIsTrue
<1>7. ShelvesAreTrue
  BY <1>1, <1>2 DEF ShelvesAreTrue, OneShelfPerName
<1> QED BY <1>3, <1>4, <1>5, <1>6, <1>7 DEF TableInv

----------------------------------------------------------------------------
LEMMA KeptIsFinite ==
  ASSUME RowsAreTrue
  PROVE  IsFiniteSet(KeptRows) /\ Cardinality(KeptRows) \in Nat
<1>1. DOMAIN table = 1 .. Len(table) /\ Len(table) \in Nat
  BY DEF RowsAreTrue
<1>2. KeptRows \in SUBSET (1 .. Len(table))
  BY <1>1 DEF KeptRows
<1> QED BY <1>1, <1>2, PartIsFinite

LEMMA AsLong ==
  ASSUME NEW n \in Nat, NEW S, NEW f \in [1 .. n -> S]
  PROVE  DOMAIN f = 1 .. n /\ Len(f) = n
OBVIOUS

(* Once each, and as many as are kept: every row that is kept is listed.   *)
LEMMA OrderIsWhole ==
  ASSUME RowsAreTrue, OrderIsTrue, ~late \/ query = {}, NEW i \in KeptRows
  PROVE  \E p \in DOMAIN order : order[p] = i
<1> DEFINE n == Cardinality(KeptRows)
<1>1. order \in [1 .. n -> KeptRows] /\ Once
  BY DEF OrderIsTrue
<1>2. IsFiniteSet(KeptRows) /\ n \in Nat
  BY KeptIsFinite
<1>3. DOMAIN order = 1 .. n /\ Len(order) = n
  BY <1>1, <1>2, AsLong
<1>4. order \in Injection(1 .. n, KeptRows)
  BY <1>1, <1>3 DEF Injection, IsInjective, Once
<1>5. Cardinality(1 .. n) = n
  BY <1>2, FS_Interval
<1>6. order \in Surjection(1 .. n, KeptRows)
  BY <1>2, <1>4, <1>5, FS_Injection
<1> QED BY <1>3, <1>6 DEF Surjection

LEMMA PlaceOf ==
  ASSUME NEW t \in Listed
  PROVE  Place(t) \in DOMAIN order /\ table[order[Place(t)]].id = t
BY DEF Listed, Place

LEMMA PlaceOfNext ==
  ASSUME NEW t \in Listed'
  PROVE  Place(t)' \in DOMAIN order' /\ table'[order'[Place(t)']].id = t
BY DEF Listed, Place

(* Who stands first precedes.                                              *)
LEMMA FirstPrecedes ==
  ASSUME NEW lines, NEW list, NEW by, NEW p \in DOMAIN list, NEW q \in DOMAIN list,
         NEW S, list \in Seq(S), p < q,
         \A i \in DOMAIN list : \A j \in i + 1 .. Len(list) :
           list[i] # list[j] /\ Precedes(lines[list[i]], lines[list[j]], by)
  PROVE  Precedes(lines[list[p]], lines[list[q]], by)
<1>1. q \in p + 1 .. Len(list)
  OBVIOUS
<1> QED BY <1>1

----------------------------------------------------------------------------
(* What the invariant says to who looks at the table.                      *)
LEMMA TypesFollow ==
  ASSUME TableInv
  PROVE  TableTypeOK
<1>1. /\ WindowIsPlain /\ EntriesAreTrue /\ RowsAreTrue
  BY DEF TableInv
<1>2. ASSUME NEW i \in DOMAIN table
      PROVE  /\ table[i].id \in Entries /\ table[i].size \in Nat
             /\ table[i].content \in Named \cup {"unknown", "mixed"}
  <2> DEFINE t == table[i].id
  <2>1. t \in Entries /\ table[i] = RowNow(t) /\ t \in IdsListed
    BY <1>1, RowIs DEF IdsListed
  <2> HIDE DEF t
  <2>2. table[i].size = SizeNow(t) /\ table[i].content = content[t]
    BY <2>1 DEF RowNow
  <2>3. SizeNow(t) \in Nat
    BY <1>1, <2>1, NamesNow
  <2>4. content[t] = ContentNow(t)
    BY <1>1, <2>1 DEF EntriesAreTrue
  <2>5. ContentNow(t) \in Named \cup {"unknown", "mixed"}
    BY <2>1, KindIsKind DEF ContentNow
  <2> QED BY <2>1, <2>2, <2>3, <2>4, <2>5 DEF t
<1>3. DOMAIN stored \subseteq Entries /\ DOMAIN assigned \subseteq Entries
  BY <1>2 DEF TableInv, ShelvesAreTrue, IdsListed
<1>4. \A i \in DOMAIN order : order[i] \in DOMAIN table
  BY DEF TableInv, OrderIsTrue
<1> QED BY <1>1, <1>2, <1>3, <1>4 DEF TableTypeOK, WindowIsPlain, EntriesAreTrue

LEMMA ShelvesFollow ==
  ASSUME TableInv
  PROVE  OneShelfPerName /\ OnItsOwnShelf
BY DEF TableInv, ShelvesAreTrue, OnItsOwnShelf

(* The rows that are kept are the torrents that say what was typed and     *)
(* were put on the shelf.                                                  *)
LEMMA KeptAreThoseLeft ==
  ASSUME TableInv, NEW i \in DOMAIN table
  PROVE  i \in KeptRows <=>
           /\ \A word \in query : IsNamed(table[i].id, word)
           /\ picked # "" => table[i].id \in DOMAIN meant /\ meant[table[i].id] = picked
<1> DEFINE t == table[i].id
<1>1. table[i] = RowNow(t)
  BY RowIs DEF TableInv
<1>2. table[i].name = NameNow(t)
  <2> HIDE DEF t
  <2> QED BY <1>1 DEF RowNow
<1>3. Matches(table[i], query) <=> \A word \in query : IsNamed(t, word)
  <2>1. CASE t \in known
    BY <1>2, <2>1 DEF Matches, NameNow, IsNamed
  <2>2. CASE t \notin known
    <3>1. table[i].name.has = {"hash"}
      BY <1>2, <2>2 DEF NameNow
    <3> QED BY <2>2, <3>1 DEF Matches, IsNamed
  <2> QED BY <2>1, <2>2
<1>4. IsOnNow(table[i]) <=> (picked # "" => t \in DOMAIN meant /\ meant[t] = picked)
  BY DEF IsOnNow, TableInv, ShelvesAreTrue
<1> QED BY <1>3, <1>4 DEF KeptRows

LEMMA RowsFollow ==
  ASSUME TableInv
  PROVE  RowsAreThoseLeft
<1>0. RowsAreTrue /\ OrderIsTrue
  BY DEF TableInv
<1>1. order \in Seq(DOMAIN table) /\ Once
  BY <1>0 DEF OrderIsTrue
<1>2. ASSUME NEW p \in DOMAIN order PROVE order[p] \in DOMAIN table
  BY <1>1
<1>3. \A p, q \in DOMAIN order : table[order[p]].id = table[order[q]].id => p = q
  BY <1>0, <1>1, <1>2 DEF RowsAreTrue, Once
<1>4. ASSUME ~late \/ query = {}
      PROVE  Listed = {table[i].id : i \in KeptRows}
  <2>1. ASSUME NEW p \in DOMAIN order PROVE order[p] \in KeptRows
    <3>1. order \in [1 .. Cardinality(KeptRows) -> KeptRows]
      BY <1>0, <1>4 DEF OrderIsTrue
    <3> QED BY <3>1
  <2>2. ASSUME NEW i \in KeptRows PROVE \E p \in DOMAIN order : order[p] = i
    BY <1>0, <1>4, OrderIsWhole
  <2> QED BY <2>1, <2>2 DEF Listed
<1>5. KeptRows = {k \in DOMAIN table :
         /\ \A word \in query : IsNamed(table[k].id, word)
         /\ picked # "" => table[k].id \in DOMAIN meant /\ meant[table[k].id] = picked}
  <2>1. KeptRows \subseteq DOMAIN table
    BY DEF KeptRows
  <2> QED BY <2>1, KeptAreThoseLeft
<1> QED BY <1>3, <1>4, <1>5 DEF RowsAreThoseLeft

LEMMA CountFollows ==
  ASSUME TableInv
  PROVE  CountIsWhatShows
<1> SUFFICES ASSUME picked # "", query = {}
             PROVE  Len(order) = Count(picked)
  BY DEF CountIsWhatShows
<1>1. KeptRows = {i \in DOMAIN table : table[i].id \in On(picked)}
  BY DEF KeptRows, IsOnNow, Matches, On
<1>2. order \in [1 .. Cardinality(KeptRows) -> KeptRows]
  BY DEF TableInv, OrderIsTrue
<1>3. Cardinality(KeptRows) \in Nat
  BY KeptIsFinite DEF TableInv
<1>4. Len(order) = Cardinality(KeptRows)
  BY <1>2, <1>3, AsLong
<1> QED BY <1>1, <1>4 DEF Count

LEMMA OrderFollows ==
  ASSUME TableInv
  PROVE  RowsAreInOrder
<1>0. WindowIsPlain /\ EntriesAreTrue /\ RowsAreTrue /\ OrderIsTrue
  BY DEF TableInv
<1> SUFFICES ASSUME ~late, NEW i \in DOMAIN order, NEW j \in i + 1 .. Len(order)
             PROVE  LET lesser == table[IF sort.desc THEN order[j] ELSE order[i]]
                        greater == table[IF sort.desc THEN order[i] ELSE order[j]]
                    IN  CASE sort.col = "name"  -> lesser.name.at <= greater.name.at
                          [] sort.col = "size"  -> lesser.size <= greater.size
                          [] sort.col = "moves" -> lesser.moves <= greater.moves
                          [] sort.col = "eta"   -> greater.eta = None \/ (lesser.eta # None /\ lesser.eta <= greater.eta)
  BY DEF RowsAreInOrder
<1> DEFINE k == IF sort.desc THEN order[j] ELSE order[i]
           l == IF sort.desc THEN order[i] ELSE order[j]
           lesser == table[k]
           greater == table[l]
<1>1. k \in DOMAIN table /\ l \in DOMAIN table
  <2>1. order \in Seq(DOMAIN table)
    BY <1>0 DEF OrderIsTrue
  <2> HIDE DEF k, l
  <2>2. i \in DOMAIN order /\ j \in DOMAIN order
    BY <2>1
  <2>3. order[i] \in DOMAIN table /\ order[j] \in DOMAIN table
    BY <2>1, <2>2
  <2> QED BY <2>3 DEF k, l
<1>2. Precedes(table[order[i]], table[order[j]], sort)
  BY <1>0 DEF OrderIsTrue, InOrder
<1>3. sort.col \in Columns /\ sort.desc \in BOOLEAN
  BY <1>0 DEF WindowIsPlain
<1>4. Value(lesser, sort.col) \in Int /\ Value(greater, sort.col) \in Int
  BY <1>0, <1>1, <1>3, ValueIsInt
<1>5. Value(lesser, sort.col) <= Value(greater, sort.col)
  <2>1. CASE sort.desc
    BY <1>2, <1>4, <2>1 DEF Precedes
  <2>2. CASE ~sort.desc
    BY <1>2, <1>4, <2>2 DEF Precedes
  <2> QED BY <2>1, <2>2
<1>6. /\ lesser.eta \in Nat \cup {None} /\ (lesser.eta # None => lesser.eta < Longest)
      /\ greater.eta \in Nat \cup {None} /\ (greater.eta # None => greater.eta < Longest)
  <2>1. ASSUME NEW m \in DOMAIN table
        PROVE  /\ table[m].eta \in Nat \cup {None}
               /\ (table[m].eta # None => table[m].eta < Longest)
    <3> DEFINE t == table[m].id
    <3>1. t \in Entries /\ table[m] = RowNow(t)
      BY <1>0, RowIs
    <3> HIDE DEF t
    <3>2. table[m].eta = EtaNow(t)
      BY <3>1 DEF RowNow
    <3> QED BY <1>0, <3>1, <3>2, NamesNow
  <2> HIDE DEF k, l
  <2> QED BY <1>1, <2>1
<1> HIDE DEF lesser, greater
<1>7. CASE sort.col = "name"
  BY <1>5, <1>7 DEF Value, lesser, greater
<1>8. CASE sort.col = "size"
  BY <1>5, <1>8 DEF Value, lesser, greater
<1>9. CASE sort.col = "moves"
  BY <1>5, <1>9 DEF Value, lesser, greater
<1>10. CASE sort.col = "eta"
  <2>1. Value(lesser, "eta") = (IF lesser.eta = None THEN Longest ELSE lesser.eta)
        /\ Value(greater, "eta") = (IF greater.eta = None THEN Longest ELSE greater.eta)
    BY DEF Value
  <2>2. greater.eta = None \/ (lesser.eta # None /\ lesser.eta <= greater.eta)
    BY <1>5, <1>6, <1>10, <2>1 DEF Longest, None
  <2> QED BY <1>10, <2>2 DEF lesser, greater
<1> QED BY <1>3, <1>7, <1>8, <1>9, <1>10 DEF Columns

LEMMA ContentFollows ==
  ASSUME TableInv
  PROVE  ContentIsEarned
<1>0. EntriesAreTrue /\ RowsAreTrue
  BY DEF TableInv
<1> SUFFICES ASSUME NEW i \in DOMAIN table
             PROVE  LET files == Catalogue[table[i].id].files
                        rest(k) == Bytes(files) - HeldOf(files, k)
                    IN  IF table[i].id \notin known \/ Bytes(files) = 0
                          THEN table[i].content = "unknown"
                        ELSE IF table[i].content = "mixed"
                          THEN \A k \in Named : 2 * rest(k) > HeldOf(files, k)
                        ELSE /\ table[i].content \in Named
                             /\ 2 * rest(table[i].content) <= HeldOf(files, table[i].content)
  BY DEF ContentIsEarned
<1> DEFINE t == table[i].id  files == Catalogue[t].files
<1>1. t \in Entries /\ table[i] = RowNow(t) /\ t \in IdsListed
  BY <1>0, RowIs DEF IdsListed
<1>2. table[i].content = content[t]
  <2> HIDE DEF t
  <2> QED BY <1>1 DEF RowNow
<1>3. content[t] = ContentNow(t)
  BY <1>0, <1>1 DEF EntriesAreTrue
<1>4. table[i].content = IF t \in known THEN Of(files) ELSE "unknown"
  BY <1>2, <1>3 DEF ContentNow
<1>5. IF Bytes(files) = 0 THEN Of(files) = "unknown"
      ELSE \/ Of(files) = "mixed"
              /\ \A k \in Named : 2 * (Bytes(files) - HeldOf(files, k)) > HeldOf(files, k)
           \/ Of(files) \in Named
              /\ 2 * (Bytes(files) - HeldOf(files, Of(files))) <= HeldOf(files, Of(files))
  BY <1>1, KindIsEarned
<1>6. "mixed" \notin Named
  BY DEF Named
<1> HIDE DEF files
<1>7. CASE t \notin known
  BY <1>4, <1>7
<1>8. CASE t \in known /\ Bytes(files) = 0
  BY <1>4, <1>5, <1>8 DEF files
<1>9. CASE t \in known /\ Bytes(files) # 0
  BY <1>4, <1>5, <1>6, <1>9 DEF files
<1> QED BY <1>7, <1>8, <1>9 DEF files

----------------------------------------------------------------------------
(* Of two rows in order, the one that precedes stands first.               *)
LEMMA PlacesAreOrder ==
  ASSUME NEW lines, NEW list, NEW by, NEW S, list \in Seq(S),
         \A i \in DOMAIN list : \A j \in i + 1 .. Len(list) :
           list[i] # list[j] /\ Precedes(lines[list[i]], lines[list[j]], by),
         NEW p \in DOMAIN list, NEW q \in DOMAIN list, p # q,
         ~(/\ Precedes(lines[list[p]], lines[list[q]], by)
           /\ Precedes(lines[list[q]], lines[list[p]], by))
  PROVE  p < q <=> Precedes(lines[list[p]], lines[list[q]], by)
<1>1. p \in Nat /\ q \in Nat
  OBVIOUS
<1>2. CASE p < q
  BY <1>2, FirstPrecedes
<1>3. CASE q < p
  <2>1. Precedes(lines[list[q]], lines[list[p]], by)
    BY <1>3, FirstPrecedes
  <2> QED BY <1>1, <1>3, <2>1
<1> QED BY <1>1, <1>2, <1>3

LEMMA StillRowsStayStep ==
  ASSUME TableInv, TableSteps, sort' = sort,
         NEW t \in Listed \cap Listed', NEW u \in Listed \cap Listed',
         ~late, t # u,
         table[order[Place(t)]] = table'[order'[Place(t)']],
         table[order[Place(u)]] = table'[order'[Place(u)']]
  PROVE  (Place(t) < Place(u)) = (Place(t)' < Place(u)')
<1>0. WindowIsPlain /\ EntriesAreTrue /\ RowsAreTrue /\ OrderIsTrue
  BY DEF TableInv
<1>1. CASE StaysAsItWas
  <2>1. /\ order' = order /\ DOMAIN table' = DOMAIN table
        /\ \A i \in DOMAIN order : table'[order[i]].id = table[order[i]].id
    <3>1. \A i \in DOMAIN order : order[i] \in DOMAIN table
      <4>1. order \in Seq(DOMAIN table)
        BY <1>0 DEF OrderIsTrue
      <4> QED BY <4>1
    <3>2. /\ order' = order /\ DOMAIN table' = DOMAIN table
          /\ \A i \in DOMAIN table : table'[i].id = table[i].id
      BY <1>1 DEF StaysAsItWas
    <3> QED BY <3>1, <3>2
  <2>2. /\ Place(t) = CHOOSE i \in DOMAIN order : table[order[i]].id = t
        /\ Place(u) = CHOOSE i \in DOMAIN order : table[order[i]].id = u
        /\ Place(t)' = CHOOSE i \in DOMAIN order' : table'[order'[i]].id = t
        /\ Place(u)' = CHOOSE i \in DOMAIN order' : table'[order'[i]].id = u
    BY DEF Place
  <2>3. \A x : \A i \in DOMAIN order :
          (table'[order[i]].id = x) <=> (table[order[i]].id = x)
    BY <2>1
  <2>4. Place(t)' = Place(t) /\ Place(u)' = Place(u)
    BY <2>1, <2>2, <2>3
  <2> QED BY <2>4
<1>2. CASE Rebuild
  <2> DEFINE p == Place(t)  q == Place(u)  p1 == Place(t)'  q1 == Place(u)'
             rt == table[order[p]]  ru == table[order[q]]
  <2>1. /\ p \in DOMAIN order /\ q \in DOMAIN order /\ rt.id = t /\ ru.id = u
        /\ p1 \in DOMAIN order' /\ q1 \in DOMAIN order'
        /\ table'[order'[p1]] = rt /\ table'[order'[q1]] = ru
    BY PlaceOf, PlaceOfNext
  <2>2. /\ OrderIsTrue' /\ late' = FALSE
    BY <1>2, RebuiltOrder DEF TableSteps, WindowIsPlain
  <2>3. /\ order \in Seq(DOMAIN table)
        /\ \A i \in DOMAIN order : \A j \in i + 1 .. Len(order) :
             order[i] # order[j] /\ Precedes(table[order[i]], table[order[j]], sort)
    BY <1>0 DEF OrderIsTrue, InOrder
  <2>4. InOrder' <=> \A i \in DOMAIN order' : \A j \in i + 1 .. Len(order') :
            order'[i] # order'[j] /\ Precedes(table'[order'[i]], table'[order'[j]], sort')
    BY DEF InOrder, Precedes, Value
  <2>5. /\ order' \in Seq(DOMAIN table')
        /\ \A i \in DOMAIN order' : \A j \in i + 1 .. Len(order') :
             order'[i] # order'[j] /\ Precedes(table'[order'[i]], table'[order'[j]], sort)
    BY <2>2, <2>4 DEF OrderIsTrue
  <2>6. order[p] \in DOMAIN table /\ order[q] \in DOMAIN table
    BY <2>1, <2>3
  <2>7. ~(Precedes(rt, ru, sort) /\ Precedes(ru, rt, sort))
    BY <1>0, <2>6, PrecedesOneWay DEF WindowIsPlain
  <2> HIDE DEF p, q, p1, q1
  <2>8. p # q /\ p1 # q1
    BY <2>1
  <2>9. p < q <=> Precedes(rt, ru, sort)
    BY <2>1, <2>3, <2>7, <2>8, PlacesAreOrder
  <2>10. p1 < q1 <=> Precedes(rt, ru, sort)
    <3>1. ~(/\ Precedes(table'[order'[p1]], table'[order'[q1]], sort)
            /\ Precedes(table'[order'[q1]], table'[order'[p1]], sort))
      BY <2>1, <2>7
    <3>2. p1 < q1 <=> Precedes(table'[order'[p1]], table'[order'[q1]], sort)
      BY <2>1, <2>5, <2>8, <3>1, PlacesAreOrder
    <3> QED BY <2>1, <3>2
  <2>11. p \in Int /\ q \in Int /\ p1 \in Int /\ q1 \in Int
    BY <2>1, <2>3, <2>5
  <2>12. (p < q) = (p1 < q1)
    BY <2>9, <2>10, <2>11
  <2> QED BY <2>12 DEF p, q, p1, q1
<1> QED BY <1>1, <1>2 DEF TableSteps

LEMMA NarrowingStep ==
  ASSUME TableInv, TableSteps, query \subseteq query', picked' = picked, table' = table, ~late
  PROVE  Listed' \subseteq Listed
<1>0. WindowIsPlain /\ EntriesAreTrue /\ RowsAreTrue /\ OrderIsTrue
  BY DEF TableInv
<1>1. Listed' = {table'[order'[i]].id : i \in DOMAIN order'}
  BY DEF Listed
<1>2. CASE StaysAsItWas
  BY <1>1, <1>2 DEF StaysAsItWas, Listed
<1>3. CASE Rebuild
  <2>1. order' \in [1 .. Cardinality(KeptRows') -> KeptRows']
    BY <1>3, RebuiltOrder DEF TableSteps, WindowIsPlain
  <2>2. ASSUME NEW i \in KeptRows'
        PROVE  i \in KeptRows
    <3>1. assigned' = assigned
      BY DEF TableSteps
    <3>2. /\ i \in DOMAIN table /\ Matches(table[i], query')
          /\ picked # "" => table[i].id \in DOMAIN assigned /\ Key(assigned[table[i].id]) = picked
      <4>1. KeptRows' = {k \in DOMAIN table' :
              /\ picked' # "" => /\ table'[k].id \in DOMAIN assigned'
                                 /\ Key(assigned'[table'[k].id]) = picked'
              /\ Matches(table'[k], query')}
        BY DEF KeptRows, IsOnNow, Matches
      <4> QED BY <2>2, <3>1, <4>1
    <3> QED BY <3>2 DEF KeptRows, IsOnNow, Matches
  <2> SUFFICES ASSUME NEW k \in DOMAIN order'
               PROVE  table'[order'[k]].id \in Listed
    BY <1>1
  <2>3. order'[k] \in KeptRows
    BY <2>1, <2>2
  <2>4. PICK p \in DOMAIN order : order[p] = order'[k]
    BY <1>0, <2>3, OrderIsWhole
  <2> QED BY <2>4 DEF Listed
<1> QED BY <1>2, <1>3 DEF TableSteps

(* The rows are those the search and the shelf leave, in the order of the  *)
(* column and on the shelves their torrents were added to; those that did  *)
(* not change do not move, and one more word brings none back: for any     *)
(* torrents, shelves, words and speeds, as long as the engine refuses      *)
(* nothing that was put on a shelf.                                        *)
THEOREM TableTellsTheTruth ==
  ASSUME NothingRefused
  PROVE  TableSpec => TableIsRight
<1>1. TableInit => TableInv
  BY TableInvAtFirst
<1>2. TableInv /\ [TableNext]_tableVars => TableInv'
  BY StepsOfTheTable, TableInvKept
<1>3. TableInv => /\ TableTypeOK
                  /\ OneShelfPerName /\ OnItsOwnShelf /\ RowsAreThoseLeft /\ CountIsWhatShows
                  /\ RowsAreInOrder /\ ContentIsEarned
  BY TypesFollow, ShelvesFollow, RowsFollow, CountFollows, OrderFollows, ContentFollows
<1>4. TableInv /\ [TableNext]_tableVars =>
        [sort' = sort =>
           \A t \in Listed \cap Listed' : \A u \in Listed \cap Listed' :
             /\ ~late /\ t # u
             /\ table[order[Place(t)]] = table'[order'[Place(t)']]
             /\ table[order[Place(u)]] = table'[order'[Place(u)']]
             => (Place(t) < Place(u)) = (Place(t)' < Place(u)')]_tableVars
  BY StepsOfTheTable, StillRowsStayStep
<1>5. TableInv /\ [TableNext]_tableVars =>
        [query \subseteq query' /\ picked' = picked /\ table' = table /\ ~late
           => Listed' \subseteq Listed]_tableVars
  BY StepsOfTheTable, NarrowingStep
<1> QED BY <1>1, <1>2, <1>3, <1>4, <1>5, PTL
        DEF TableSpec, TableIsRight, StillRowsStay, NarrowingOnlyHides
=============================================================================
