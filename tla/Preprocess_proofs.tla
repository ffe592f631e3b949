-------------------------- MODULE Preprocess_proofs --------------------------
(***************************************************************************)
(* Theorems about Preprocess: whatever the file and its texts, however deep *)
(* they nest, every expansion is counted while it goes on and no longer,   *)
(* and the environment variables that matter are remembered.               *)
(***************************************************************************)
EXTENDS Preprocess, FiniteSetTheorems, SequenceTheorems, TLAPS

-----------------------------------------------------------------------------
(* The inductive invariant, part one: the machine and what it counts.        *)

Keys == {<<n>> : n \in Names}
WordItem == [word : STRING]

Variable == [flavor : {"simple", "recursive"}, text : Seq(Item), exp_count : Int]
Tables == UNION {[D -> Variable] : D \in SUBSET Keys}

StringFrame == [proc : {"string"}, text : Seq(Item), args : Seq(Phrase),
                out : Phrase, of : Keys \union {NoName}]
ClauseFrame == [proc : {"clause"}, clauses : Seq(Texts), args : Seq(Phrase),
                words : Seq(Phrase)]
Frame == StringFrame \union ClauseFrame

Errors == {"", "references itself", "too deep", "too few arguments", "too many arguments",
           "error-if", "crash"}

Machine == [table : Tables, env_list : SUBSET Phrase, seen : SUBSET Keys, line : Nat,
            error : Errors, out : Phrase, results : Seq(Phrase), stack : Seq(Frame)]

\* The frames that expand the value of the variable n.
Expands(f, n) == f.proc = "string" /\ f.of = n
Open(s, n) == {i \in 1 .. Len(s) : Expands(s[i], n)}
Opens(s, n) == Cardinality(Open(s, n))
Once(f, n) == IF Expands(f, n) THEN 1 ELSE 0

\* Something has been expanded when what it names is looked up.
TopOK(m) ==
  m.stack # <<>> /\ Top(m).proc = "clause" /\ Top(m).clauses = <<>> => Top(m).words # <<>>

Plain(m) ==
  \A n \in DOMAIN m.table : m.table[n].flavor = "simple" => m.table[n].text \in Seq(WordItem)

Counted(t, s) == \A n \in DOMAIN t : t[n].exp_count = Opens(s, n)

\* What the frames expand is in D.
Owned(s, D) ==
  \A i \in 1 .. Len(s) : s[i].proc = "string" => s[i].of \in D \union {NoName}

Fine(m) ==
  /\ m \in Machine
  /\ Plain(m)
  /\ m.stack # <<>> => m.line \in 1 .. Len(Numerals) /\ m.error = ""
  /\ m.error = "" => Counted(m.table, m.stack) /\ Owned(m.stack, DOMAIN m.table)

Good(m) == Fine(m) /\ TopOK(m)

Statements ==
  [kind : Flavors, name : Names, text : Values] \union
  [kind : {"use"}, name : {""}, text : Uses]

\* What the statement being read assigns to has its place in the table.
Placed(m) ==
  reading /\ Statement.kind # "use" /\ m.error = "" => <<Statement.name>> \in DOMAIN m.table

MachineInv(m) ==
  /\ Good(m)
  /\ m.line <= Len(read)
  /\ ~reading => m.stack = <<>>
  /\ Placed(m)

Inv ==
  /\ env \in Environments /\ other \in Environments
  /\ read \in Seq(Statements) /\ Len(read) <= MaxStatements
  /\ reading \in BOOLEAN /\ undefined \in BOOLEAN
  /\ reading => read # <<>>
  /\ MachineInv(state)
  /\ MachineInv(again)

-----------------------------------------------------------------------------
(* Part two: the two readings go the same way.                               *)

\* The values of the variables in X are free.
TwinTables(t1, t2, X) ==
  /\ DOMAIN t2 = DOMAIN t1
  /\ \A n \in DOMAIN t1 :
       /\ t2[n].flavor = t1[n].flavor
       /\ t2[n].exp_count = t1[n].exp_count
       /\ n \notin X => t2[n].text = t1[n].text

Twin(m1, m2, X) ==
  /\ m2.error = m1.error
  /\ m2.results = m1.results
  /\ m1.error = "" => /\ m2.stack = m1.stack /\ m2.out = m1.out /\ m2.line = m1.line
                      /\ TwinTables(m1.table, m2.table, X)

Freed == IF reading /\ Statement.kind = "simple" THEN {<<Statement.name>>} ELSE {}

TwinInv ==
  ~undefined /\ ~(reading /\ ReadsItself) /\ Differ \subseteq Forgotten =>
    Twin(state, again, Freed)

-----------------------------------------------------------------------------
(* Frames and what they count.                                               *)

LEMMA NoNameFree == NoName \notin Keys /\ Keys \subseteq Phrase
<1>1. ASSUME NEW n \in Names
      PROVE  <<n>> # <<>> /\ <<n>> \in Seq(STRING)
  BY WordsAssumption
<1> QED
  BY <1>1 DEF NoName, Keys, Phrase

LEMMA Empties ==
  /\ <<>> \in Seq(Frame) /\ <<>> \in Phrase /\ <<>> \in Seq(Phrase)
  /\ <<>> \in Seq(Item) /\ <<>> \in Seq(Texts)
BY DEF Phrase

LEMMA OpenFinite ==
  ASSUME NEW s \in Seq(Frame), NEW n
  PROVE  IsFiniteSet(Open(s, n)) /\ Opens(s, n) \in Nat
<1>1. IsFiniteSet(1 .. Len(s))
  BY FS_Interval
<1>2. Open(s, n) \subseteq 1 .. Len(s)
  BY DEF Open
<1>3. IsFiniteSet(Open(s, n))
  BY <1>1, <1>2, FS_Subset
<1> QED
  BY <1>3, FS_CardinalityType DEF Opens

\* A frame is counted when it is pushed.
LEMMA OpensAppend ==
  ASSUME NEW s \in Seq(Frame), NEW f \in Frame, NEW n
  PROVE  Opens(Append(s, f), n) = Opens(s, n) + Once(f, n)
<1> DEFINE k == Len(s) + 1
<1>1. /\ Append(s, f) \in Seq(Frame) /\ Len(Append(s, f)) = k
      /\ Append(s, f)[k] = f
      /\ \A i \in 1 .. Len(s) : Append(s, f)[i] = s[i]
  OBVIOUS
<1>2. k \notin Open(s, n)
  BY DEF Open
<1>3. CASE Expands(f, n)
  <2>1. Open(Append(s, f), n) = Open(s, n) \union {k}
    BY <1>1, <1>3 DEF Open
  <2> QED
    BY <1>2, <1>3, <2>1, OpenFinite, FS_AddElement DEF Opens, Once
<1>4. CASE ~Expands(f, n)
  <2>1. Open(Append(s, f), n) = Open(s, n)
    BY <1>1, <1>4 DEF Open
  <2> QED
    BY <1>4, <2>1, OpenFinite DEF Opens, Once
<1> QED
  BY <1>3, <1>4

Pushed(s, f, t) ==
  /\ t \in Seq(Frame) /\ t # <<>> /\ Len(t) = Len(s) + 1 /\ t[Len(t)] = f
  /\ \A i \in 1 .. Len(s) : t[i] = s[i]
  /\ \A n : Opens(t, n) = Opens(s, n) + Once(f, n)
  /\ \A D : Owned(s, D) /\ (f.proc = "string" => f.of \in D \union {NoName}) => Owned(t, D)

LEMMA Push ==
  ASSUME NEW s \in Seq(Frame), NEW f \in Frame
  PROVE  Pushed(s, f, Append(s, f))
<1> SUFFICES ASSUME NEW t, t = Append(s, f)
             PROVE  Pushed(s, f, t)
  OBVIOUS
<1>1. /\ t \in Seq(Frame) /\ t # <<>> /\ Len(t) = Len(s) + 1 /\ t[Len(t)] = f
      /\ Len(s) \in Nat
      /\ \A i \in 1 .. Len(s) : t[i] = s[i]
  OBVIOUS
<1>2. \A n : Opens(t, n) = Opens(s, n) + Once(f, n)
  BY OpensAppend
<1>3. \A i \in 1 .. Len(t) : i = Len(t) \/ i \in 1 .. Len(s)
  BY <1>1
<1>4. \A D : Owned(s, D) /\ (f.proc = "string" => f.of \in D \union {NoName}) => Owned(t, D)
  BY <1>1, <1>3 DEF Owned
<1> QED
  BY <1>1, <1>2, <1>4 DEF Pushed

LEMMA PushOther ==
  ASSUME NEW s \in Seq(Frame), NEW f \in Frame, NEW n, ~Expands(f, n)
  PROVE  Opens(Append(s, f), n) = Opens(s, n)
<1>1. Once(f, n) = 0
  BY DEF Once
<1>2. Opens(Append(s, f), n) = Opens(s, n) + 0
  BY <1>1, OpensAppend
<1> QED
  BY <1>2, OpenFinite

\* A frame is no longer counted when it is popped.
Under(s) == SubSeq(s, 1, Len(s) - 1)

Popped(s, b) ==
  /\ b \in Seq(Frame) /\ Len(s) \in Nat /\ Len(b) = Len(s) - 1
  /\ s[Len(s)] \in Frame
  /\ \A i \in 1 .. Len(b) : b[i] = s[i]
  /\ \A n : Opens(s, n) = Opens(b, n) + Once(s[Len(s)], n)
  /\ \A D : Owned(s, D) => Owned(b, D)

LEMMA Pop ==
  ASSUME NEW s \in Seq(Frame), s # <<>>
  PROVE  Popped(s, Under(s))
<1> SUFFICES ASSUME NEW b, b = SubSeq(s, 1, Len(s) - 1)
             PROVE  Popped(s, b)
  BY DEF Under
<1>1. Len(s) \in Nat /\ Len(s) >= 1 /\ s[Len(s)] \in Frame
  OBVIOUS
<1>2. PICK k \in Nat : k = Len(s) - 1
  BY <1>1
<1>3. \A i \in 1 .. k : s[i] \in Frame
  BY <1>1, <1>2
<1>4. /\ SubSeq(s, 1, k) \in Seq(Frame)
      /\ Len(SubSeq(s, 1, k)) = IF 1 <= k THEN k - 1 + 1 ELSE 0
      /\ \A i \in 1 .. k - 1 + 1 : SubSeq(s, 1, k)[i] = s[1 + i - 1]
  BY <1>3, SubSeqProperties
<1>5. b = SubSeq(s, 1, k)
  BY <1>2
<1>6. Len(b) = k /\ \A i \in 1 .. k : b[i] = s[i]
  BY <1>4, <1>5
<1>7. b \in Seq(Frame) /\ Len(b) = Len(s) - 1 /\ \A i \in 1 .. Len(b) : b[i] = s[i]
  BY <1>2, <1>4, <1>5, <1>6
<1>8. Append(b, s[Len(s)]) \in Seq(Frame) /\ Len(Append(b, s[Len(s)])) = Len(s)
  BY <1>1, <1>7
<1>9. \A i \in 1 .. Len(s) : Append(b, s[Len(s)])[i] = s[i]
  BY <1>1, <1>7
<1>10. s = Append(b, s[Len(s)])
  BY <1>8, <1>9, SeqEqual
<1>a. Pushed(b, s[Len(s)], s)
  BY <1>1, <1>7, <1>10, Push
<1>11. \A n : Opens(s, n) = Opens(b, n) + Once(s[Len(s)], n)
  BY <1>a DEF Pushed
<1>12. \A i \in 1 .. Len(b) : i \in 1 .. Len(s)
  BY <1>1, <1>7
<1>13. \A D : Owned(s, D) => Owned(b, D)
  BY <1>7, <1>12 DEF Owned
<1> QED
  BY <1>1, <1>7, <1>11, <1>13 DEF Popped

LEMMA PopUncounted ==
  ASSUME NEW s \in Seq(Frame), s # <<>>, NEW n, ~Expands(s[Len(s)], n)
  PROVE  Opens(Under(s), n) = Opens(s, n)
<1>1. Once(s[Len(s)], n) = 0
  BY DEF Once
<1>2. Popped(s, Under(s))
  BY Pop
<1>3. Under(s) \in Seq(Frame) /\ Opens(s, n) = Opens(Under(s), n) + 0
  BY <1>1, <1>2 DEF Popped
<1> QED
  BY <1>3, OpenFinite

LEMMA PopCounted ==
  ASSUME NEW s \in Seq(Frame), s # <<>>, NEW n, Expands(s[Len(s)], n)
  PROVE  Opens(Under(s), n) = Opens(s, n) - 1
<1>1. Once(s[Len(s)], n) = 1
  BY DEF Once
<1>2. Popped(s, Under(s))
  BY Pop
<1>3. Under(s) \in Seq(Frame) /\ Opens(s, n) = Opens(Under(s), n) + 1
  BY <1>1, <1>2 DEF Popped
<1> QED
  BY <1>3, OpenFinite

LEMMA PushCounted ==
  ASSUME NEW s \in Seq(Frame), NEW f \in Frame, NEW n, Expands(f, n)
  PROVE  Opens(Append(s, f), n) = Opens(s, n) + 1
<1>1. Once(f, n) = 1
  BY DEF Once
<1> QED
  BY <1>1, OpensAppend

\* A frame that goes on is counted as it was.
Swapped(s, i, f, t) ==
  /\ t \in Seq(Frame) /\ Len(t) = Len(s) /\ t[i] = f
  /\ \A n : Opens(t, n) = Opens(s, n)
  /\ \A D : Owned(s, D) => Owned(t, D)

LEMMA Swap ==
  ASSUME NEW s \in Seq(Frame), NEW i \in 1 .. Len(s), NEW f \in Frame,
         f.proc = s[i].proc, f.proc = "string" => f.of = s[i].of
  PROVE  Swapped(s, i, f, [s EXCEPT ![i] = f])
<1> SUFFICES ASSUME NEW t, t = [s EXCEPT ![i] = f]
             PROVE  Swapped(s, i, f, t)
  OBVIOUS
<1>1. t \in Seq(Frame) /\ Len(t) = Len(s)
  OBVIOUS
<1>2. \A j \in 1 .. Len(s) : t[j] = IF j = i THEN f ELSE s[j]
  OBVIOUS
<1>3. \A n : Expands(f, n) <=> Expands(s[i], n)
  BY DEF Expands
<1>4. \A n : Open(t, n) = Open(s, n)
  BY <1>1, <1>2, <1>3 DEF Open
<1>5. \A D : Owned(s, D) => Owned(t, D)
  BY <1>1, <1>2 DEF Owned
<1> QED
  BY <1>1, <1>2, <1>4, <1>5 DEF Opens, Swapped

LEMMA OpensEmpty ==
  ASSUME NEW n
  PROVE  Opens(<<>>, n) = 0
<1>1. Open(<<>>, n) = {}
  BY DEF Open
<1> QED
  BY <1>1, FS_EmptySet DEF Opens

LEMMA TableMember ==
  ASSUME NEW t
  PROVE  t \in Tables <=> DOMAIN t \subseteq Keys /\ t \in [DOMAIN t -> Variable]
BY DEF Tables

LEMMA SetEntry ==
  ASSUME NEW t \in Tables, NEW x \in Keys, NEW v \in Variable
  PROVE  /\ Set(t, x, v) \in Tables
         /\ DOMAIN Set(t, x, v) = DOMAIN t \union {x}
         /\ Set(t, x, v)[x] = v
         /\ \A n \in DOMAIN t \ {x} : Set(t, x, v)[n] = t[n]
BY TableMember DEF Set

-----------------------------------------------------------------------------
(* Calls and returns.                                                        *)

\* What a call or a return leaves alone.
Same(m, m2) ==
  /\ m2.table = m.table /\ m2.env_list = m.env_list /\ m2.seen = m.seen
  /\ m2.line = m.line /\ m2.error = m.error /\ m2.results = m.results

LEMMA CallEffect ==
  ASSUME NEW m \in Machine, NEW f \in Frame
  PROVE  /\ Call(m, f) \in Machine /\ Same(m, Call(m, f)) /\ Call(m, f).out = m.out
         /\ Call(m, f).stack = Append(m.stack, f)
<1>1. m.stack \in Seq(Frame)
  BY DEF Machine
<1>2. Append(m.stack, f) \in Seq(Frame)
  BY <1>1
<1> QED
  BY <1>2 DEF Call, Machine, Same

LEMMA CallTop ==
  ASSUME NEW m \in Machine, NEW f \in Frame, NEW c, c = Call(m, f)
  PROVE  c.stack # <<>> /\ Top(c) = f
<1>1. PICK s \in Seq(Frame) : s = m.stack
  BY DEF Machine
<1>2. PICK t : t = Append(s, f)
  OBVIOUS
<1>3. t # <<>> /\ t[Len(t)] = f
  BY <1>2, Push DEF Pushed
<1>4. c.stack = t
  BY <1>1, <1>2, CallEffect
<1> QED
  BY <1>3, <1>4 DEF Top

LEMMA CallFine ==
  ASSUME NEW m, Fine(m), m.error = "", m.line \in 1 .. Len(Numerals),
         NEW f \in Frame, f.proc = "string" => f.of = NoName,
         NEW c, c = Call(m, f)
  PROVE  Fine(c)
<1>1. m \in Machine
  BY DEF Fine
<1>2. m.stack \in Seq(Frame) /\ m.table \in Tables
  BY <1>1 DEF Machine
<1>3. c \in Machine /\ Same(m, c) /\ c.stack = Append(m.stack, f)
  BY <1>1, CallEffect
<1> DEFINE D == DOMAIN m.table
<1>a. PICK s \in Seq(Frame) : s = m.stack
  BY <1>2
<1>b. PICK t : t = Append(s, f)
  OBVIOUS
<1>c. c.stack = t
  BY <1>3, <1>a, <1>b
<1>4. /\ t \in Seq(Frame)
      /\ \A n : Opens(t, n) = Opens(s, n) + Once(f, n)
      /\ Owned(s, D) => Owned(t, D)
  BY <1>b, Push DEF Pushed
<1>d. \A n : n # NoName => Opens(t, n) = Opens(s, n)
  BY <1>b, PushOther DEF Expands
<1>5. \A n \in D : Opens(t, n) = Opens(s, n)
  BY <1>2, <1>d, NoNameFree, TableMember
<1>6. Plain(c)
  BY <1>3 DEF Fine, Plain, Same
<1>7. Counted(c.table, c.stack)
  BY <1>3, <1>5, <1>a, <1>c DEF Fine, Counted, Same
<1>8. Owned(c.stack, DOMAIN c.table)
  BY <1>3, <1>4, <1>a, <1>c DEF Fine, Same
<1> QED
  BY <1>3, <1>6, <1>7, <1>8 DEF Fine, Same

LEMMA BecomeEffect ==
  ASSUME NEW m \in Machine, m.stack # <<>>, NEW f \in Frame, NEW b, b = Become(m, f)
  PROVE  /\ b \in Machine /\ Same(m, b) /\ b.out = m.out
         /\ b.stack = Append(Below(m), f)
         /\ b.stack # <<>> /\ Top(b) = f
         /\ \A n : Opens(b.stack, n) = Opens(Below(m), n) + Once(f, n)
<1>1. m.stack \in Seq(Frame)
  BY DEF Machine
<1>a. PICK s \in Seq(Frame) : s = m.stack
  BY <1>1
<1>b. PICK p : p = Under(s)
  OBVIOUS
<1>c. PICK t : t = Append(p, f)
  OBVIOUS
<1>2. p \in Seq(Frame)
  BY <1>a, <1>b, Pop DEF Popped
<1>3. /\ t \in Seq(Frame) /\ t # <<>> /\ t[Len(t)] = f
      /\ \A n : Opens(t, n) = Opens(p, n) + Once(f, n)
  BY <1>2, <1>c, Push DEF Pushed
<1>4. Below(m) = p
  BY <1>a, <1>b DEF Below, Under
<1>5. b = [m EXCEPT !.stack = t]
  BY <1>4, <1>c DEF Become
<1>6. b \in Machine /\ Same(m, b) /\ b.out = m.out /\ b.stack = t
  BY <1>3, <1>5 DEF Machine, Same
<1>7. b.stack # <<>> /\ Top(b) = f
  BY <1>3, <1>6 DEF Top
<1> QED
  BY <1>3, <1>4, <1>6, <1>7, <1>c

LEMMA BecomeFine ==
  ASSUME NEW m, Fine(m), m.stack # <<>>, NEW f \in Frame,
         f.proc = Top(m).proc, f.proc = "string" => f.of = Top(m).of,
         NEW b, b = Become(m, f)
  PROVE  Fine(b)
<1>1. m \in Machine
  BY DEF Fine
<1>2. m.stack \in Seq(Frame)
  BY <1>1 DEF Machine
<1>3. b \in Machine /\ Same(m, b) /\ b.stack = Append(Below(m), f)
  BY <1>1, BecomeEffect
<1>a. PICK s \in Seq(Frame) : s = m.stack
  BY <1>2
<1>b. PICK p : p = Under(s)
  OBVIOUS
<1>c. PICK t : t = Append(p, f)
  OBVIOUS
<1>d. PICK g : g = s[Len(s)]
  OBVIOUS
<1>e. b.stack = t /\ g = Top(m) /\ s # <<>>
  BY <1>3, <1>a, <1>b, <1>c, <1>d DEF Below, Top, Under
<1>4. /\ p \in Seq(Frame) /\ g \in Frame
      /\ \A n : Opens(s, n) = Opens(p, n) + Once(g, n)
      /\ \A D : Owned(s, D) => Owned(p, D)
  <2>1. Popped(s, p)
    BY <1>b, <1>e, Pop
  <2> QED
    BY <2>1, <1>d DEF Popped
<1>5. /\ t \in Seq(Frame)
      /\ \A n : Opens(t, n) = Opens(p, n) + Once(f, n)
      /\ \A D : Owned(p, D) /\ (f.proc = "string" => f.of \in D \union {NoName}) => Owned(t, D)
  BY <1>4, <1>c, Push DEF Pushed
<1>6. \A n : Once(f, n) = Once(g, n)
  BY <1>e DEF Expands, Once
<1>7. \A n : Opens(t, n) = Opens(s, n)
  BY <1>4, <1>5, <1>6
<1>8. Len(s) \in 1 .. Len(s)
  BY <1>e
<1>9. \A D : Owned(s, D) => (f.proc = "string" => f.of \in D \union {NoName})
  BY <1>d, <1>e, <1>8 DEF Owned
<1>10. \A D : Owned(s, D) => Owned(t, D)
  BY <1>4, <1>5, <1>9
<1>11. Plain(b)
  BY <1>3 DEF Fine, Plain, Same
<1>12. Counted(b.table, b.stack)
  BY <1>3, <1>7, <1>a, <1>e DEF Fine, Counted, Same
<1>13. Owned(b.stack, DOMAIN b.table)
  BY <1>3, <1>10, <1>a, <1>e DEF Fine, Same
<1> QED
  BY <1>3, <1>11, <1>12, <1>13 DEF Fine, Same

LEMMA StopFine ==
  ASSUME NEW m, Fine(m), NEW e \in Errors, e # "", NEW p, p = Stop(m, e)
  PROVE  Fine(p) /\ TopOK(p) /\ p.table = m.table /\ p.line = m.line
<1>1. m \in Machine
  BY DEF Fine
<1>2. p \in Machine /\ p.table = m.table /\ p.stack = <<>> /\ p.error = e /\ p.line = m.line
  BY <1>1, Empties DEF Stop, Machine
<1> QED
  BY <1>2 DEF Fine, Plain, TopOK

LEMMA StopGood ==
  ASSUME NEW m, Fine(m), NEW e \in Errors, e # ""
  PROVE  Good(Stop(m, e))
BY StopFine DEF Good

LEMMA ReceivedFrame ==
  ASSUME NEW f \in Frame, NEW o \in Phrase, NEW g, g = Received(f, o)
  PROVE  /\ g \in Frame /\ g.proc = f.proc
         /\ g.proc = "string" => g.of = f.of
         /\ g.proc = "clause" => g.words # <<>>
<1>1. CASE f.proc = "string"
  <2>1. f \in StringFrame
    BY <1>1 DEF Frame, ClauseFrame
  <2>2. PICK w \in Phrase : w = f.out \o o
    <3>1. PICK u \in Phrase : u = f.out
      BY <2>1 DEF StringFrame
    <3>2. u \o o \in Phrase
      BY DEF Phrase
    <3> QED
      BY <3>1, <3>2
  <2>3. g = [f EXCEPT !.out = w]
    BY <1>1, <2>2 DEF Received
  <2> QED
    BY <2>1, <2>2, <2>3 DEF StringFrame, Frame
<1>2. CASE f.proc = "clause"
  <2>1. f \in ClauseFrame
    BY <1>2 DEF Frame, StringFrame
  <2>2. PICK w \in Seq(Phrase) : w = Append(f.words, o) /\ w # <<>>
    <3>1. f.words \in Seq(Phrase)
      BY <2>1 DEF ClauseFrame
    <3> QED
      BY <3>1, AppendProperties
  <2>3. g = [f EXCEPT !.words = w]
    BY <1>2, <2>2 DEF Received
  <2> QED
    BY <2>1, <2>2, <2>3 DEF ClauseFrame, Frame
<1>3. f.proc \in {"string", "clause"}
  BY DEF Frame, StringFrame, ClauseFrame
<1> QED
  BY <1>1, <1>2, <1>3

\* The stack once its top frame has returned to the one below.
Returned(s, o) ==
  IF Len(s) = 1 THEN <<>> ELSE [Under(s) EXCEPT ![Len(Under(s))] = Received(@, o)]

ReturnedOK(s, t) ==
  /\ t \in Seq(Frame)
  /\ \A n : Opens(t, n) = Opens(Under(s), n)
  /\ \A D : Owned(s, D) => Owned(t, D)
  /\ t # <<>> /\ t[Len(t)].proc = "clause" => t[Len(t)].words # <<>>

LEMMA ReturnStack ==
  ASSUME NEW s \in Seq(Frame), s # <<>>, NEW o \in Phrase
  PROVE  ReturnedOK(s, Returned(s, o))
<1> SUFFICES ASSUME NEW t, t = Returned(s, o)
             PROVE  ReturnedOK(s, t)
  OBVIOUS
<1>1. Popped(s, Under(s)) /\ Len(s) \in Nat /\ Len(s) >= 1
  BY Pop
<1>2. PICK b \in Seq(Frame) : b = Under(s)
  BY <1>1 DEF Popped
<1>3. Len(b) = Len(s) - 1
  BY <1>1, <1>2 DEF Popped
<1>4. CASE Len(s) = 1
  <2>1. b = <<>>
    BY <1>3, <1>4
  <2>2. t = <<>>
    BY <1>4 DEF Returned
  <2>3. \A D : Owned(t, D)
    BY <2>2 DEF Owned
  <2> QED
    BY <1>2, <2>1, <2>2, <2>3, Empties DEF ReturnedOK
<1>5. CASE Len(s) # 1
  <2>1. Len(b) \in 1 .. Len(b)
    BY <1>1, <1>3, <1>5
  <2>2. PICK f \in Frame : f = b[Len(b)]
    BY <2>1
  <2>3. PICK g : g = Received(f, o)
    OBVIOUS
  <2>4. /\ g \in Frame /\ g.proc = f.proc
        /\ g.proc = "string" => g.of = f.of
        /\ g.proc = "clause" => g.words # <<>>
    BY <2>3, ReceivedFrame
  <2>5. t = [b EXCEPT ![Len(b)] = g]
    BY <1>2, <1>5, <2>2, <2>3 DEF Returned
  <2>6. /\ t \in Seq(Frame) /\ Len(t) = Len(b) /\ t[Len(b)] = g
        /\ \A n : Opens(t, n) = Opens(b, n)
        /\ \A D : Owned(b, D) => Owned(t, D)
    <3>1. Swapped(b, Len(b), g, t)
      BY <2>1, <2>2, <2>4, <2>5, Swap
    <3> QED
      BY <3>1 DEF Swapped
  <2> QED
    BY <1>1, <1>2, <2>4, <2>6 DEF Popped, ReturnedOK
<1> QED
  BY <1>4, <1>5

ReturnsTo(m, r) ==
  /\ r \in Machine /\ Same(m, r) /\ TopOK(r)
  /\ \A n : Opens(r.stack, n) = Opens(Under(m.stack), n)
  /\ \A D : Owned(m.stack, D) => Owned(r.stack, D)

LEMMA ReturnEffect ==
  ASSUME NEW m \in Machine, m.stack # <<>>, NEW o \in Phrase
  PROVE  ReturnsTo(m, Return(m, o))
<1> SUFFICES ASSUME NEW r, r = Return(m, o)
             PROVE  ReturnsTo(m, r)
  OBVIOUS
<1>1. PICK s \in Seq(Frame) : s = m.stack
  BY DEF Machine
<1>2. PICK t : t = Returned(s, o)
  OBVIOUS
<1>a. ReturnedOK(s, t)
  BY <1>1, <1>2, ReturnStack
<1>3. /\ t \in Seq(Frame)
      /\ \A n : Opens(t, n) = Opens(Under(s), n)
      /\ \A D : Owned(s, D) => Owned(t, D)
      /\ t # <<>> /\ t[Len(t)].proc = "clause" => t[Len(t)].words # <<>>
  BY <1>a DEF ReturnedOK
<1>4. r = [m EXCEPT !.stack = t, !.out = o] \/ r = [m EXCEPT !.stack = t]
  BY <1>1, <1>2 DEF Return, Returned, Below, Under
<1>5. r \in Machine /\ Same(m, r) /\ r.stack = t
  BY <1>3, <1>4 DEF Machine, Same
<1>6. TopOK(r)
  BY <1>3, <1>5 DEF TopOK, Top
<1> QED
  BY <1>1, <1>3, <1>5, <1>6 DEF ReturnsTo

LEMMA ReturnFine ==
  ASSUME NEW m, Fine(m), m.stack # <<>>, Top(m).proc = "string" => Top(m).of = NoName,
         NEW o \in Phrase, NEW r, r = Return(m, o)
  PROVE  Fine(r) /\ TopOK(r)
<1>1. m \in Machine /\ m.error = ""
  BY DEF Fine
<1>2. m.table \in Tables
  BY <1>1 DEF Machine
<1>3. PICK s \in Seq(Frame) : s = m.stack
  BY <1>1 DEF Machine
<1>4. /\ r \in Machine /\ Same(m, r) /\ TopOK(r)
      /\ \A n : Opens(r.stack, n) = Opens(Under(m.stack), n)
      /\ \A D : Owned(m.stack, D) => Owned(r.stack, D)
  BY <1>1, ReturnEffect DEF ReturnsTo
<1>5. \A n : n # NoName => ~Expands(s[Len(s)], n)
  BY <1>3 DEF Expands, Top
<1>6. \A n : n # NoName => Opens(Under(s), n) = Opens(s, n)
  BY <1>3, <1>5, PopUncounted
<1>7. \A n \in DOMAIN m.table : n # NoName
  BY <1>2, NoNameFree, TableMember
<1>8. Counted(r.table, r.stack)
  BY <1>1, <1>3, <1>4, <1>6, <1>7 DEF Fine, Counted, Same
<1>9. Owned(r.stack, DOMAIN r.table)
  BY <1>1, <1>4 DEF Fine, Same
<1>10. Plain(r)
  BY <1>4 DEF Fine, Plain, Same
<1> QED
  BY <1>4, <1>8, <1>9, <1>10 DEF Fine, Same

\* exp_count of x becomes k.
Recounted(m, x, k, l) ==
  /\ l \in Machine
  /\ l.stack = m.stack /\ l.env_list = m.env_list /\ l.seen = m.seen /\ l.out = m.out
  /\ l.line = m.line /\ l.error = m.error /\ l.results = m.results
  /\ DOMAIN l.table = DOMAIN m.table
  /\ \A n \in DOMAIN m.table :
       /\ l.table[n].flavor = m.table[n].flavor
       /\ l.table[n].text = m.table[n].text
       /\ l.table[n].exp_count = IF n = x THEN k ELSE m.table[n].exp_count

LEMMA Recount ==
  ASSUME NEW m \in Machine, NEW x \in DOMAIN m.table, NEW k \in Int, NEW l,
         l = WithCount(m, x, k)
  PROVE  Recounted(m, x, k, l)
<1>1. PICK t \in Tables : t = m.table
  BY DEF Machine
<1>2. DOMAIN t \subseteq Keys /\ t \in [DOMAIN t -> Variable] /\ x \in DOMAIN t
  BY <1>1, TableMember
<1>3. PICK v \in Variable : v = t[x]
  BY <1>2
<1>4. PICK w : w = [v EXCEPT !.exp_count = k]
  OBVIOUS
<1>5. w \in Variable /\ w.flavor = v.flavor /\ w.text = v.text /\ w.exp_count = k
  BY <1>4 DEF Variable
<1>6. PICK u : u = Set(t, x, w)
  OBVIOUS
<1>7. /\ u \in Tables /\ DOMAIN u = DOMAIN t /\ u[x] = w
      /\ \A n \in DOMAIN t \ {x} : u[n] = t[n]
  <2>1. x \in Keys
    BY <1>2
  <2>2. /\ Set(t, x, w) \in Tables /\ DOMAIN Set(t, x, w) = DOMAIN t \union {x}
        /\ Set(t, x, w)[x] = w
        /\ \A n \in DOMAIN t \ {x} : Set(t, x, w)[n] = t[n]
    BY <1>5, <2>1, SetEntry
  <2>3. DOMAIN t \union {x} = DOMAIN t
    BY <1>2
  <2> QED
    BY <1>6, <2>2, <2>3
<1>8. l = [m EXCEPT !.table = u]
  BY <1>1, <1>3, <1>4, <1>6 DEF WithCount
<1>9. /\ l \in Machine /\ l.table = u
      /\ l.stack = m.stack /\ l.env_list = m.env_list /\ l.seen = m.seen /\ l.out = m.out
      /\ l.line = m.line /\ l.error = m.error /\ l.results = m.results
  BY <1>7, <1>8 DEF Machine
<1>10. \A n \in DOMAIN t :
         /\ u[n].flavor = t[n].flavor
         /\ u[n].text = t[n].text
         /\ u[n].exp_count = IF n = x THEN k ELSE t[n].exp_count
  BY <1>3, <1>5, <1>7
<1> QED
  BY <1>1, <1>7, <1>9, <1>10 DEF Recounted

LEMMA TopOwned ==
  ASSUME NEW m, Fine(m), m.stack # <<>>, Top(m).proc = "string", Top(m).of # NoName
  PROVE  Top(m).of \in DOMAIN m.table
<1>1. m \in Machine /\ m.error = ""
  BY DEF Fine
<1>2. PICK s \in Seq(Frame) : s = m.stack
  BY <1>1 DEF Machine
<1>3. Len(s) \in 1 .. Len(s)
  BY <1>2
<1> QED
  BY <1>1, <1>2, <1>3 DEF Fine, Owned, Top

LEMMA LeaveFine ==
  ASSUME NEW m, Fine(m), m.stack # <<>>, Top(m).proc = "string", Top(m).of # NoName,
         NEW o \in Phrase, NEW l, l = Left(m, Top(m).of), NEW r, r = Return(l, o)
  PROVE  Fine(r) /\ TopOK(r)
<1>1. m \in Machine /\ m.error = ""
  BY DEF Fine
<1>2. PICK s \in Seq(Frame) : s = m.stack
  BY <1>1 DEF Machine
<1>3. PICK x : x = Top(m).of
  OBVIOUS
<1>4. x \in DOMAIN m.table
  BY <1>3, TopOwned
<1>5. PICK k \in Int : k = m.table[x].exp_count - 1
  <2>1. m.table \in Tables
    BY <1>1 DEF Machine
  <2>2. m.table[x] \in Variable
    BY <1>4, <2>1, TableMember
  <2>3. m.table[x].exp_count \in Int
    BY <2>2 DEF Variable
  <2> QED
    BY <2>3
<1>6. l = WithCount(m, x, k)
  BY <1>3, <1>5 DEF Left
<1>7. Recounted(m, x, k, l)
  BY <1>1, <1>4, <1>6, Recount
<1>8. l \in Machine /\ l.stack = s /\ l.error = "" /\ l.line = m.line
  BY <1>1, <1>2, <1>7 DEF Recounted
<1>9. /\ r \in Machine /\ Same(l, r) /\ TopOK(r)
      /\ \A n : Opens(r.stack, n) = Opens(Under(s), n)
      /\ \A D : Owned(s, D) => Owned(r.stack, D)
  <2>1. ReturnsTo(l, r)
    BY <1>2, <1>8, ReturnEffect
  <2> QED
    BY <1>8, <2>1 DEF ReturnsTo
<1>10. Opens(Under(s), x) = Opens(s, x) - 1
  BY <1>2, <1>3, PopCounted DEF Expands, Top
<1>11. \A n : n # x => Opens(Under(s), n) = Opens(s, n)
  <2>1. \A n : n # x => ~Expands(s[Len(s)], n)
    BY <1>2, <1>3 DEF Expands, Top
  <2> QED
    BY <1>2, <2>1, PopUncounted
<1>12. \A n \in DOMAIN m.table : m.table[n].exp_count = Opens(s, n)
  BY <1>1, <1>2 DEF Fine, Counted
<1>13. Counted(l.table, r.stack)
  <2>1. ASSUME NEW n \in DOMAIN l.table
        PROVE  l.table[n].exp_count = Opens(r.stack, n)
    <3>1. n \in DOMAIN m.table /\ l.table[n].exp_count = IF n = x THEN k ELSE m.table[n].exp_count
      BY <1>7 DEF Recounted
    <3>2. CASE n = x
      <4>1. m.table[x].exp_count = Opens(s, x)
        BY <1>4, <1>12
      <4>2. k = Opens(s, x) - 1
        BY <1>5, <4>1
      <4> QED
        BY <1>9, <1>10, <3>1, <3>2, <4>2
    <3>3. CASE n # x
      BY <1>9, <1>11, <1>12, <3>1, <3>3
    <3> QED
      BY <3>2, <3>3
  <2> QED
    BY <2>1 DEF Counted
<1>14. Owned(r.stack, DOMAIN l.table)
  BY <1>1, <1>2, <1>7, <1>9 DEF Fine, Recounted
<1>15. Plain(l)
  BY <1>7 DEF Fine, Plain, Recounted
<1>16. Plain(r)
  BY <1>9, <1>15 DEF Plain, Same
<1> QED
  BY <1>8, <1>9, <1>13, <1>14, <1>16 DEF Fine, Same

LEMMA EnterFine ==
  ASSUME NEW m, Fine(m), m.stack # <<>>, Top(m).proc = "clause",
         NEW x \in DOMAIN m.table, NEW f \in Frame, f.proc = "string", f.of = x,
         NEW l, l = Entered(m, x), NEW b, b = Become(l, f)
  PROVE  Fine(b) /\ TopOK(b)
<1>1. m \in Machine /\ m.error = ""
  BY DEF Fine
<1>2. PICK s \in Seq(Frame) : s = m.stack
  BY <1>1 DEF Machine
<1>3. PICK k \in Int : k = m.table[x].exp_count + 1
  <2>1. m.table \in Tables
    BY <1>1 DEF Machine
  <2>2. m.table[x] \in Variable
    BY <2>1, TableMember
  <2>3. m.table[x].exp_count \in Int
    BY <2>2 DEF Variable
  <2> QED
    BY <2>3
<1>4. l = WithCount(m, x, k)
  BY <1>3 DEF Entered
<1>5. Recounted(m, x, k, l)
  BY <1>1, <1>4, Recount
<1>6. l \in Machine /\ l.stack = s /\ l.error = "" /\ l.line = m.line
  BY <1>1, <1>2, <1>5 DEF Recounted
<1>7. PICK p \in Seq(Frame) : p = Under(s)
  BY <1>2, Pop DEF Popped
<1>8. PICK t : t = Append(p, f)
  OBVIOUS
<1>9. /\ b \in Machine /\ Same(l, b) /\ b.stack = t
      /\ b.stack # <<>> /\ Top(b) = f
  BY <1>2, <1>6, <1>7, <1>8, BecomeEffect DEF Below, Under
<1>10. \A n : Opens(p, n) = Opens(s, n)
  <2>1. \A n : ~Expands(s[Len(s)], n)
    BY <1>2 DEF Expands, Top
  <2> QED
    BY <1>2, <1>7, <2>1, PopUncounted
<1>11. Opens(t, x) = Opens(p, x) + 1
  BY <1>8, PushCounted DEF Expands
<1>12. Pushed(p, f, t)
  BY <1>8, Push
<1>13. \A n : n # x => Opens(t, n) = Opens(p, n)
  <2>1. ASSUME NEW n, n # x
        PROVE  Opens(t, n) = Opens(p, n)
    <3>1. ~Expands(f, n)
      BY <2>1 DEF Expands
    <3> QED
      BY <1>8, <3>1, PushOther
  <2> QED
    BY <2>1
<1>14. \A n \in DOMAIN m.table : m.table[n].exp_count = Opens(s, n)
  BY <1>1, <1>2 DEF Fine, Counted
<1>15. Counted(l.table, t)
  <2>1. ASSUME NEW n \in DOMAIN l.table
        PROVE  l.table[n].exp_count = Opens(t, n)
    <3>1. n \in DOMAIN m.table /\ l.table[n].exp_count = IF n = x THEN k ELSE m.table[n].exp_count
      BY <1>5 DEF Recounted
    <3>2. CASE n = x
      <4>1. m.table[x].exp_count = Opens(s, x)
        BY <1>14
      <4>2. k = Opens(s, x) + 1
        BY <1>3, <4>1
      <4> QED
        BY <1>10, <1>11, <3>1, <3>2, <4>2
    <3>3. CASE n # x
      BY <1>10, <1>13, <1>14, <3>1, <3>3
    <3> QED
      BY <3>2, <3>3
  <2> QED
    BY <2>1 DEF Counted
<1>16. DOMAIN l.table = DOMAIN m.table
  BY <1>5 DEF Recounted
<1>17. Owned(t, DOMAIN l.table)
  <2>1. Owned(s, DOMAIN m.table)
    BY <1>1, <1>2 DEF Fine
  <2>2. Popped(s, p)
    BY <1>2, <1>7, Pop
  <2>3. Owned(p, DOMAIN m.table)
    BY <2>1, <2>2 DEF Popped
  <2> QED
    BY <1>12, <1>16, <2>3 DEF Pushed
<1>18. Plain(l)
  BY <1>5 DEF Fine, Plain, Recounted
<1>19. Plain(b)
  BY <1>9, <1>18 DEF Plain, Same
<1>20. TopOK(b)
  BY <1>9 DEF TopOK
<1> QED
  BY <1>6, <1>9, <1>15, <1>17, <1>19, <1>20 DEF Fine, Same

-----------------------------------------------------------------------------
(* A step of the expansion.                                                  *)

LEMMA StringFrameType ==
  ASSUME NEW text \in Seq(Item), NEW args \in Seq(Phrase), NEW of \in Keys \union {NoName},
         NEW f, f = String(text, args, of)
  PROVE  f \in Frame /\ f.proc = "string" /\ f.of = of
BY Empties DEF String, StringFrame, Frame

LEMMA ClauseFrameType ==
  ASSUME NEW clauses \in Seq(Texts), NEW args \in Seq(Phrase), NEW f, f = Clause(clauses, args)
  PROVE  f \in Frame /\ f.proc = "clause" /\ f.clauses = clauses
BY Empties DEF Clause, ClauseFrame, Frame

\* A frame and the pieces it has.
LEMMA StringParts ==
  ASSUME NEW f \in Frame, f.proc = "string"
  PROVE  /\ f \in StringFrame /\ f.text \in Seq(Item) /\ f.args \in Seq(Phrase)
         /\ f.out \in Phrase /\ f.of \in Keys \union {NoName}
<1>1. f \in StringFrame
  BY DEF Frame, ClauseFrame
<1> QED
  BY <1>1 DEF StringFrame

LEMMA ClauseParts ==
  ASSUME NEW f \in Frame, f.proc = "clause"
  PROVE  /\ f \in ClauseFrame /\ f.clauses \in Seq(Texts) /\ f.args \in Seq(Phrase)
         /\ f.words \in Seq(Phrase)
<1>1. f \in ClauseFrame
  BY DEF Frame, StringFrame
<1> QED
  BY <1>1 DEF ClauseFrame

LEMMA TopFrame ==
  ASSUME NEW m \in Machine, m.stack # <<>>
  PROVE  Top(m) \in Frame
<1>1. PICK s \in Seq(Frame) : s = m.stack
  BY DEF Machine
<1>2. s[Len(s)] \in Frame
  BY <1>1
<1> QED
  BY <1>1, <1>2 DEF Top

\* What is left of a text once its first item is dealt with.
LEMMA RestFrame ==
  ASSUME NEW f \in Frame, f.proc = "string", f.text # <<>>,
         NEW g, g = [f EXCEPT !.text = Tail(@)]
  PROVE  /\ g \in Frame /\ g.proc = "string" /\ g.of = f.of
         /\ g.args \in Seq(Phrase)
<1>1. f \in StringFrame
  BY StringParts
<1>2. PICK u \in Seq(Item) : u = f.text
  BY StringParts
<1>3. PICK w \in Seq(Item) : w = Tail(u)
  BY <1>2, HeadTailProperties
<1>4. g = [f EXCEPT !.text = w]
  BY <1>2, <1>3
<1>5. g \in StringFrame /\ g.proc = "string" /\ g.of = f.of
  BY <1>1, <1>4 DEF StringFrame
<1> QED
  BY <1>5 DEF StringFrame, Frame

LEMMA ItemParts ==
  ASSUME NEW item \in Item
  PROVE  /\ IsWord(item) => item.word \in STRING
         /\ ~IsWord(item) => item.clauses \in Seq(Texts) /\ item.clauses # <<>>
<1>1. CASE item \in [word : STRING]
  BY <1>1 DEF IsWord
<1>2. CASE item \in [clauses : Seq(Texts) \ {<<>>}]
  BY <1>2 DEF IsWord
<1> QED
  BY <1>1, <1>2 DEF Item

LEMMA GoOn ==
  ASSUME NEW m, Fine(m), m.stack # <<>>, Top(m).proc = "string",
         NEW rest \in Frame, rest.proc = "string", rest.of = Top(m).of,
         NEW o \in Phrase, NEW b, b = Become(m, Received(rest, o))
  PROVE  Good(b)
<1>1. PICK g : g = Received(rest, o)
  OBVIOUS
<1>2. g \in Frame /\ g.proc = "string" /\ g.of = rest.of
  BY <1>1, ReceivedFrame
<1>3. Fine(b)
  BY <1>1, <1>2, BecomeFine
<1>4. m \in Machine
  BY DEF Fine
<1>5. Top(b) = g
  BY <1>1, <1>2, <1>4, BecomeEffect
<1> QED
  BY <1>2, <1>3, <1>5 DEF Good, TopOK

LEMMA ReferenceGood ==
  ASSUME NEW m, Fine(m), m.stack # <<>>, Top(m).proc = "string",
         NEW rest \in Frame, rest.proc = "string", rest.of = Top(m).of,
         rest.args \in Seq(Phrase),
         NEW clauses \in Seq(Texts), clauses # <<>>
  PROVE  Good(Reference(m, rest, clauses))
<1> DEFINE P == Positional(clauses, rest.args)
<1>1. CASE P # {}
  <2>1. (CHOOSE i \in P : TRUE) \in P
    BY <1>1
  <2>2. PICK i \in P : i = CHOOSE j \in P : TRUE
    BY <2>1
  <2>3. i \in 1 .. Len(rest.args)
    BY DEF Positional
  <2>4. rest.args[i] \in Phrase
    BY <2>3
  <2>5. Reference(m, rest, clauses) = Become(m, Received(rest, rest.args[i]))
    BY <1>1, <2>2 DEF Reference
  <2> QED
    BY <2>4, <2>5, GoOn
<1>2. CASE P = {}
  <2>1. PICK b : b = Become(m, rest)
    OBVIOUS
  <2>2. PICK f : f = Clause(clauses, rest.args)
    OBVIOUS
  <2>3. f \in Frame /\ f.proc = "clause" /\ f.clauses = clauses
    BY <2>2, ClauseFrameType
  <2>4. m \in Machine /\ m.error = "" /\ m.line \in 1 .. Len(Numerals)
    BY DEF Fine
  <2>5. Fine(b)
    BY <2>1, BecomeFine
  <2>6. b \in Machine /\ Same(m, b)
    BY <2>1, <2>4, BecomeEffect
  <2>7. b.error = "" /\ b.line \in 1 .. Len(Numerals)
    BY <2>4, <2>6 DEF Same
  <2>8. PICK c : c = Call(b, f)
    OBVIOUS
  <2>9. Fine(c)
    BY <2>3, <2>5, <2>7, <2>8, CallFine
  <2>10. Top(c) = f
    BY <2>3, <2>6, <2>8, CallTop
  <2>11. Reference(m, rest, clauses) = c
    BY <1>2, <2>1, <2>2, <2>8 DEF Reference
  <2> QED
    BY <2>3, <2>9, <2>10, <2>11 DEF Good, TopOK
<1> QED
  BY <1>1, <1>2

LEMMA ExpandStringGood ==
  ASSUME NEW m, Good(m), m.stack # <<>>, Top(m).proc = "string"
  PROVE  Good(ExpandString(m))
<1>1. Fine(m) /\ m \in Machine
  BY DEF Good, Fine
<1>2. PICK f \in Frame : f = Top(m)
  BY <1>1, TopFrame
<1>3. f.text \in Seq(Item) /\ f.out \in Phrase
  BY <1>2, StringParts
<1>4. CASE f.text = <<>>
  <2>1. CASE f.of = NoName
    <3>1. ExpandString(m) = Return(m, f.out)
      BY <1>2, <1>4, <2>1 DEF ExpandString
    <3> QED
      BY <1>1, <1>2, <1>3, <2>1, <3>1, ReturnFine DEF Good
  <2>2. CASE f.of # NoName
    <3>1. ExpandString(m) = Return(Left(m, f.of), f.out)
      BY <1>2, <1>4, <2>2 DEF ExpandString
    <3> QED
      BY <1>1, <1>2, <1>3, <2>2, <3>1, LeaveFine DEF Good
  <2> QED
    BY <2>1, <2>2
<1>5. CASE f.text # <<>>
  <2>1. PICK rest : rest = [f EXCEPT !.text = Tail(@)]
    OBVIOUS
  <2>2. rest \in Frame /\ rest.proc = "string" /\ rest.of = f.of /\ rest.args \in Seq(Phrase)
    BY <1>2, <1>5, <2>1, RestFrame
  <2>3. PICK item \in Item : item = Head(f.text)
    BY <1>3, <1>5, HeadTailProperties
  <2>4. CASE IsWord(item)
    <3>1. <<item.word>> \in Phrase
      BY <2>4, ItemParts DEF Phrase
    <3>2. ExpandString(m) = Become(m, Received(rest, <<item.word>>))
      BY <1>2, <1>5, <2>1, <2>3, <2>4 DEF ExpandString
    <3> QED
      BY <1>1, <1>2, <2>2, <3>1, <3>2, GoOn
  <2>5. CASE ~IsWord(item)
    <3>1. item.clauses \in Seq(Texts) /\ item.clauses # <<>>
      BY <2>5, ItemParts
    <3>2. ExpandString(m) = Reference(m, rest, item.clauses)
      BY <1>2, <1>5, <2>1, <2>3, <2>5 DEF ExpandString
    <3> QED
      BY <1>1, <1>2, <2>2, <3>1, <3>2, ReferenceGood
  <2> QED
    BY <2>4, <2>5
<1> QED
  BY <1>4, <1>5

LEMMA SeenFine ==
  ASSUME NEW m, Fine(m), NEW x \in Keys, NEW p, p = [m EXCEPT !.seen = @ \union {x}]
  PROVE  /\ Fine(p) /\ p.stack = m.stack /\ p.table = m.table
<1>1. m \in Machine
  BY DEF Fine
<1>2. PICK q \in SUBSET Keys : q = m.seen \union {x}
  BY <1>1 DEF Machine
<1>3. p = [m EXCEPT !.seen = q]
  BY <1>2
<1>4. /\ p \in Machine /\ p.stack = m.stack /\ p.table = m.table
      /\ p.line = m.line /\ p.error = m.error
  BY <1>1, <1>3 DEF Machine
<1> QED
  BY <1>4 DEF Fine, Plain

LEMMA EnvListFine ==
  ASSUME NEW m, Fine(m), NEW x \in Phrase, NEW p, p = [m EXCEPT !.env_list = @ \union {x}]
  PROVE  /\ Fine(p) /\ p.stack = m.stack /\ p.table = m.table
<1>1. m \in Machine
  BY DEF Fine
<1>2. PICK q \in SUBSET Phrase : q = m.env_list \union {x}
  BY <1>1 DEF Machine
<1>3. p = [m EXCEPT !.env_list = q]
  BY <1>2
<1>4. /\ p \in Machine /\ p.stack = m.stack /\ p.table = m.table
      /\ p.line = m.line /\ p.error = m.error
  BY <1>1, <1>3 DEF Machine
<1> QED
  BY <1>4 DEF Fine, Plain

LEMMA WordsPhrase ==
  ASSUME NEW text \in Seq(WordItem)
  PROVE  Words(text) \in Phrase
<1>1. /\ DOMAIN text = 1 .. Len(text) /\ Len(text) \in Nat
      /\ \A i \in 1 .. Len(text) : text[i] \in WordItem
  OBVIOUS
<1>2. \A i \in 1 .. Len(text) : text[i].word \in STRING
  BY <1>1 DEF WordItem
<1>3. Words(text) \in [1 .. Len(text) -> STRING]
  BY <1>1, <1>2 DEF Words
<1> QED
  BY <1>1, <1>3 DEF Phrase

\* What the clause on top expands to is what the frame below receives.
LEMMA ClauseReturns ==
  ASSUME NEW m, Fine(m), m.stack # <<>>, Top(m).proc = "clause", NEW o \in Phrase,
         NEW r, r = Return(m, o)
  PROVE  Good(r)
BY ReturnFine DEF Good

LEMMA VariableExpandGood ==
  ASSUME NEW m, Fine(m), m.stack # <<>>, Top(m).proc = "clause",
         NEW name \in DOMAIN m.table, NEW args \in Seq(Phrase)
  PROVE  Good(VariableExpand(m, name, args))
<1>1. m \in Machine
  BY DEF Fine
<1>2. m.table \in Tables
  BY <1>1 DEF Machine
<1>3. name \in Keys /\ m.table[name] \in Variable
  BY <1>2, TableMember
<1>4. PICK v \in Variable : v = m.table[name]
  BY <1>3
<1>5. PICK now : now = [m EXCEPT !.seen = @ \union {name}]
  OBVIOUS
<1>6. Fine(now) /\ now.stack = m.stack /\ now.table = m.table
  BY <1>3, <1>5, SeenFine
<1>7. Top(now) = Top(m)
  BY <1>6 DEF Top
<1> DEFINE itself == args = <<>> /\ v.exp_count > 0
<1>8. CASE itself
  <2>1. VariableExpand(m, name, args) = Stop(m, "references itself")
    BY <1>4, <1>8 DEF VariableExpand
  <2>2. PICK e \in Errors : e = "references itself"
    BY DEF Errors
  <2>3. e # ""
    BY <2>2
  <2> QED
    BY <2>1, <2>2, <2>3, StopGood
<1>9. CASE ~itself /\ v.exp_count > MaxDepth
  <2>1. VariableExpand(m, name, args) = Stop(m, "too deep")
    BY <1>4, <1>9 DEF VariableExpand
  <2>2. PICK e \in Errors : e = "too deep"
    BY DEF Errors
  <2>3. e # ""
    BY <2>2
  <2> QED
    BY <2>1, <2>2, <2>3, StopGood
<1>10. CASE ~itself /\ ~(v.exp_count > MaxDepth) /\ v.flavor = "recursive"
  <2>1. VariableExpand(m, name, args) = Become(Entered(now, name), String(v.text, args, name))
    BY <1>4, <1>5, <1>10 DEF VariableExpand
  <2>2. v.text \in Seq(Item)
    BY DEF Variable
  <2>3. PICK f : f = String(v.text, args, name)
    OBVIOUS
  <2>4. f \in Frame /\ f.proc = "string" /\ f.of = name
    BY <1>3, <2>2, <2>3, StringFrameType
  <2>5. PICK l : l = Entered(now, name)
    OBVIOUS
  <2>6. PICK b : b = Become(l, f)
    OBVIOUS
  <2>7. Good(b)
    BY <1>6, <1>7, <2>4, <2>5, <2>6, EnterFine DEF Good
  <2> QED
    BY <2>1, <2>3, <2>5, <2>6, <2>7
<1>11. CASE ~itself /\ ~(v.exp_count > MaxDepth) /\ v.flavor # "recursive"
  <2>1. VariableExpand(m, name, args) = Return(now, Words(v.text))
    BY <1>4, <1>5, <1>11 DEF VariableExpand
  <2>2. v.flavor = "simple"
    BY <1>11 DEF Variable
  <2>3. v.text \in Seq(WordItem)
    BY <1>4, <2>2 DEF Fine, Plain
  <2>4. Words(v.text) \in Phrase
    BY <2>3, WordsPhrase
  <2> QED
    BY <1>6, <1>7, <2>1, <2>4, ClauseReturns
<1> QED
  BY <1>8, <1>9, <1>10, <1>11

LEMMA FunctionErrorType ==
  ASSUME NEW name, NEW args
  PROVE  FunctionError(name, args) \in Errors
<1> DEFINE few == Len(args) < Functions[name[1]]
           many == Len(args) > Functions[name[1]]
           yes == name = <<"error_if">> /\ args[1] = <<"y">>
<1>1. FunctionError(name, args) =
        IF few THEN "too few arguments"
        ELSE IF many THEN "too many arguments"
        ELSE IF yes THEN "error-if" ELSE ""
  BY DEF FunctionError
<1> HIDE DEF few, many, yes
<1> QED
  BY <1>1 DEF Errors

LEMMA NamedGood ==
  ASSUME NEW m, Fine(m), m.stack # <<>>, Top(m).proc = "clause",
         NEW e \in Environments, NEW name \in Phrase, NEW args \in Seq(Phrase)
  PROVE  Good(Named(m, e, name, args))
<1>1. CASE name \in DOMAIN m.table
  <2>1. Named(m, e, name, args) = VariableExpand(m, name, args)
    BY <1>1 DEF Named
  <2> QED
    BY <1>1, <2>1, VariableExpandGood
<1>2. CASE name \notin DOMAIN m.table /\ IsFunction(name) /\ FunctionError(name, args) # ""
  <2>1. Named(m, e, name, args) = Stop(m, FunctionError(name, args))
    BY <1>2 DEF Named
  <2> QED
    BY <1>2, <2>1, FunctionErrorType, StopGood
<1>3. CASE name \notin DOMAIN m.table /\ IsFunction(name) /\ FunctionError(name, args) = ""
  <2>1. Named(m, e, name, args) = Return(m, FunctionExpand(name, m.line))
    BY <1>3 DEF Named
  <2>2. m.line \in 1 .. Len(Numerals)
    BY DEF Fine
  <2>3. Numerals[m.line] \in STRING
    BY <2>2, WordsAssumption
  <2>4. <<Numerals[m.line]>> \in Phrase
    BY <2>3 DEF Phrase
  <2>5. FunctionExpand(name, m.line) \in Phrase
    BY <2>4, Empties DEF FunctionExpand
  <2> QED
    BY <2>1, <2>5, ClauseReturns
<1>4. CASE name \notin DOMAIN m.table /\ ~IsFunction(name) /\ args = <<>> /\ name # NoName
  <2>1. Named(m, e, name, args) = EnvExpand(m, e, name)
    BY <1>4 DEF Named
  <2>2. CASE name \in DOMAIN e
    <3>1. PICK p : p = [m EXCEPT !.env_list = @ \union {name}]
      OBVIOUS
    <3>2. Fine(p) /\ p.stack = m.stack
      BY <3>1, EnvListFine
    <3>3. Top(p) = Top(m)
      BY <3>2 DEF Top
    <3>4. e[name] \in Phrase
      BY <2>2, WordsAssumption
    <3>5. EnvExpand(m, e, name) = Return(p, e[name])
      BY <2>2, <3>1 DEF EnvExpand
    <3> QED
      BY <2>1, <3>2, <3>3, <3>4, <3>5, ClauseReturns
  <2>3. CASE name \notin DOMAIN e
    <3>1. EnvExpand(m, e, name) = Return(m, <<>>)
      BY <2>3 DEF EnvExpand
    <3> QED
      BY <2>1, <3>1, Empties, ClauseReturns
  <2> QED
    BY <2>2, <2>3
<1>5. CASE name \notin DOMAIN m.table /\ ~IsFunction(name) /\ ~(args = <<>> /\ name # NoName)
  <2>1. Named(m, e, name, args) = Return(m, <<>>)
    BY <1>5 DEF Named
  <2> QED
    BY <2>1, Empties, ClauseReturns
<1> QED
  BY <1>1, <1>2, <1>3, <1>4, <1>5

LEMMA EvalClauseGood ==
  ASSUME NEW m, Good(m), m.stack # <<>>, Top(m).proc = "clause", NEW e \in Environments
  PROVE  Good(EvalClause(m, e))
<1>1. Fine(m) /\ m \in Machine
  BY DEF Good, Fine
<1>2. PICK f \in Frame : f = Top(m)
  BY <1>1, TopFrame
<1>3. /\ f \in ClauseFrame /\ f.clauses \in Seq(Texts) /\ f.args \in Seq(Phrase)
      /\ f.words \in Seq(Phrase)
  BY <1>2, ClauseParts
<1>4. CASE f.clauses = <<>>
  <2>1. f.words # <<>>
    BY <1>2, <1>4 DEF Good, TopOK
  <2>2. Head(f.words) \in Phrase /\ Tail(f.words) \in Seq(Phrase)
    BY <1>3, <2>1, HeadTailProperties
  <2>3. EvalClause(m, e) = Named(m, e, Head(f.words), Tail(f.words))
    BY <1>2, <1>4 DEF EvalClause
  <2> QED
    BY <1>1, <1>2, <2>2, <2>3, NamedGood
<1>5. CASE f.clauses # <<>>
  <2>1. Head(f.clauses) \in Texts /\ Tail(f.clauses) \in Seq(Texts)
    BY <1>3, <1>5, HeadTailProperties
  <2>2. Head(f.clauses) \in Seq(Item)
    BY <2>1, TextsAssumption
  <2>3. PICK w \in Seq(Texts) : w = Tail(f.clauses)
    BY <2>1
  <2>4. PICK g : g = [f EXCEPT !.clauses = w]
    OBVIOUS
  <2>5. g \in Frame /\ g.proc = "clause"
    BY <1>3, <2>4 DEF ClauseFrame, Frame
  <2>6. PICK h : h = String(Head(f.clauses), f.args, NoName)
    OBVIOUS
  <2>7. h \in Frame /\ h.proc = "string" /\ h.of = NoName
    BY <1>3, <2>2, <2>6, StringFrameType
  <2>8. PICK b : b = Become(m, g)
    OBVIOUS
  <2>9. Fine(b)
    BY <1>1, <1>2, <2>5, <2>8, BecomeFine
  <2>10. b \in Machine /\ Same(m, b)
    BY <1>1, <2>5, <2>8, BecomeEffect
  <2>11. b.error = "" /\ b.line \in 1 .. Len(Numerals)
    BY <1>1, <2>10 DEF Same, Fine
  <2>12. PICK c : c = Call(b, h)
    OBVIOUS
  <2>13. Fine(c)
    BY <2>7, <2>9, <2>11, <2>12, CallFine
  <2>14. Top(c) = h
    BY <2>7, <2>10, <2>12, CallTop
  <2>15. EvalClause(m, e) = c
    BY <1>2, <1>5, <2>3, <2>4, <2>6, <2>8, <2>12 DEF EvalClause
  <2> QED
    BY <2>7, <2>13, <2>14, <2>15 DEF Good, TopOK
<1> QED
  BY <1>4, <1>5

LEMMA StepGood ==
  ASSUME NEW m, Good(m), NEW e \in Environments
  PROVE  Good(Step(m, e))
<1>1. CASE m.stack = <<>>
  BY <1>1 DEF Step
<1>2. CASE m.stack # <<>> /\ Top(m).proc = "string"
  BY <1>2, ExpandStringGood DEF Step
<1>3. CASE m.stack # <<>> /\ Top(m).proc # "string"
  <2>1. Top(m) \in Frame
    BY <1>3, TopFrame DEF Good, Fine
  <2>2. Top(m).proc = "clause"
    BY <1>3, <2>1 DEF Frame, StringFrame, ClauseFrame
  <2> QED
    BY <1>3, <2>2, EvalClauseGood DEF Step
<1> QED
  BY <1>1, <1>2, <1>3

-----------------------------------------------------------------------------
(* What a step of the expansion leaves as it is, and what only grows.        *)

Fields == {"table", "env_list", "seen", "line", "error", "out", "results", "stack"}

Kept(m, p) ==
  /\ DOMAIN p = Fields
  /\ p.line = m.line /\ p.results = m.results
  /\ DOMAIN p.table = DOMAIN m.table
  /\ m.seen \subseteq p.seen /\ m.env_list \subseteq p.env_list

LEMMA MachineFields ==
  ASSUME NEW m \in Machine
  PROVE  DOMAIN m = Fields
BY DEF Machine, Fields

LEMMA KeptTwice ==
  ASSUME NEW m, NEW p, NEW q, Kept(m, p), Kept(p, q)
  PROVE  Kept(m, q)
BY DEF Kept

LEMMA KeptStack ==
  ASSUME NEW m, DOMAIN m = Fields, NEW t
  PROVE  Kept(m, m) /\ Kept(m, [m EXCEPT !.stack = t])
BY DEF Kept, Fields

LEMMA KeptOut ==
  ASSUME NEW m, DOMAIN m = Fields, NEW t, NEW o, NEW er
  PROVE  /\ Kept(m, [m EXCEPT !.error = er, !.stack = t, !.out = o])
         /\ Kept(m, [m EXCEPT !.stack = t, !.out = o])
BY DEF Kept, Fields

LEMMA KeptMoves ==
  ASSUME NEW m, DOMAIN m = Fields, NEW f, NEW o, NEW er
  PROVE  /\ Kept(m, Call(m, f)) /\ Kept(m, Become(m, f))
         /\ Kept(m, Stop(m, er)) /\ Kept(m, Return(m, o))
<1>1. Kept(m, Call(m, f))
  <2>1. Call(m, f) = [m EXCEPT !.stack = Append(m.stack, f)]
    BY DEF Call, Fields
  <2> QED
    BY <2>1, KeptStack
<1>2. Kept(m, Become(m, f))
  BY KeptStack DEF Become
<1>3. Kept(m, Stop(m, er))
  BY KeptOut DEF Stop
<1>4. Kept(m, Return(m, o))
  <2>1. CASE Len(m.stack) = 1
    BY <2>1, KeptOut DEF Return
  <2>2. CASE Len(m.stack) # 1
    <3>1. PICK t : t = Returned(m.stack, o)
      OBVIOUS
    <3>2. Return(m, o) = [m EXCEPT !.stack = t]
      BY <2>2, <3>1 DEF Return, Returned, Below, Under
    <3> QED
      BY <3>2, KeptStack
  <2> QED
    BY <2>1, <2>2
<1> QED
  BY <1>1, <1>2, <1>3, <1>4

LEMMA KeptNotes ==
  ASSUME NEW m, DOMAIN m = Fields, NEW x
  PROVE  /\ Kept(m, [m EXCEPT !.seen = @ \union {x}])
         /\ Kept(m, [m EXCEPT !.env_list = @ \union {x}])
<1>1. PICK q : q = m.seen \union {x}
  OBVIOUS
<1>2. Kept(m, [m EXCEPT !.seen = q])
  BY <1>1 DEF Kept, Fields
<1>3. PICK w : w = m.env_list \union {x}
  OBVIOUS
<1>4. Kept(m, [m EXCEPT !.env_list = w])
  BY <1>3 DEF Kept, Fields
<1> QED
  BY <1>1, <1>2, <1>3, <1>4

LEMMA KeptCount ==
  ASSUME NEW m, DOMAIN m = Fields, NEW x \in DOMAIN m.table, NEW k
  PROVE  Kept(m, WithCount(m, x, k))
<1>1. PICK w : w = [m.table[x] EXCEPT !.exp_count = k]
  OBVIOUS
<1>2. PICK u : u = Set(m.table, x, w)
  OBVIOUS
<1>3. DOMAIN u = DOMAIN m.table
  BY <1>2 DEF Set
<1>4. WithCount(m, x, k) = [m EXCEPT !.table = u]
  BY <1>1, <1>2 DEF WithCount
<1> QED
  BY <1>3, <1>4 DEF Kept, Fields

LEMMA KeptVariable ==
  ASSUME NEW m, DOMAIN m = Fields, NEW name \in DOMAIN m.table, NEW args
  PROVE  Kept(m, VariableExpand(m, name, args))
<1>1. PICK v : v = m.table[name]
  OBVIOUS
<1>2. PICK now : now = [m EXCEPT !.seen = @ \union {name}]
  OBVIOUS
<1>3. Kept(m, now)
  BY <1>2, KeptNotes
<1>4. PICK l : l = Entered(now, name)
  OBVIOUS
<1>5. Kept(m, l)
  <2>1. DOMAIN now = Fields /\ name \in DOMAIN now.table
    BY <1>3 DEF Kept
  <2>2. Kept(now, l)
    BY <1>4, <2>1, KeptCount DEF Entered
  <2> QED
    BY <1>3, <2>2, KeptTwice
<1>6. PICK b : b = Become(l, String(v.text, args, name))
  OBVIOUS
<1>7. PICK r : r = Return(now, Words(v.text))
  OBVIOUS
<1>8. Kept(m, b)
  <2>1. Kept(l, b)
    BY <1>5, <1>6, KeptMoves DEF Kept
  <2> QED
    BY <1>5, <2>1, KeptTwice
<1>9. Kept(m, r)
  <2>1. Kept(now, r)
    BY <1>3, <1>7, KeptMoves DEF Kept
  <2> QED
    BY <1>3, <2>1, KeptTwice
<1>10. Kept(m, Stop(m, "references itself")) /\ Kept(m, Stop(m, "too deep"))
  BY KeptMoves
<1>11. VariableExpand(m, name, args) \in
         {Stop(m, "references itself"), Stop(m, "too deep"), b, r}
  BY <1>1, <1>2, <1>4, <1>6, <1>7 DEF VariableExpand
<1> QED
  BY <1>8, <1>9, <1>10, <1>11

LEMMA KeptNamed ==
  ASSUME NEW m, DOMAIN m = Fields, NEW e, NEW name, NEW args
  PROVE  Kept(m, Named(m, e, name, args))
<1>1. CASE name \in DOMAIN m.table
  BY <1>1, KeptVariable DEF Named
<1>2. CASE name \notin DOMAIN m.table /\ IsFunction(name)
  BY <1>2, KeptMoves DEF Named
<1>3. CASE name \notin DOMAIN m.table /\ ~IsFunction(name)
  <2>1. PICK p : p = [m EXCEPT !.env_list = @ \union {name}]
    OBVIOUS
  <2>2. Kept(m, p)
    BY <2>1, KeptNotes
  <2>3. Kept(p, Return(p, e[name]))
    BY <2>2, KeptMoves DEF Kept
  <2>4. Kept(m, Return(p, e[name])) /\ Kept(m, Return(m, <<>>))
    BY <2>2, <2>3, KeptMoves, KeptTwice
  <2>5. Named(m, e, name, args) \in {Return(m, <<>>), Return(p, e[name])}
    BY <1>3, <2>1 DEF Named, EnvExpand
  <2> QED
    BY <2>4, <2>5
<1> QED
  BY <1>1, <1>2, <1>3

LEMMA KeptCall ==
  ASSUME NEW m, DOMAIN m = Fields, NEW f, NEW g
  PROVE  Kept(m, Call(Become(m, f), g))
<1>1. PICK b : b = Become(m, f)
  OBVIOUS
<1>2. Kept(m, b)
  BY <1>1, KeptMoves
<1>3. Kept(b, Call(b, g))
  BY <1>2, KeptMoves DEF Kept
<1> QED
  BY <1>1, <1>2, <1>3, KeptTwice

LEMMA StepKept ==
  ASSUME NEW m, Good(m), NEW e
  PROVE  Kept(m, Step(m, e))
<1>1. DOMAIN m = Fields
  BY MachineFields DEF Good, Fine
<1>2. CASE m.stack = <<>>
  BY <1>1, <1>2, KeptStack DEF Step
<1>3. CASE m.stack # <<>> /\ Top(m).proc # "string"
  <2>1. Kept(m, EvalClause(m, e))
    BY <1>1, KeptNamed, KeptCall DEF EvalClause
  <2> QED
    BY <1>3, <2>1 DEF Step
<1>4. CASE m.stack # <<>> /\ Top(m).proc = "string"
  <2>1. PICK f : f = Top(m)
    OBVIOUS
  <2>2. PICK rest : rest = [f EXCEPT !.text = Tail(@)]
    OBVIOUS
  <2>3. Step(m, e) = ExpandString(m)
    BY <1>4 DEF Step
  <2>4. CASE f.text = <<>> /\ f.of = NoName
    BY <1>1, <2>1, <2>3, <2>4, KeptMoves DEF ExpandString
  <2>5. CASE f.text = <<>> /\ f.of # NoName
    <3>1. PICK l : l = Left(m, f.of)
      OBVIOUS
    <3>2. f.of \in DOMAIN m.table
      BY <1>4, <2>1, <2>5, TopOwned DEF Good
    <3>3. Kept(m, l)
      BY <1>1, <3>1, <3>2, KeptCount DEF Left
    <3>4. Kept(l, Return(l, f.out))
      BY <3>3, KeptMoves DEF Kept
    <3>5. Step(m, e) = Return(l, f.out)
      BY <2>1, <2>3, <2>5, <3>1 DEF ExpandString
    <3> QED
      BY <3>3, <3>4, <3>5, KeptTwice
  <2>6. CASE f.text # <<>> /\ IsWord(Head(f.text))
    BY <1>1, <2>1, <2>3, <2>6, KeptMoves DEF ExpandString
  <2>7. CASE f.text # <<>> /\ ~IsWord(Head(f.text))
    <3>1. Step(m, e) = Reference(m, rest, Head(f.text).clauses)
      BY <2>1, <2>2, <2>3, <2>7 DEF ExpandString
    <3>2. Kept(m, Reference(m, rest, Head(f.text).clauses))
      BY <1>1, KeptMoves, KeptCall DEF Reference
    <3> QED
      BY <3>1, <3>2
  <2> QED
    BY <2>4, <2>5, <2>6, <2>7
<1> QED
  BY <1>2, <1>3, <1>4

-----------------------------------------------------------------------------
(* A statement is begun and finished.                                        *)

\* The machine between two expansions.
Idle(m) == Fine(m) /\ m.error = "" /\ m.stack = <<>>

LEMMA IdleCount ==
  ASSUME NEW m, Idle(m), NEW n
  PROVE  Count(m, n) = 0
<1>1. Counted(m.table, <<>>)
  BY DEF Idle, Fine
<1> QED
  BY <1>1, OpensEmpty DEF Count, Counted

\* The machine m with the table t.
Tabled(m, t) == [m EXCEPT !.table = t]

StillIdle(m, x, p) ==
  /\ Idle(p) /\ p.line = m.line /\ DOMAIN p.table = DOMAIN m.table \union {x}

LEMMA TableIdle ==
  ASSUME NEW m, Idle(m), NEW x \in Keys, NEW v \in Variable, v.exp_count = 0,
         v.flavor = "simple" => v.text \in Seq(WordItem)
  PROVE  StillIdle(m, x, Tabled(m, Set(m.table, x, v)))
<1>1. m \in Machine
  BY DEF Idle, Fine
<1>2. PICK u \in Tables : u = m.table
  BY <1>1 DEF Machine
<1>t. PICK t : t = Set(u, x, v)
  OBVIOUS
<1>p. PICK p : p = [m EXCEPT !.table = t]
  OBVIOUS
<1>3. /\ t \in Tables /\ DOMAIN t = DOMAIN u \union {x} /\ t[x] = v
      /\ \A n \in DOMAIN u \ {x} : t[n] = u[n]
  <2>1. /\ Set(u, x, v) \in Tables
        /\ DOMAIN Set(u, x, v) = DOMAIN u \union {x}
        /\ Set(u, x, v)[x] = v
        /\ \A n \in DOMAIN u \ {x} : Set(u, x, v)[n] = u[n]
    BY SetEntry
  <2> QED
    BY <1>t, <2>1
<1>4. /\ p \in Machine /\ p.table = t /\ p.stack = <<>> /\ p.error = "" /\ p.line = m.line
  BY <1>1, <1>3, <1>p DEF Idle, Machine
<1>5. Plain(p)
  <2>1. \A n \in DOMAIN u : u[n].flavor = "simple" => u[n].text \in Seq(WordItem)
    BY <1>2 DEF Idle, Fine, Plain
  <2>2. ASSUME NEW n \in DOMAIN t, t[n].flavor = "simple"
        PROVE  t[n].text \in Seq(WordItem)
    <3>1. CASE n = x
      BY <1>3, <2>2, <3>1
    <3>2. CASE n # x
      <4>1. n \in DOMAIN u /\ t[n] = u[n]
        BY <1>3, <3>2
      <4> QED
        BY <2>1, <2>2, <4>1
    <3> QED
      BY <3>1, <3>2
  <2> QED
    BY <1>4, <2>2 DEF Plain
<1>6. Counted(t, <<>>)
  <2>1. ASSUME NEW n \in DOMAIN t
        PROVE  t[n].exp_count = Opens(<<>>, n)
    <3>1. CASE n = x
      BY <1>3, <3>1, OpensEmpty
    <3>2. CASE n # x
      <4>1. n \in DOMAIN u /\ t[n] = u[n]
        BY <1>3, <3>2
      <4> QED
        BY <1>2, <4>1 DEF Idle, Fine, Counted
    <3> QED
      BY <3>1, <3>2
  <2> QED
    BY <2>1 DEF Counted
<1>7. Owned(<<>>, DOMAIN t)
  BY DEF Owned
<1> QED
  <2>1. StillIdle(m, x, p)
    BY <1>2, <1>3, <1>4, <1>5, <1>6, <1>7 DEF Idle, Fine, StillIdle
  <2> QED
    BY <1>2, <1>t, <1>p, <2>1 DEF Tabled

LEMMA IdleGood ==
  ASSUME NEW m, Idle(m)
  PROVE  Good(m)
BY DEF Idle, Good, TopOK

LEMMA LiteralItems ==
  ASSUME NEW words \in Phrase
  PROVE  Literal(words) \in Seq(WordItem)
<1>1. /\ DOMAIN words = 1 .. Len(words) /\ Len(words) \in Nat
      /\ \A i \in 1 .. Len(words) : words[i] \in STRING
  BY DEF Phrase
<1>2. \A i \in 1 .. Len(words) : Word(words[i]) \in WordItem
  BY <1>1 DEF Word, WordItem
<1>3. Literal(words) \in [1 .. Len(words) -> WordItem]
  BY <1>1, <1>2 DEF Literal
<1> QED
  BY <1>1, <1>3

LEMMA WordItems == Seq(WordItem) \subseteq Seq(Item)
<1>1. WordItem \subseteq Item
  BY DEF WordItem, Item
<1>2. ASSUME NEW s \in Seq(WordItem)
      PROVE  s \in Seq(Item)
  BY <1>1
<1> QED
  BY <1>2

LEMMA PlainString ==
  ASSUME NEW text \in Seq(Item), NEW f, f = String(text, <<>>, NoName)
  PROVE  f \in Frame /\ f.proc = "string" /\ f.of = NoName
<1>1. PICK args \in Seq(Phrase) : args = <<>>
  BY Empties
<1>2. PICK of \in Keys \union {NoName} : of = NoName
  OBVIOUS
<1>3. f = String(text, args, of)
  BY <1>1, <1>2
<1> QED
  BY <1>2, <1>3, StringFrameType

LEMMA ExtendedItems ==
  ASSUME NEW S, WordItem \subseteq S, NEW old \in Seq(S), NEW new \in Seq(S)
  PROVE  Extended(old, new) \in Seq(S)
<1>1. PICK b \in Seq(S) : b = Literal(Blank)
  BY LiteralItems, WordsAssumption
<1>2. Extended(old, new) = old \o b \o new
  BY <1>1 DEF Extended
<1> QED
  BY <1>2

LEMMA WordAt ==
  ASSUME NEW text \in Seq(WordItem), NEW k \in DOMAIN text
  PROVE  IsWord(text[k])
<1>1. k \in 1 .. Len(text)
  OBVIOUS
<1>2. text[k] \in WordItem
  BY <1>1
<1> QED
  BY <1>2 DEF WordItem, IsWord

\* The variable that variable_add leaves before an expansion.
VariableAdded(m, name, r) ==
  /\ Good(r) /\ r.error = "" /\ r.line = m.line
  /\ DOMAIN r.table = DOMAIN m.table \union {name}

LEMMA VariableAddGood ==
  ASSUME NEW m, Idle(m), m.line \in 1 .. Len(Numerals), NEW name \in Keys,
         NEW text \in Seq(Item), NEW flavor \in Flavors, NEW junk \in Phrase
  PROVE  VariableAdded(m, name, VariableAdd(m, name, text, flavor, junk))
<1>1. m.table \in Tables
  BY DEF Idle, Fine, Machine
<1> DEFINE append == flavor = "append" /\ name \in DOMAIN m.table
<1>2. PICK kept : kept = Flavor(m, name, flavor)
  OBVIOUS
<1>3. append => m.table[name] \in Variable
  BY <1>1, TableMember
<1>4. kept \in {"simple", "recursive"}
  BY <1>2, <1>3 DEF Flavor, Flavors, Variable
<1>5. append => kept = m.table[name].flavor
  BY <1>2 DEF Flavor
<1>6. PICK old : old = IF append THEN m.table[name].text ELSE Literal(junk)
  OBVIOUS
<1>7. old \in Seq(Item) /\ (kept = "simple" => old \in Seq(WordItem))
  <2>1. Literal(junk) \in Seq(WordItem) /\ Literal(junk) \in Seq(Item)
    BY LiteralItems, WordItems
  <2>2. CASE append
    <3>1. old = m.table[name].text /\ old \in Seq(Item)
      BY <1>3, <1>6, <2>2 DEF Variable
    <3>2. kept = "simple" => old \in Seq(WordItem)
      BY <1>5, <2>2, <3>1 DEF Idle, Fine, Plain
    <3> QED
      BY <3>1, <3>2
  <2>3. CASE ~append
    BY <1>6, <2>1, <2>3
  <2> QED
    BY <2>2, <2>3
<1>8. PICK new : new = IF append THEN Extended(old, text) ELSE text
  OBVIOUS
<1>9. new \in Seq(Item)
  <2>1. WordItem \subseteq Item
    BY DEF WordItem, Item
  <2>2. Extended(old, text) \in Seq(Item)
    BY <1>7, <2>1, ExtendedItems
  <2> QED
    BY <1>8, <2>2
<1>10. CASE kept = "simple"
  <2>1. PICK v : v = [flavor |-> kept, text |-> old, exp_count |-> Count(m, name)]
    OBVIOUS
  <2>2. v \in Variable /\ v.exp_count = 0 /\ v.text = old
    BY <1>4, <1>7, <2>1, IdleCount DEF Variable
  <2>a. PICK t : t = Set(m.table, name, v)
    OBVIOUS
  <2>3. PICK p : p = Tabled(m, t)
    OBVIOUS
  <2>4. Idle(p) /\ p.line = m.line /\ DOMAIN p.table = DOMAIN m.table \union {name}
    BY <1>7, <1>10, <2>2, <2>a, <2>3, TableIdle DEF StillIdle
  <2>5. PICK f : f = String(text, <<>>, NoName)
    OBVIOUS
  <2>6. f \in Frame /\ f.proc = "string" /\ f.of = NoName
    BY <2>5, PlainString
  <2>7. PICK c : c = Call(p, f)
    OBVIOUS
  <2>8. Fine(c)
    BY <2>4, <2>6, <2>7, CallFine DEF Idle
  <2>9. p \in Machine
    BY <2>4 DEF Idle, Fine
  <2>10. Top(c) = f /\ Same(p, c)
    BY <2>6, <2>7, <2>9, CallTop, CallEffect
  <2>11. VariableAdd(m, name, text, flavor, junk) = c
    BY <1>2, <1>6, <1>10, <2>1, <2>a, <2>3, <2>5, <2>7 DEF VariableAdd, Tabled
  <2> QED
    BY <2>4, <2>6, <2>8, <2>10, <2>11 DEF VariableAdded, Good, TopOK, Same, Idle
<1>11. CASE kept # "simple"
  <2>1. PICK v : v = [flavor |-> kept, text |-> new, exp_count |-> Count(m, name)]
    OBVIOUS
  <2>2. v \in Variable /\ v.exp_count = 0 /\ v.flavor # "simple"
    BY <1>4, <1>9, <1>11, <2>1, IdleCount DEF Variable
  <2>a. PICK t : t = Set(m.table, name, v)
    OBVIOUS
  <2>3. PICK p : p = Tabled(m, t)
    OBVIOUS
  <2>4. Idle(p) /\ p.line = m.line /\ DOMAIN p.table = DOMAIN m.table \union {name}
    BY <2>2, <2>a, <2>3, TableIdle DEF StillIdle
  <2>5. VariableAdd(m, name, text, flavor, junk) = p
    BY <1>2, <1>6, <1>8, <1>11, <2>1, <2>a, <2>3 DEF VariableAdd, Tabled
  <2> QED
    BY <2>4, <2>5, IdleGood DEF VariableAdded, Idle
<1> QED
  BY <1>10, <1>11

\* The machine once a statement is begun.
Begun(m, s, p) ==
  /\ Good(p) /\ p.error = "" /\ p.line = m.line + 1
  /\ DOMAIN m.table \subseteq DOMAIN p.table
  /\ s.kind # "use" => <<s.name>> \in DOMAIN p.table

LEMMA BeginGood ==
  ASSUME NEW m, Idle(m), NEW s \in Statements, NEW junk \in Phrase,
         m.line + 1 <= Len(Numerals)
  PROVE  Begun(m, s, Begin(m, s, junk))
<1>1. m \in Machine /\ m.line \in Nat
  BY DEF Idle, Fine, Machine
<1>2. PICK l \in Nat : l = m.line + 1
  BY <1>1
<1>3. l \in 1 .. Len(Numerals)
  <2>1. Len(Numerals) \in Nat
    BY WordsAssumption
  <2> QED
    BY <1>1, <1>2, <2>1
<1>4. PICK now : now = [m EXCEPT !.line = l, !.seen = {}]
  OBVIOUS
<1>5. /\ now \in Machine /\ now.table = m.table /\ now.stack = m.stack
      /\ now.error = m.error /\ now.line = l
  <2>1. {} \in SUBSET Keys
    OBVIOUS
  <2> QED
    BY <1>1, <1>4, <2>1 DEF Machine
<1>6. Idle(now)
  BY <1>3, <1>5 DEF Idle, Fine, Plain
<1>7. CASE s.kind = "use"
  <2>1. s.text \in Seq(Item)
    BY <1>7, TextsAssumption DEF Statements, Flavors
  <2>2. PICK f : f = String(s.text, <<>>, NoName)
    OBVIOUS
  <2>3. f \in Frame /\ f.proc = "string" /\ f.of = NoName
    BY <2>1, <2>2, PlainString
  <2>4. PICK c : c = Call(now, f)
    OBVIOUS
  <2>5. Fine(c)
    BY <1>3, <1>5, <1>6, <2>3, <2>4, CallFine DEF Idle
  <2>6. Top(c) = f /\ Same(now, c)
    BY <1>5, <2>3, <2>4, CallTop, CallEffect
  <2>7. Begin(m, s, junk) = c
    BY <1>2, <1>4, <1>7, <2>2, <2>4 DEF Begin, Idle
  <2> QED
    BY <1>2, <1>5, <1>6, <1>7, <2>3, <2>5, <2>6, <2>7 DEF Begun, Good, TopOK, Same, Idle
<1>8. CASE s.kind # "use"
  <2>1. s.kind \in Flavors /\ s.name \in Names /\ s.text \in Values
    BY <1>8 DEF Statements
  <2>2. <<s.name>> \in Keys /\ s.text \in Seq(Item)
    BY <2>1, TextsAssumption DEF Keys
  <2>3. PICK r : r = VariableAdd(now, <<s.name>>, s.text, s.kind, junk)
    OBVIOUS
  <2>4. VariableAdded(now, <<s.name>>, r)
    BY <1>3, <1>5, <1>6, <2>1, <2>2, <2>3, VariableAddGood
  <2>5. Begin(m, s, junk) = r
    BY <1>2, <1>4, <1>8, <2>3 DEF Begin, Idle
  <2> QED
    BY <1>2, <1>5, <2>4, <2>5 DEF Begun, VariableAdded
<1> QED
  BY <1>7, <1>8

LEMMA FinishGood ==
  ASSUME NEW m, Fine(m), m.stack = <<>>, NEW s \in Statements,
         s.kind # "use" /\ m.error = "" => <<s.name>> \in DOMAIN m.table
  PROVE  /\ Good(Finish(m, s)) /\ Finish(m, s).stack = <<>>
         /\ Finish(m, s).line = m.line
<1>1. m \in Machine
  BY DEF Fine
<1>2. CASE m.error # ""
  BY <1>2 DEF Finish, Good, TopOK
<1>3. CASE m.error = "" /\ s.kind = "use"
  <2>a. m.results \in Seq(Phrase) /\ m.out \in Phrase
    BY <1>1 DEF Machine
  <2>1. PICK w \in Seq(Phrase) : w = Append(m.results, m.out)
    BY <2>a, AppendProperties
  <2>2. PICK p : p = [m EXCEPT !.results = w, !.out = <<>>]
    OBVIOUS
  <2>3. /\ p \in Machine /\ p.table = m.table /\ p.stack = m.stack
        /\ p.error = m.error /\ p.line = m.line
    BY <1>1, <2>1, <2>2, Empties DEF Machine
  <2>4. Good(p)
    BY <2>3 DEF Fine, Good, Plain, TopOK
  <2>5. Finish(m, s) = p
    BY <1>3, <2>1, <2>2 DEF Finish
  <2> QED
    BY <2>3, <2>4, <2>5
<1>4. CASE m.error = "" /\ s.kind # "use"
  <2>1. PICK x \in DOMAIN m.table : x = <<s.name>>
    BY <1>4
  <2>2. m.table \in Tables /\ m.out \in Phrase
    BY <1>1 DEF Machine
  <2>3. x \in Keys /\ m.table[x] \in Variable
    BY <2>1, <2>2, TableMember
  <2>4. PICK v \in Variable : v = m.table[x]
    BY <2>3
  <2>5. Idle(m)
    BY <1>4 DEF Idle
  <2>6. v.exp_count = 0 /\ (v.flavor = "simple" => v.text \in Seq(WordItem))
    <3>1. Counted(m.table, <<>>)
      BY <2>5 DEF Idle, Fine
    <3> QED
      BY <2>1, <2>4, <2>5, <3>1, OpensEmpty DEF Counted, Idle, Fine, Plain
  <2>7. PICK new : new = IF s.kind = "append" THEN Extended(v.text, Literal(m.out))
                         ELSE Literal(m.out)
    OBVIOUS
  <2>8. PICK lit : lit = Literal(m.out)
    OBVIOUS
  <2>9. lit \in Seq(WordItem) /\ lit \in Seq(Item) /\ v.text \in Seq(Item)
    BY <2>2, <2>8, LiteralItems, WordItems DEF Variable
  <2>10. Extended(v.text, lit) \in Seq(Item)
    <3>1. WordItem \subseteq Item
      BY DEF WordItem, Item
    <3> QED
      BY <2>9, <3>1, ExtendedItems
  <2>11. v.flavor = "simple" => Extended(v.text, lit) \in Seq(WordItem)
    BY <2>6, <2>9, ExtendedItems
  <2>12. new \in Seq(Item) /\ (v.flavor = "simple" => new \in Seq(WordItem))
    BY <2>7, <2>8, <2>9, <2>10, <2>11
  <2>13. PICK w : w = [v EXCEPT !.text = new]
    OBVIOUS
  <2>14. w \in Variable /\ w.exp_count = 0 /\ w.text = new /\ w.flavor = v.flavor
    BY <2>6, <2>12, <2>13 DEF Variable
  <2>15. PICK p : p = Tabled(m, Set(m.table, x, w))
    OBVIOUS
  <2>16. StillIdle(m, x, p)
    BY <2>3, <2>5, <2>12, <2>14, <2>15, TableIdle
  <2>17. Idle(p) /\ p.line = m.line /\ p \in Machine
    BY <2>16 DEF StillIdle, Idle, Fine
  <2>18. PICK q : q = [p EXCEPT !.out = <<>>]
    OBVIOUS
  <2>19. /\ q \in Machine /\ q.table = p.table /\ q.stack = p.stack
         /\ q.error = p.error /\ q.line = p.line
    BY <2>17, <2>18, Empties DEF Machine
  <2>20. Idle(q)
    BY <2>17, <2>19 DEF Idle, Fine, Plain
  <2>21. Finish(m, s) = q
    BY <1>1, <1>4, <2>1, <2>4, <2>7, <2>13, <2>15, <2>18 DEF Finish, Store, Tabled
  <2> QED
    BY <2>17, <2>19, <2>20, <2>21, IdleGood DEF Idle
<1> QED
  BY <1>2, <1>3, <1>4

-----------------------------------------------------------------------------
(* The machine's invariant.                                                  *)

LEMMA StartIdle == Idle(Start) /\ Start.line = 0 /\ Start.stack = <<>>
<1>1. <<>> \in Tables
  <2>1. DOMAIN <<>> = {}
    OBVIOUS
  <2>2. <<>> \in [{} -> Variable]
    OBVIOUS
  <2> QED
    BY <2>1, <2>2, TableMember
<1>2. PICK t \in Tables : t = <<>>
  BY <1>1
<1>3. PICK m : m = [Start EXCEPT !.table = t]
  OBVIOUS
<1>4. m = Start
  BY <1>2, <1>3 DEF Start
<1>5. /\ m \in Machine /\ m.error = "" /\ m.stack = <<>> /\ m.line = 0 /\ m.table = t
  BY <1>3, Empties DEF Start, Machine, Errors
<1>6. DOMAIN t = {}
  BY <1>2
<1>7. Plain(m) /\ Counted(m.table, m.stack)
  BY <1>5, <1>6 DEF Plain, Counted
<1>8. Owned(m.stack, DOMAIN m.table)
  <2>1. Owned(<<>>, DOMAIN t)
    BY DEF Owned
  <2> QED
    BY <1>5, <2>1
<1> QED
  BY <1>4, <1>5, <1>7, <1>8 DEF Idle, Fine

LEMMA InvInit == Init => Inv
<1> SUFFICES ASSUME Init
             PROVE  Inv
  OBVIOUS
<1>1. read \in Seq(Statements) /\ Len(read) = 0 /\ ~reading
  BY DEF Init
<1>2. MachineInv(Start)
  <2>1. PICK m : m = Start
    OBVIOUS
  <2>2. Good(m) /\ m.line = 0 /\ m.stack = <<>>
    BY <2>1, StartIdle, IdleGood
  <2>3. m.line <= Len(read)
    BY <1>1, <2>2
  <2> QED
    BY <1>1, <2>1, <2>2, <2>3 DEF MachineInv, Placed
<1>3. Len(read) <= MaxStatements
  BY <1>1, BoundsAssumption
<1> QED
  BY <1>1, <1>2, <1>3 DEF Init, Inv

\* A statement of the file is begun.
LEMMA ReadsInv ==
  ASSUME Inv, Running, NEW s \in Statements, NEW junk \in Phrase, Reads(s, junk)
  PROVE  Inv' /\ Begun(state, s, state') /\ Statement' = s
<1>1. /\ read \in Seq(Statements) /\ Len(read) < MaxStatements /\ ~reading
      /\ Len(read) \in Nat /\ Len(Numerals) \in Nat
  <2>1. read \in Seq(Statements) /\ Len(read) < MaxStatements /\ ~reading
    BY DEF Inv, Running
  <2>2. Numerals \in Seq(STRING)
    BY WordsAssumption
  <2> QED
    BY <2>1, <2>2, LenProperties
<1>2. PICK t \in Seq(Statements) : t = Append(read, s)
  BY <1>1, AppendProperties
<1>3. read' = t /\ Len(t) = Len(read) + 1 /\ t # <<>> /\ t[Len(t)] = s
  <2>1. read' = t
    BY <1>2 DEF Reads
  <2> QED
    BY <1>1, <1>2, <2>1, AppendProperties
<1>4. Statement' = s
  BY <1>3 DEF Statement
<1>5. reading' = (state'.stack # <<>> \/ again'.stack # <<>>)
  BY DEF Reads
<1>6. ASSUME NEW m, MachineInv(m), NEW j \in Phrase, NEW p, p = Begin(m, s, j)
      PROVE  (m.error = "" => Begun(m, s, p)) /\ Good(p) /\ p.line <= Len(t)
             /\ (m.error # "" => p.error # "")
  <2>1. m \in Machine /\ m.line \in Nat /\ m.line <= Len(read) /\ m.stack = <<>>
    BY <1>1, <1>6 DEF MachineInv, Good, Fine, Machine
  <2>2. m.line + 1 <= Len(Numerals)
    BY <1>1, <2>1, BoundsAssumption
  <2>3. CASE m.error = ""
    <3>1. Begun(m, s, p)
      BY <1>6, <2>1, <2>2, <2>3, BeginGood DEF MachineInv, Good, Idle
    <3>2. Good(p) /\ p.line = m.line + 1
      BY <3>1 DEF Begun
    <3>3. p.line <= Len(t)
      BY <1>1, <1>3, <2>1, <3>2
    <3> QED
      BY <2>3, <3>1, <3>2, <3>3
  <2>4. CASE m.error # ""
    <3>1. p = m
      BY <1>6, <2>4 DEF Begin
    <3>2. Good(p)
      BY <1>6, <3>1 DEF MachineInv
    <3>3. p.line <= Len(t)
      BY <1>1, <1>3, <2>1, <3>1
    <3> QED
      BY <2>4, <3>1, <3>2, <3>3
  <2> QED
    BY <2>3, <2>4
<1>7. /\ Begun(state, s, state') /\ Good(state') /\ state'.line <= Len(t)
  BY <1>6 DEF Reads, Inv, Running
<1>8. /\ again.error = "" => Begun(again, s, again')
      /\ Good(again') /\ again'.line <= Len(t)
      /\ again.error # "" => again'.error # ""
  <2>1. <<>> \in Phrase
    BY Empties
  <2> QED
    BY <1>6, <2>1 DEF Reads, Inv
<1>9. MachineInv(state)'
  BY <1>3, <1>4, <1>5, <1>7 DEF MachineInv, Placed, Begun
<1>10. MachineInv(again)'
  BY <1>3, <1>4, <1>5, <1>8 DEF MachineInv, Placed, Begun
<1>11. reading' \in BOOLEAN
  BY <1>5
<1>12. Len(read') <= MaxStatements
  BY <1>1, <1>3, BoundsAssumption
<1> QED
  BY <1>3, <1>4, <1>7, <1>9, <1>10, <1>11, <1>12 DEF Inv, Reads

LEMMA InvNext == Inv /\ [Next]_vars => Inv'
<1> SUFFICES ASSUME Inv, [Next]_vars
             PROVE  Inv'
  OBVIOUS
<1>1. CASE Assign
  <2>1. PICK name \in Names, text \in Values, flavor \in Flavors, junk \in Junk :
          Reads([kind |-> flavor, name |-> name, text |-> text], junk)
    BY <1>1 DEF Assign
  <2>2. [kind |-> flavor, name |-> name, text |-> text] \in Statements
    BY DEF Statements
  <2>3. junk \in Phrase
    BY WordsAssumption
  <2> QED
    BY <1>1, <2>1, <2>2, <2>3, ReadsInv DEF Assign
<1>2. CASE Use
  <2>1. PICK text \in Uses : Reads([kind |-> "use", name |-> "", text |-> text], <<>>)
    BY <1>2 DEF Use
  <2>2. [kind |-> "use", name |-> "", text |-> text] \in Statements
    BY DEF Statements
  <2> QED
    BY <1>2, <2>1, <2>2, Empties, ReadsInv DEF Use
<1>3. CASE Expand
  <2>1. ASSUME NEW m, MachineInv(m), NEW e \in Environments, NEW p, p = Step(m, e)
        PROVE  /\ Good(p) /\ p.line = m.line /\ DOMAIN p.table = DOMAIN m.table
               /\ p.error = "" => m.error = ""
    <3>1. Good(p) /\ Kept(m, p)
      BY <2>1, StepGood, StepKept DEF MachineInv
    <3>2. m.error # "" => p = m
      BY <2>1 DEF MachineInv, Good, Fine, Step
    <3> QED
      BY <3>1, <3>2 DEF Kept
  <2>2. /\ Good(state') /\ state'.line = state.line
        /\ DOMAIN state'.table = DOMAIN state.table
        /\ state'.error = "" => state.error = ""
    BY <1>3, <2>1 DEF Expand, Inv
  <2>3. /\ Good(again') /\ again'.line = again.line
        /\ DOMAIN again'.table = DOMAIN again.table
        /\ again'.error = "" => again.error = ""
    BY <1>3, <2>1 DEF Expand, Inv
  <2>4. MachineInv(state)' /\ MachineInv(again)'
    BY <1>3, <2>2, <2>3 DEF Expand, Inv, MachineInv, Placed, Statement
  <2> QED
    BY <1>3, <2>4 DEF Expand, Inv
<1>4. CASE End
  <2>1. Statement \in Statements
    BY <1>4 DEF End, Expanded, Statement, Inv
  <2>2. ASSUME NEW m, MachineInv(m), m.stack = <<>>, reading, NEW p, p = Finish(m, Statement)
        PROVE  Good(p) /\ p.stack = <<>> /\ p.line = m.line
    BY <2>1, <2>2, FinishGood DEF MachineInv, Placed, Good
  <2>3. /\ Good(state') /\ state'.stack = <<>> /\ state'.line = state.line
        /\ Good(again') /\ again'.stack = <<>> /\ again'.line = again.line
    BY <1>4, <2>2 DEF End, Expanded, Inv
  <2>4. MachineInv(state)' /\ MachineInv(again)'
    BY <1>4, <2>3 DEF End, Inv, MachineInv, Placed
  <2>5. undefined' \in BOOLEAN /\ reading' \in BOOLEAN
    BY <1>4 DEF End, Inv
  <2> QED
    BY <1>4, <2>4, <2>5 DEF End, Inv
<1>5. CASE Crash
  <2>1. PICK e \in Errors : e = "crash"
    BY DEF Errors
  <2>2. state' = Stop(state, e) /\ e # ""
    BY <1>5, <2>1 DEF Crash
  <2>3. Good(state') /\ state'.line = state.line /\ state'.stack = <<>>
    <3>1. Fine(state)
      BY DEF Inv, MachineInv, Good
    <3>2. state \in Machine
      BY <3>1 DEF Fine
    <3>3. Stop(state, e).line = state.line /\ Stop(state, e).stack = <<>>
      BY <3>2 DEF Stop, Machine
    <3> QED
      BY <2>2, <3>1, <3>3, StopGood
  <2>4. MachineInv(state)'
    BY <1>5, <2>3 DEF Crash, Inv, MachineInv, Placed
  <2>5. MachineInv(again)'
    BY <1>5 DEF Crash, Expanded, Inv, MachineInv, Placed
  <2> QED
    BY <1>5, <2>4, <2>5 DEF Crash, Inv
<1>6. CASE UNCHANGED vars
  BY <1>6 DEF vars, Inv, MachineInv, Placed, Statement
<1> QED
  BY <1>1, <1>2, <1>3, <1>4, <1>5, <1>6 DEF Next

(* While a file is read every variable's exp_count is the number of calls of   *)
(* variable_expand for it that have not returned, zero between two statements, *)
(* and a simple variable holds no reference (preprocess.c:251-322).           *)
THEOREM TypeCorrect == Spec => []TypeOK
<1>1. Inv => TypeOK
  <2> SUFFICES ASSUME Inv, state.error = "", NEW n \in DOMAIN state.table
               PROVE  /\ state.table[n].flavor = "simple" =>
                           \A k \in DOMAIN state.table[n].text : IsWord(state.table[n].text[k])
                      /\ ~reading => state.table[n].exp_count = 0
    BY DEF TypeOK
  <2>1. Fine(state) /\ (~reading => state.stack = <<>>)
    BY DEF Inv, MachineInv, Good
  <2>2. ASSUME state.table[n].flavor = "simple", NEW k \in DOMAIN state.table[n].text
        PROVE  IsWord(state.table[n].text[k])
    <3>1. state.table[n].text \in Seq(WordItem)
      BY <2>1, <2>2 DEF Fine, Plain
    <3> QED
      BY <2>2, <3>1, WordAt
  <2>3. ASSUME ~reading
        PROVE  state.table[n].exp_count = 0
    <3>1. Counted(state.table, <<>>)
      BY <2>1, <2>3 DEF Fine
    <3> QED
      BY <3>1, OpensEmpty DEF Counted
  <2> QED
    BY <2>2, <2>3
<1> QED
  BY <1>1, InvInit, InvNext, PTL DEF Spec

-----------------------------------------------------------------------------
(* Two readings that go the same way.                                        *)

Going(m1, m2, X) ==
  DOMAIN m1 = Fields /\ DOMAIN m2 = Fields /\ m1.error = "" /\ Twin(m1, m2, X)

LEMMA GoingStack ==
  ASSUME NEW m1, NEW m2, NEW X, Going(m1, m2, X), NEW t
  PROVE  Going([m1 EXCEPT !.stack = t], [m2 EXCEPT !.stack = t], X)
BY DEF Going, Twin, Fields

LEMMA GoingOut ==
  ASSUME NEW m1, NEW m2, NEW X, Going(m1, m2, X), NEW o,
         NEW r1, r1 = [m1 EXCEPT !.stack = <<>>, !.out = o],
         NEW r2, r2 = [m2 EXCEPT !.stack = <<>>, !.out = o]
  PROVE  Going(r1, r2, X)
BY DEF Going, Twin, Fields

LEMMA GoingSame ==
  ASSUME NEW m1, NEW m2, NEW X, Going(m1, m2, X)
  PROVE  /\ m2.stack = m1.stack /\ Below(m2) = Below(m1) /\ Top(m2) = Top(m1)
         /\ Twin(m1, m2, X)
BY DEF Going, Twin, Below, Top

LEMMA TwinCall ==
  ASSUME NEW m1, NEW m2, NEW X, Going(m1, m2, X), NEW f
  PROVE  Going(Call(m1, f), Call(m2, f), X)
<1>1. PICK t : t = Append(m1.stack, f)
  OBVIOUS
<1>2. Call(m1, f) = [m1 EXCEPT !.stack = t] /\ Call(m2, f) = [m2 EXCEPT !.stack = t]
  BY <1>1, GoingSame DEF Call, Going, Fields
<1> QED
  BY <1>2, GoingStack

LEMMA TwinBecome ==
  ASSUME NEW m1, NEW m2, NEW X, Going(m1, m2, X), NEW f
  PROVE  Going(Become(m1, f), Become(m2, f), X)
<1>1. PICK t : t = Append(Below(m1), f)
  OBVIOUS
<1>2. Become(m1, f) = [m1 EXCEPT !.stack = t] /\ Become(m2, f) = [m2 EXCEPT !.stack = t]
  BY <1>1, GoingSame DEF Become
<1> QED
  BY <1>2, GoingStack

LEMMA TwinReturn ==
  ASSUME NEW m1, NEW m2, NEW X, Going(m1, m2, X), NEW o
  PROVE  Twin(Return(m1, o), Return(m2, o), X)
<1>1. PICK t : t = Returned(m1.stack, o)
  OBVIOUS
<1>2. m2.stack = m1.stack
  BY GoingSame
<1>3. CASE Len(m1.stack) = 1
  <2>1. PICK r1 : r1 = Return(m1, o)
    OBVIOUS
  <2>2. PICK r2 : r2 = Return(m2, o)
    OBVIOUS
  <2>3. r1 = [m1 EXCEPT !.stack = <<>>, !.out = o]
    BY <1>3, <2>1 DEF Return
  <2>4. r2 = [m2 EXCEPT !.stack = <<>>, !.out = o]
    BY <1>2, <1>3, <2>2 DEF Return
  <2>5. Going(r1, r2, X)
    BY <2>3, <2>4, GoingOut
  <2> QED
    BY <2>1, <2>2, <2>5, GoingSame
<1>4. CASE Len(m1.stack) # 1
  <2>1. /\ Return(m1, o) = [m1 EXCEPT !.stack = t]
        /\ Return(m2, o) = [m2 EXCEPT !.stack = t]
    BY <1>1, <1>2, <1>4 DEF Return, Returned, Below, Under
  <2>2. Going(Return(m1, o), Return(m2, o), X)
    BY <2>1, GoingStack
  <2> QED
    BY <2>2, GoingSame
<1> QED
  BY <1>3, <1>4

LEMMA TwinStop ==
  ASSUME NEW m1, NEW m2, NEW X, Going(m1, m2, X), NEW er, er # ""
  PROVE  Twin(Stop(m1, er), Stop(m2, er), X)
BY DEF Going, Twin, Stop, Fields

LEMMA TwinSeen ==
  ASSUME NEW m1, NEW m2, NEW X, Going(m1, m2, X), NEW S1, NEW S2
  PROVE  Going([m1 EXCEPT !.seen = S1], [m2 EXCEPT !.seen = S2], X)
BY DEF Going, Twin, Fields

LEMMA TwinEnvList ==
  ASSUME NEW m1, NEW m2, NEW X, Going(m1, m2, X), NEW S1, NEW S2
  PROVE  Going([m1 EXCEPT !.env_list = S1], [m2 EXCEPT !.env_list = S2], X)
BY DEF Going, Twin, Fields

LEMMA TwinCount ==
  ASSUME NEW m1 \in Machine, NEW m2 \in Machine, NEW X, Going(m1, m2, X),
         NEW x \in DOMAIN m1.table, NEW k \in Int
  PROVE  Going(WithCount(m1, x, k), WithCount(m2, x, k), X)
<1>1. DOMAIN m2.table = DOMAIN m1.table
  BY DEF Going, Twin, TwinTables
<1>2. PICK l1 : l1 = WithCount(m1, x, k)
  OBVIOUS
<1>3. PICK l2 : l2 = WithCount(m2, x, k)
  OBVIOUS
<1>4. Recounted(m1, x, k, l1) /\ Recounted(m2, x, k, l2)
  BY <1>1, <1>2, <1>3, Recount
<1>5. DOMAIN l1 = Fields /\ DOMAIN l2 = Fields
  BY <1>4, MachineFields DEF Recounted
<1>6. TwinTables(l1.table, l2.table, X)
  BY <1>4 DEF Going, Twin, TwinTables, Recounted
<1>7. Twin(l1, l2, X) /\ l1.error = ""
  BY <1>4, <1>6 DEF Going, Twin, Recounted
<1> QED
  BY <1>2, <1>3, <1>5, <1>7 DEF Going

LEMMA TwinVariable ==
  ASSUME NEW m1, NEW m2, NEW X, Going(m1, m2, X), Fine(m1), Fine(m2),
         NEW name \in DOMAIN m1.table, NEW args,
         VariableExpand(m1, name, args).seen \cap X = {}
  PROVE  Twin(VariableExpand(m1, name, args), VariableExpand(m2, name, args), X)
<1>1. m1 \in Machine /\ m2 \in Machine
  BY DEF Fine
<1>2. DOMAIN m1.table \subseteq Keys /\ name \in Keys
  BY <1>1, TableMember DEF Machine
<1>3. PICK v1 : v1 = m1.table[name]
  OBVIOUS
<1>4. PICK v2 : v2 = m2.table[name]
  OBVIOUS
<1>5. /\ v2.flavor = v1.flavor /\ v2.exp_count = v1.exp_count
      /\ name \notin X => v2.text = v1.text
      /\ DOMAIN m2.table = DOMAIN m1.table
  BY <1>3, <1>4 DEF Going, Twin, TwinTables
<1> DEFINE itself == args = <<>> /\ v1.exp_count > 0
<1>6. CASE itself
  <2>1. /\ VariableExpand(m1, name, args) = Stop(m1, "references itself")
        /\ VariableExpand(m2, name, args) = Stop(m2, "references itself")
    BY <1>3, <1>4, <1>5, <1>6 DEF VariableExpand
  <2> QED
    BY <2>1, TwinStop
<1>7. CASE ~itself /\ v1.exp_count > MaxDepth
  <2>1. /\ VariableExpand(m1, name, args) = Stop(m1, "too deep")
        /\ VariableExpand(m2, name, args) = Stop(m2, "too deep")
    BY <1>3, <1>4, <1>5, <1>7 DEF VariableExpand
  <2> QED
    BY <2>1, TwinStop
<1>8. CASE ~itself /\ ~(v1.exp_count > MaxDepth)
  <2>1. PICK n1 : n1 = [m1 EXCEPT !.seen = @ \union {name}]
    OBVIOUS
  <2>2. PICK n2 : n2 = [m2 EXCEPT !.seen = @ \union {name}]
    OBVIOUS
  <2>3. /\ Fine(n1) /\ n1.table = m1.table /\ Kept(m1, n1)
        /\ Fine(n2) /\ n2.table = m2.table
    BY <1>1, <1>2, <2>1, <2>2, SeenFine, KeptNotes, MachineFields
  <2>4. Going(n1, n2, X)
    <3>1. PICK S1 : S1 = m1.seen \union {name}
      OBVIOUS
    <3>2. PICK S2 : S2 = m2.seen \union {name}
      OBVIOUS
    <3>3. n1 = [m1 EXCEPT !.seen = S1] /\ n2 = [m2 EXCEPT !.seen = S2]
      BY <2>1, <2>2, <3>1, <3>2
    <3> QED
      BY <3>3, TwinSeen
  <2>5. name \in n1.seen
    BY <1>1, <2>1 DEF Machine
  <2>6. CASE v1.flavor = "recursive"
    <3>1. PICK l1 : l1 = Entered(n1, name)
      OBVIOUS
    <3>2. PICK l2 : l2 = Entered(n2, name)
      OBVIOUS
    <3>3. Going(l1, l2, X) /\ Kept(n1, l1)
      <4>1. n1 \in Machine /\ n2 \in Machine
        BY <2>3 DEF Fine
      <4>2. PICK k \in Int : k = v1.exp_count + 1
        <5>1. m1.table \in Tables
          BY <1>1 DEF Machine
        <5>2. v1 \in Variable
          BY <1>3, <5>1, TableMember
        <5>3. v1.exp_count \in Int
          BY <5>2 DEF Variable
        <5> QED
          BY <5>3
      <4>3. l1 = WithCount(n1, name, k) /\ l2 = WithCount(n2, name, k)
        BY <1>3, <1>4, <1>5, <2>3, <3>1, <3>2, <4>2 DEF Entered
      <4> QED
        BY <2>3, <2>4, <4>1, <4>3, TwinCount, KeptCount, MachineFields
    <3>4. PICK f1 : f1 = String(v1.text, args, name)
      OBVIOUS
    <3>5. /\ VariableExpand(m1, name, args) = Become(l1, f1)
          /\ VariableExpand(m2, name, args) = Become(l2, String(v2.text, args, name))
      BY <1>3, <1>4, <1>5, <1>8, <2>1, <2>2, <2>6, <3>1, <3>2, <3>4 DEF VariableExpand
    <3>6. Kept(l1, Become(l1, f1))
      BY <3>3, KeptMoves DEF Kept
    <3>7. name \notin X
      BY <2>5, <3>3, <3>5, <3>6 DEF Kept
    <3>8. Going(Become(l1, f1), Become(l2, f1), X)
      BY <3>3, TwinBecome
    <3> QED
      BY <1>5, <3>4, <3>5, <3>7, <3>8, GoingSame
  <2>7. CASE v1.flavor # "recursive"
    <3>1. PICK o : o = Words(v1.text)
      OBVIOUS
    <3>2. /\ VariableExpand(m1, name, args) = Return(n1, o)
          /\ VariableExpand(m2, name, args) = Return(n2, Words(v2.text))
      BY <1>3, <1>4, <1>5, <1>8, <2>1, <2>2, <2>7, <3>1 DEF VariableExpand
    <3>3. Kept(n1, Return(n1, o))
      BY <2>3, KeptMoves DEF Kept
    <3>4. name \notin X
      BY <2>5, <3>2, <3>3 DEF Kept
    <3> QED
      BY <1>5, <2>4, <3>1, <3>2, <3>4, TwinReturn
  <2> QED
    BY <2>6, <2>7
<1> QED
  BY <1>6, <1>7, <1>8

\* The variables of two environments that are not the same in both.
Apart(e1, e2) ==
  {x \in DOMAIN e1 \union DOMAIN e2 : ~(x \in DOMAIN e1 /\ x \in DOMAIN e2 /\ e2[x] = e1[x])}

LEMMA TwinEnvironment ==
  ASSUME NEW m1, NEW m2, NEW X, Going(m1, m2, X), NEW e1, NEW e2, NEW name,
         Apart(e1, e2) \subseteq DOMAIN e1 \ EnvExpand(m1, e1, name).env_list
  PROVE  Twin(EnvExpand(m1, e1, name), EnvExpand(m2, e2, name), X)
<1>1. CASE name \in DOMAIN e1
  <2>1. PICK p1 : p1 = [m1 EXCEPT !.env_list = @ \union {name}]
    OBVIOUS
  <2>2. PICK p2 : p2 = [m2 EXCEPT !.env_list = @ \union {name}]
    OBVIOUS
  <2>3. Going(p1, p2, X)
    <3>1. PICK S1 : S1 = m1.env_list \union {name}
      OBVIOUS
    <3>2. PICK S2 : S2 = m2.env_list \union {name}
      OBVIOUS
    <3>3. p1 = [m1 EXCEPT !.env_list = S1] /\ p2 = [m2 EXCEPT !.env_list = S2]
      BY <2>1, <2>2, <3>1, <3>2
    <3> QED
      BY <3>3, TwinEnvList
  <2>4. PICK o : o = e1[name]
    OBVIOUS
  <2>5. EnvExpand(m1, e1, name) = Return(p1, o)
    BY <1>1, <2>1, <2>4 DEF EnvExpand
  <2>6. name \in p1.env_list
    BY <2>1 DEF Going, Fields
  <2>7. Kept(p1, Return(p1, o))
    BY <2>3, KeptMoves DEF Going
  <2>8. name \notin Apart(e1, e2)
    BY <2>5, <2>6, <2>7 DEF Kept
  <2>9. name \in DOMAIN e2 /\ e2[name] = o
    BY <1>1, <2>4, <2>8 DEF Apart
  <2>10. EnvExpand(m2, e2, name) = Return(p2, o)
    BY <2>2, <2>9 DEF EnvExpand
  <2> QED
    BY <2>3, <2>5, <2>10, TwinReturn
<1>2. CASE name \notin DOMAIN e1
  <2>1. PICK o : o = <<>>
    OBVIOUS
  <2>2. name \notin DOMAIN e2
    BY <1>2 DEF Apart
  <2>3. EnvExpand(m1, e1, name) = Return(m1, o) /\ EnvExpand(m2, e2, name) = Return(m2, o)
    BY <1>2, <2>1, <2>2 DEF EnvExpand
  <2> QED
    BY <2>3, TwinReturn
<1> QED
  BY <1>1, <1>2

LEMMA TwinNamed ==
  ASSUME NEW m1, NEW m2, NEW X, Going(m1, m2, X), Fine(m1), Fine(m2),
         NEW e1, NEW e2, NEW name, NEW args,
         Named(m1, e1, name, args).seen \cap X = {},
         Apart(e1, e2) \subseteq DOMAIN e1 \ Named(m1, e1, name, args).env_list
  PROVE  Twin(Named(m1, e1, name, args), Named(m2, e2, name, args), X)
<1>1. DOMAIN m2.table = DOMAIN m1.table /\ m2.line = m1.line
  BY DEF Going, Twin, TwinTables
<1>2. CASE name \in DOMAIN m1.table
  <2>1. /\ Named(m1, e1, name, args) = VariableExpand(m1, name, args)
        /\ Named(m2, e2, name, args) = VariableExpand(m2, name, args)
    BY <1>1, <1>2 DEF Named
  <2> QED
    BY <1>2, <2>1, TwinVariable
<1>3. CASE name \notin DOMAIN m1.table /\ IsFunction(name)
  <2>1. PICK er : er = FunctionError(name, args)
    OBVIOUS
  <2>2. CASE er # ""
    <3>1. /\ Named(m1, e1, name, args) = Stop(m1, er)
          /\ Named(m2, e2, name, args) = Stop(m2, er)
      BY <1>1, <1>3, <2>1, <2>2 DEF Named
    <3> QED
      BY <2>2, <3>1, TwinStop
  <2>3. CASE er = ""
    <3>1. PICK o : o = FunctionExpand(name, m1.line)
      OBVIOUS
    <3>2. /\ Named(m1, e1, name, args) = Return(m1, o)
          /\ Named(m2, e2, name, args) = Return(m2, o)
      BY <1>1, <1>3, <2>1, <2>3, <3>1 DEF Named
    <3> QED
      BY <3>2, TwinReturn
  <2> QED
    BY <2>2, <2>3
<1>4. CASE name \notin DOMAIN m1.table /\ ~IsFunction(name) /\ args = <<>> /\ name # NoName
  <2>1. /\ Named(m1, e1, name, args) = EnvExpand(m1, e1, name)
        /\ Named(m2, e2, name, args) = EnvExpand(m2, e2, name)
    BY <1>1, <1>4 DEF Named
  <2> QED
    BY <2>1, TwinEnvironment
<1>5. CASE name \notin DOMAIN m1.table /\ ~IsFunction(name) /\ ~(args = <<>> /\ name # NoName)
  <2>1. PICK o : o = <<>>
    OBVIOUS
  <2>2. /\ Named(m1, e1, name, args) = Return(m1, o)
        /\ Named(m2, e2, name, args) = Return(m2, o)
    BY <1>1, <1>5, <2>1 DEF Named
  <2> QED
    BY <2>2, TwinReturn
<1> QED
  BY <1>2, <1>3, <1>4, <1>5

LEMMA TwinString ==
  ASSUME NEW m1, NEW m2, NEW X, Going(m1, m2, X), Fine(m1), Fine(m2),
         m1.stack # <<>>, Top(m1).proc = "string"
  PROVE  Twin(ExpandString(m1), ExpandString(m2), X)
<1>1. m1 \in Machine /\ m2 \in Machine
  BY DEF Fine
<1>2. PICK f : f = Top(m1)
  OBVIOUS
<1>3. Top(m2) = f
  BY <1>2, GoingSame
<1>4. PICK rest : rest = [f EXCEPT !.text = Tail(@)]
  OBVIOUS
<1>5. CASE f.text = <<>> /\ f.of = NoName
  <2>1. ExpandString(m1) = Return(m1, f.out) /\ ExpandString(m2) = Return(m2, f.out)
    BY <1>2, <1>3, <1>5 DEF ExpandString
  <2> QED
    BY <2>1, TwinReturn
<1>6. CASE f.text = <<>> /\ f.of # NoName
  <2>1. PICK x \in DOMAIN m1.table : x = f.of
    BY <1>2, <1>6, TopOwned
  <2>2. x \in DOMAIN m2.table /\ m2.table[x].exp_count = m1.table[x].exp_count
    BY DEF Going, Twin, TwinTables
  <2>3. PICK k \in Int : k = m1.table[x].exp_count - 1
    <3>1. m1.table \in Tables
      BY <1>1 DEF Machine
    <3>2. m1.table[x] \in Variable
      BY <3>1, TableMember
    <3>3. m1.table[x].exp_count \in Int
      BY <3>2 DEF Variable
    <3> QED
      BY <3>3
  <2>4. PICK l1 : l1 = Left(m1, x)
    OBVIOUS
  <2>5. PICK l2 : l2 = Left(m2, x)
    OBVIOUS
  <2>6. l1 = WithCount(m1, x, k) /\ l2 = WithCount(m2, x, k)
    BY <2>2, <2>3, <2>4, <2>5 DEF Left
  <2>7. Going(l1, l2, X)
    BY <1>1, <2>6, TwinCount
  <2>8. ExpandString(m1) = Return(l1, f.out) /\ ExpandString(m2) = Return(l2, f.out)
    BY <1>2, <1>3, <1>6, <2>1, <2>4, <2>5 DEF ExpandString
  <2> QED
    BY <2>7, <2>8, TwinReturn
<1>7. CASE f.text # <<>> /\ IsWord(Head(f.text))
  <2>1. PICK g : g = Received(rest, <<Head(f.text).word>>)
    OBVIOUS
  <2>2. ExpandString(m1) = Become(m1, g) /\ ExpandString(m2) = Become(m2, g)
    BY <1>2, <1>3, <1>4, <1>7, <2>1 DEF ExpandString
  <2> QED
    BY <2>2, TwinBecome, GoingSame
<1>8. CASE f.text # <<>> /\ ~IsWord(Head(f.text))
  <2>1. PICK c : c = Head(f.text).clauses
    OBVIOUS
  <2>2. ExpandString(m1) = Reference(m1, rest, c) /\ ExpandString(m2) = Reference(m2, rest, c)
    BY <1>2, <1>3, <1>4, <1>8, <2>1 DEF ExpandString
  <2>3. PICK P : P = Positional(c, rest.args)
    OBVIOUS
  <2>4. CASE P = {}
    <3>1. PICK g : g = Clause(c, rest.args)
      OBVIOUS
    <3>2. /\ Reference(m1, rest, c) = Call(Become(m1, rest), g)
          /\ Reference(m2, rest, c) = Call(Become(m2, rest), g)
      BY <2>3, <2>4, <3>1 DEF Reference
    <3> QED
      BY <2>2, <3>2, TwinBecome, TwinCall, GoingSame
  <2>5. CASE P # {}
    <3>1. PICK g : g = Received(rest, rest.args[CHOOSE i \in P : TRUE])
      OBVIOUS
    <3>2. Reference(m1, rest, c) = Become(m1, g) /\ Reference(m2, rest, c) = Become(m2, g)
      BY <2>3, <2>5, <3>1 DEF Reference
    <3> QED
      BY <2>2, <3>2, TwinBecome, GoingSame
  <2> QED
    BY <2>4, <2>5
<1> QED
  BY <1>5, <1>6, <1>7, <1>8

LEMMA TwinClause ==
  ASSUME NEW m1, NEW m2, NEW X, Going(m1, m2, X), Fine(m1), Fine(m2),
         NEW e1, NEW e2,
         EvalClause(m1, e1).seen \cap X = {},
         Apart(e1, e2) \subseteq DOMAIN e1 \ EvalClause(m1, e1).env_list
  PROVE  Twin(EvalClause(m1, e1), EvalClause(m2, e2), X)
<1>1. PICK f : f = Top(m1)
  OBVIOUS
<1>2. Top(m2) = f
  BY <1>1, GoingSame
<1>3. CASE f.clauses = <<>>
  <2>1. PICK name : name = Head(f.words)
    OBVIOUS
  <2>2. PICK args : args = Tail(f.words)
    OBVIOUS
  <2>3. /\ EvalClause(m1, e1) = Named(m1, e1, name, args)
        /\ EvalClause(m2, e2) = Named(m2, e2, name, args)
    BY <1>1, <1>2, <1>3, <2>1, <2>2 DEF EvalClause
  <2> QED
    BY <2>3, TwinNamed
<1>4. CASE f.clauses # <<>>
  <2>1. PICK g : g = [f EXCEPT !.clauses = Tail(@)]
    OBVIOUS
  <2>2. PICK h : h = String(Head(f.clauses), f.args, NoName)
    OBVIOUS
  <2>3. /\ EvalClause(m1, e1) = Call(Become(m1, g), h)
        /\ EvalClause(m2, e2) = Call(Become(m2, g), h)
    BY <1>1, <1>2, <1>4, <2>1, <2>2 DEF EvalClause
  <2> QED
    BY <2>3, TwinBecome, TwinCall, GoingSame
<1> QED
  BY <1>3, <1>4

\* Both readings make the same step.
LEMMA TwinStep ==
  ASSUME NEW m1, NEW m2, NEW X, Good(m1), Good(m2), Twin(m1, m2, X), NEW e1, NEW e2,
         Step(m1, e1).seen \cap X = {},
         Apart(e1, e2) \subseteq DOMAIN e1 \ Step(m1, e1).env_list
  PROVE  Twin(Step(m1, e1), Step(m2, e2), X)
<1>1. Fine(m1) /\ Fine(m2) /\ DOMAIN m1 = Fields /\ DOMAIN m2 = Fields
  BY MachineFields DEF Good, Fine
<1>2. CASE m1.error # ""
  <2>1. Step(m1, e1) = m1 /\ Step(m2, e2) = m2
    BY <1>1, <1>2 DEF Fine, Twin, Step
  <2> QED
    BY <2>1
<1>3. CASE m1.error = ""
  <2>1. Going(m1, m2, X)
    BY <1>1, <1>3 DEF Going
  <2>2. m2.stack = m1.stack /\ Top(m2) = Top(m1)
    BY <2>1, GoingSame
  <2>3. CASE m1.stack = <<>>
    <3>1. Step(m1, e1) = m1 /\ Step(m2, e2) = m2
      BY <2>2, <2>3 DEF Step
    <3> QED
      BY <3>1
  <2>4. CASE m1.stack # <<>> /\ Top(m1).proc = "string"
    <3>1. Step(m1, e1) = ExpandString(m1) /\ Step(m2, e2) = ExpandString(m2)
      BY <2>2, <2>4 DEF Step
    <3> QED
      BY <1>1, <2>1, <2>4, <3>1, TwinString
  <2>5. CASE m1.stack # <<>> /\ Top(m1).proc # "string"
    <3>1. Step(m1, e1) = EvalClause(m1, e1) /\ Step(m2, e2) = EvalClause(m2, e2)
      BY <2>2, <2>5 DEF Step
    <3> QED
      BY <1>1, <2>1, <3>1, TwinClause
  <2> QED
    BY <2>3, <2>4, <2>5
<1> QED
  BY <1>2, <1>3

LEMMA TwinSet ==
  ASSUME NEW t1, NEW t2, NEW Y, TwinTables(t1, t2, Y), NEW x, NEW X, Y \subseteq X \union {x},
         NEW v1, NEW v2, v2.flavor = v1.flavor, v2.exp_count = v1.exp_count,
         x \notin X => v2.text = v1.text
  PROVE  TwinTables(Set(t1, x, v1), Set(t2, x, v2), X)
<1>1. PICK u1 : u1 = Set(t1, x, v1)
  OBVIOUS
<1>2. PICK u2 : u2 = Set(t2, x, v2)
  OBVIOUS
<1>3. /\ DOMAIN u1 = DOMAIN t1 \union {x} /\ u1[x] = v1
      /\ \A n \in DOMAIN t1 \ {x} : u1[n] = t1[n]
  BY <1>1 DEF Set
<1>4. /\ DOMAIN u2 = DOMAIN t2 \union {x} /\ u2[x] = v2
      /\ \A n \in DOMAIN t2 \ {x} : u2[n] = t2[n]
  BY <1>2 DEF Set
<1>5. ASSUME NEW n \in DOMAIN u1
      PROVE  /\ u2[n].flavor = u1[n].flavor /\ u2[n].exp_count = u1[n].exp_count
             /\ n \notin X => u2[n].text = u1[n].text
  <2>1. CASE n = x
    BY <1>3, <1>4, <2>1
  <2>2. CASE n # x
    <3>1. n \in DOMAIN t1 \ {x} /\ n \in DOMAIN t2 \ {x}
      BY <1>3, <1>5, <2>2 DEF TwinTables
    <3>2. u1[n] = t1[n] /\ u2[n] = t2[n]
      BY <1>3, <1>4, <3>1
    <3> QED
      BY <2>2, <3>1, <3>2 DEF TwinTables
  <2> QED
    BY <2>1, <2>2
<1>6. DOMAIN u2 = DOMAIN u1
  BY <1>3, <1>4 DEF TwinTables
<1>7. TwinTables(u1, u2, X)
  BY <1>5, <1>6 DEF TwinTables
<1> QED
  BY <1>1, <1>2, <1>7

LEMMA TwinTabled ==
  ASSUME NEW m1, NEW m2, NEW Y, Going(m1, m2, Y), NEW X, NEW t1, NEW t2, TwinTables(t1, t2, X)
  PROVE  Going(Tabled(m1, t1), Tabled(m2, t2), X)
BY DEF Going, Twin, Tabled, Fields

\* What the statement s frees until it is read.
Free(s) == IF s.kind = "simple" THEN {<<s.name>>} ELSE {}

LEMMA TwinAdd ==
  ASSUME NEW m1, NEW m2, Going(m1, m2, {}), NEW name, NEW text, NEW flavor \in Flavors,
         NEW j1, NEW j2, NEW X, X = IF flavor = "simple" THEN {name} ELSE {}
  PROVE  Twin(VariableAdd(m1, name, text, flavor, j1), VariableAdd(m2, name, text, flavor, j2), X)
<1> DEFINE append == flavor = "append" /\ name \in DOMAIN m1.table
<1>1. /\ DOMAIN m2.table = DOMAIN m1.table /\ TwinTables(m1.table, m2.table, {})
      /\ append => m2.table[name].text = m1.table[name].text
      /\ name \in DOMAIN m1.table =>
           /\ m2.table[name].flavor = m1.table[name].flavor
           /\ m2.table[name].exp_count = m1.table[name].exp_count
  BY DEF Going, Twin, TwinTables
<1>a. PICK Y : TwinTables(m1.table, m2.table, Y) /\ Y \subseteq X \union {name}
  BY <1>1
<1>2. PICK kept : kept = Flavor(m1, name, flavor)
  OBVIOUS
<1>3. Flavor(m2, name, flavor) = kept
  BY <1>1, <1>2 DEF Flavor, Flavors
<1>4. PICK c : c = Count(m1, name)
  OBVIOUS
<1>5. Count(m2, name) = c
  BY <1>1, <1>4 DEF Count
<1>6. PICK o1 : o1 = IF append THEN m1.table[name].text ELSE Literal(j1)
  OBVIOUS
<1>7. PICK o2 : o2 = IF append THEN m2.table[name].text ELSE Literal(j2)
  OBVIOUS
<1>8. append => o2 = o1
  BY <1>1, <1>6, <1>7
<1>9. PICK new : new = IF append THEN Extended(o1, text) ELSE text
  OBVIOUS
<1>10. CASE kept = "simple"
  <2>1. name \notin X => o2 = o1
    BY <1>2, <1>8, <1>10 DEF Flavor, Flavors
  <2>2. PICK v1 : v1 = [flavor |-> kept, text |-> o1, exp_count |-> c]
    OBVIOUS
  <2>3. PICK v2 : v2 = [flavor |-> kept, text |-> o2, exp_count |-> c]
    OBVIOUS
  <2>4. TwinTables(Set(m1.table, name, v1), Set(m2.table, name, v2), X)
    <3>1. v2.flavor = v1.flavor /\ v2.exp_count = v1.exp_count
      BY <2>2, <2>3
    <3>2. name \notin X => v2.text = v1.text
      BY <2>1, <2>2, <2>3
    <3> QED
      BY <1>a, <3>1, <3>2, TwinSet
  <2>5. PICK p1 : p1 = Tabled(m1, Set(m1.table, name, v1))
    OBVIOUS
  <2>6. PICK p2 : p2 = Tabled(m2, Set(m2.table, name, v2))
    OBVIOUS
  <2>7. Going(p1, p2, X)
    BY <2>4, <2>5, <2>6, TwinTabled
  <2>8. PICK f : f = String(text, <<>>, NoName)
    OBVIOUS
  <2>9. /\ VariableAdd(m1, name, text, flavor, j1) = Call(p1, f)
        /\ VariableAdd(m2, name, text, flavor, j2) = Call(p2, f)
    BY <1>1, <1>2, <1>3, <1>4, <1>5, <1>6, <1>7, <1>10, <2>2, <2>3, <2>5, <2>6, <2>8
    DEF VariableAdd, Tabled
  <2> QED
    BY <2>7, <2>9, TwinCall, GoingSame
<1>11. CASE kept # "simple"
  <2>1. PICK v : v = [flavor |-> kept, text |-> new, exp_count |-> c]
    OBVIOUS
  <2>2. TwinTables(Set(m1.table, name, v), Set(m2.table, name, v), X)
    BY <1>a, TwinSet
  <2>3. /\ VariableAdd(m1, name, text, flavor, j1) = Tabled(m1, Set(m1.table, name, v))
        /\ VariableAdd(m2, name, text, flavor, j2) = Tabled(m2, Set(m2.table, name, v))
    BY <1>1, <1>2, <1>3, <1>4, <1>5, <1>6, <1>7, <1>8, <1>9, <1>11, <2>1 DEF VariableAdd, Tabled
  <2>4. Going(Tabled(m1, Set(m1.table, name, v)), Tabled(m2, Set(m2.table, name, v)), X)
    BY <2>2, TwinTabled
  <2> QED
    BY <2>3, <2>4, GoingSame
<1> QED
  BY <1>10, <1>11

LEMMA SimpleCalls ==
  ASSUME NEW m, DOMAIN m = Fields, NEW name, NEW text, NEW junk
  PROVE  VariableAdd(m, name, text, "simple", junk).stack # <<>>
<1>1. PICK p : p = Tabled(m, Set(m.table, name, [flavor |-> "simple", text |-> Literal(junk),
                                                 exp_count |-> Count(m, name)]))
  OBVIOUS
<1>2. PICK f : f = String(text, <<>>, NoName)
  OBVIOUS
<1>3. VariableAdd(m, name, text, "simple", junk) = Call(p, f)
  BY <1>1, <1>2 DEF VariableAdd, Tabled, Flavor
<1>4. DOMAIN p = Fields /\ p.stack = m.stack
  BY <1>1 DEF Tabled, Fields
<1>5. Call(p, f).stack = Append(p.stack, f)
  BY <1>4 DEF Call, Fields
<1> QED
  BY <1>3, <1>5

LEMMA TwinBegin ==
  ASSUME NEW m1, NEW m2, Going(m1, m2, {}), NEW s \in Statements, NEW j1, NEW j2
  PROVE  /\ Twin(Begin(m1, s, j1), Begin(m2, s, j2), Free(s))
         /\ s.kind = "simple" => Begin(m1, s, j1).stack # <<>>
<1>1. PICK l : l = m1.line + 1
  OBVIOUS
<1>2. PICK n1 : n1 = [m1 EXCEPT !.line = l, !.seen = {}]
  OBVIOUS
<1>3. PICK n2 : n2 = [m2 EXCEPT !.line = l, !.seen = {}]
  OBVIOUS
<1>4. m2.line = m1.line /\ m1.error = "" /\ m2.error = ""
  BY DEF Going, Twin
<1>5. Going(n1, n2, {})
  BY <1>2, <1>3 DEF Going, Twin, Fields
<1>6. CASE s.kind = "use"
  <2>1. PICK f : f = String(s.text, <<>>, NoName)
    OBVIOUS
  <2>2. Begin(m1, s, j1) = Call(n1, f) /\ Begin(m2, s, j2) = Call(n2, f)
    BY <1>1, <1>2, <1>3, <1>4, <1>6, <2>1 DEF Begin
  <2>3. PICK X : X = Free(s)
    OBVIOUS
  <2>4. X = {}
    BY <1>6, <2>3 DEF Free
  <2>5. Going(n1, n2, X)
    BY <1>5, <2>4
  <2> QED
    BY <1>6, <2>2, <2>3, <2>5, TwinCall, GoingSame
<1>7. CASE s.kind # "use"
  <2>1. s.kind \in Flavors
    BY <1>7 DEF Statements
  <2>2. PICK name : name = <<s.name>>
    OBVIOUS
  <2>3. /\ Begin(m1, s, j1) = VariableAdd(n1, name, s.text, s.kind, j1)
        /\ Begin(m2, s, j2) = VariableAdd(n2, name, s.text, s.kind, j2)
    BY <1>1, <1>2, <1>3, <1>4, <1>7, <2>2 DEF Begin
  <2>4. PICK X : X = IF s.kind = "simple" THEN {name} ELSE {}
    OBVIOUS
  <2>5. X = Free(s)
    BY <2>2, <2>4 DEF Free
  <2>6. Twin(VariableAdd(n1, name, s.text, s.kind, j1), VariableAdd(n2, name, s.text, s.kind, j2), X)
    BY <1>5, <2>1, <2>4, TwinAdd
  <2>7. s.kind = "simple" => VariableAdd(n1, name, s.text, s.kind, j1).stack # <<>>
    BY <1>5, SimpleCalls DEF Going
  <2> QED
    BY <2>3, <2>5, <2>6, <2>7
<1> QED
  BY <1>6, <1>7

LEMMA TwinFinish ==
  ASSUME NEW m1, NEW m2, DOMAIN m1 = Fields, DOMAIN m2 = Fields, NEW s \in Statements,
         m1.error = "" /\ s.kind # "use" => m1.table[<<s.name>>] \in Variable
                                            /\ m2.table[<<s.name>>] \in Variable
                                            /\ <<s.name>> \in DOMAIN m1.table,
         Twin(m1, m2, Free(s))
  PROVE  Twin(Finish(m1, s), Finish(m2, s), {})
<1>1. CASE m1.error # ""
  <2>1. Finish(m1, s) = m1 /\ Finish(m2, s) = m2
    BY <1>1 DEF Finish, Twin
  <2> QED
    BY <1>1, <2>1 DEF Twin
<1>2. CASE m1.error = "" /\ s.kind = "use"
  <2>1. PICK w : w = Append(m1.results, m1.out)
    OBVIOUS
  <2>2. PICK p1 : p1 = [m1 EXCEPT !.results = w, !.out = <<>>]
    OBVIOUS
  <2>3. PICK p2 : p2 = [m2 EXCEPT !.results = w, !.out = <<>>]
    OBVIOUS
  <2>4. Finish(m1, s) = p1
    BY <1>2, <2>1, <2>2 DEF Finish
  <2>5. m2.results = m1.results /\ m2.out = m1.out /\ m2.error = ""
    BY <1>2 DEF Twin
  <2>6. Finish(m2, s) = p2
    BY <1>2, <2>1, <2>3, <2>5 DEF Finish
  <2>7. Free(s) = {}
    BY <1>2 DEF Free
  <2>8. Twin(p1, p2, {})
    BY <1>2, <2>2, <2>3, <2>7 DEF Twin, Fields
  <2> QED
    BY <2>4, <2>6, <2>8
<1>3. CASE m1.error = "" /\ s.kind # "use"
  <2>1. PICK x : x = <<s.name>>
    OBVIOUS
  <2>2. PICK Y : Y = Free(s)
    OBVIOUS
  <2>3. Y \subseteq {x} /\ (s.kind = "append" => x \notin Y)
    BY <2>1, <2>2 DEF Free
  <2>4. PICK v1 \in Variable : v1 = m1.table[x]
    BY <1>3, <2>1
  <2>5. PICK v2 \in Variable : v2 = m2.table[x]
    BY <1>3, <2>1
  <2>6. Going(m1, m2, Y) /\ TwinTables(m1.table, m2.table, Y) /\ m2.out = m1.out
    BY <1>3, <2>2 DEF Going, Twin
  <2>7. /\ v2.flavor = v1.flavor /\ v2.exp_count = v1.exp_count
        /\ s.kind = "append" => v2.text = v1.text
    BY <1>3, <2>1, <2>3, <2>4, <2>5, <2>6 DEF TwinTables
  <2>8. PICK new : new = IF s.kind = "append" THEN Extended(v1.text, Literal(m1.out))
                         ELSE Literal(m1.out)
    OBVIOUS
  <2>9. PICK w1 : w1 = [v1 EXCEPT !.text = new]
    OBVIOUS
  <2>10. PICK w2 : w2 = [v2 EXCEPT !.text = new]
    OBVIOUS
  <2>11. w2.flavor = w1.flavor /\ w2.exp_count = w1.exp_count /\ w2.text = w1.text
    BY <2>7, <2>9, <2>10 DEF Variable
  <2>12. PICK t1 : t1 = Set(m1.table, x, w1)
    OBVIOUS
  <2>13. PICK t2 : t2 = Set(m2.table, x, w2)
    OBVIOUS
  <2>14. TwinTables(t1, t2, {})
    <3>1. PICK X : X = {}
      OBVIOUS
    <3>2. Y \subseteq X \union {x}
      BY <2>3, <3>1
    <3>3. TwinTables(Set(m1.table, x, w1), Set(m2.table, x, w2), X)
      BY <2>6, <2>11, <3>2, TwinSet
    <3> QED
      BY <2>12, <2>13, <3>1, <3>3
  <2>15. PICK p1 : p1 = Tabled(m1, t1)
    OBVIOUS
  <2>16. PICK p2 : p2 = Tabled(m2, t2)
    OBVIOUS
  <2>17. Going(p1, p2, {})
    BY <2>6, <2>14, <2>15, <2>16, TwinTabled
  <2>18. PICK q1 : q1 = [p1 EXCEPT !.out = <<>>]
    OBVIOUS
  <2>19. PICK q2 : q2 = [p2 EXCEPT !.out = <<>>]
    OBVIOUS
  <2>20. Twin(q1, q2, {})
    BY <2>17, <2>18, <2>19 DEF Going, Twin, Fields
  <2>21. Finish(m1, s) = q1
    BY <1>3, <2>1, <2>4, <2>8, <2>9, <2>12, <2>15, <2>18 DEF Finish, Store, Tabled
  <2>22. Finish(m2, s) = q2
    <3>1. m2.error = ""
      BY <1>3 DEF Twin
    <3>2. new = IF s.kind = "append" THEN Extended(v2.text, Literal(m2.out))
                ELSE Literal(m2.out)
      BY <2>6, <2>7, <2>8
    <3> QED
      BY <1>3, <2>1, <2>5, <2>10, <2>13, <2>16, <2>19, <3>1, <3>2 DEF Finish, Store, Tabled
  <2> QED
    BY <2>20, <2>21, <2>22
<1> QED
  BY <1>1, <1>2, <1>3

LEMMA ListKept ==
  ASSUME NEW m, DOMAIN m = Fields, NEW s, NEW junk
  PROVE  /\ Begin(m, s, junk).env_list = m.env_list
         /\ Finish(m, s).env_list = m.env_list
<1>1. ASSUME NEW n, DOMAIN n = Fields, NEW name, NEW text, NEW flavor
      PROVE  VariableAdd(n, name, text, flavor, junk).env_list = n.env_list
  BY <1>1 DEF VariableAdd, Call, Fields
<1>l. PICK l : l = m.line + 1
  OBVIOUS
<1>2. PICK now : now = [m EXCEPT !.line = l, !.seen = {}]
  OBVIOUS
<1>3. DOMAIN now = Fields /\ now.env_list = m.env_list
  BY <1>2 DEF Fields
<1>4. \A f : Call(now, f).env_list = now.env_list
  BY <1>3 DEF Call, Fields
<1>5. Begin(m, s, junk).env_list = m.env_list
  <2>1. CASE m.error # ""
    BY <2>1 DEF Begin
  <2>2. CASE m.error = "" /\ s.kind = "use"
    <3>1. Begin(m, s, junk) = Call(now, String(s.text, <<>>, NoName))
      BY <1>l, <1>2, <2>2 DEF Begin
    <3> QED
      BY <1>3, <1>4, <3>1
  <2>3. CASE m.error = "" /\ s.kind # "use"
    <3>1. PICK name : name = <<s.name>>
      OBVIOUS
    <3>2. Begin(m, s, junk) = VariableAdd(now, name, s.text, s.kind, junk)
      BY <1>l, <1>2, <2>3, <3>1 DEF Begin
    <3> QED
      BY <1>1, <1>3, <3>2
  <2> QED
    BY <2>1, <2>2, <2>3
<1>6. Finish(m, s).env_list = m.env_list
  BY DEF Finish, Store, Fields
<1> QED
  BY <1>5, <1>6

-----------------------------------------------------------------------------
(* The two readings stay together.                                           *)

LEMMA Machines ==
  ASSUME Inv
  PROVE  /\ state \in Machine /\ again \in Machine
         /\ DOMAIN state = Fields /\ DOMAIN again = Fields
BY MachineFields DEF Inv, MachineInv, Good, Fine

LEMMA TwinReads ==
  ASSUME Inv, TwinInv, Running, NEW s \in Statements, NEW junk \in Phrase, Reads(s, junk)
  PROVE  TwinInv'
<1> SUFFICES ASSUME ~undefined', (Differ \subseteq Forgotten)'
             PROVE  Twin(state', again', Freed')
  BY DEF TwinInv
<1>1. DOMAIN state = Fields /\ DOMAIN again = Fields
  BY Machines
<1>2. ~reading /\ state.error = "" /\ ~undefined
  BY DEF Running, Reads
<1>3. state'.env_list = state.env_list
  BY <1>1, ListKept DEF Reads
<1>4. Differ \subseteq Forgotten
  BY <1>3 DEF Reads, Differ, Forgotten
<1>5. Twin(state, again, {})
  BY <1>2, <1>4 DEF TwinInv, Freed
<1>6. Going(state, again, {})
  BY <1>1, <1>2, <1>5 DEF Going
<1>7. Twin(state', again', Free(s)) /\ (s.kind = "simple" => state'.stack # <<>>)
  BY <1>6, TwinBegin DEF Reads
<1>8. Statement' = s
  BY ReadsInv
<1>9. Freed' = Free(s)
  <2>1. CASE s.kind = "simple"
    BY <1>7, <1>8, <2>1 DEF Freed, Free, Reads
  <2>2. CASE s.kind # "simple"
    BY <1>8, <2>2 DEF Freed, Free
  <2> QED
    BY <2>1, <2>2
<1> QED
  BY <1>7, <1>9

LEMMA TwinInit == Init => TwinInv
<1> SUFFICES ASSUME Init
             PROVE  Twin(state, again, Freed)
  BY DEF TwinInv
<1>1. again = state
  BY DEF Init
<1> QED
  BY <1>1 DEF Twin, TwinTables

LEMMA TwinNext == Inv /\ TwinInv /\ [Next]_vars => TwinInv'
<1> SUFFICES ASSUME Inv, TwinInv, [Next]_vars
             PROVE  TwinInv'
  OBVIOUS
<1>1. CASE Assign
  <2>1. PICK name \in Names, text \in Values, flavor \in Flavors, junk \in Junk :
          Reads([kind |-> flavor, name |-> name, text |-> text], junk)
    BY <1>1 DEF Assign
  <2>2. [kind |-> flavor, name |-> name, text |-> text] \in Statements
    BY DEF Statements
  <2>3. junk \in Phrase
    BY WordsAssumption
  <2> QED
    BY <1>1, <2>1, <2>2, <2>3, TwinReads DEF Assign
<1>2. CASE Use
  <2>1. PICK text \in Uses : Reads([kind |-> "use", name |-> "", text |-> text], <<>>)
    BY <1>2 DEF Use
  <2>2. [kind |-> "use", name |-> "", text |-> text] \in Statements
    BY DEF Statements
  <2> QED
    BY <1>2, <2>1, <2>2, Empties, TwinReads DEF Use
<1>3. CASE Expand
  <2> SUFFICES ASSUME ~undefined', ~(reading /\ ReadsItself)', (Differ \subseteq Forgotten)'
               PROVE  Twin(state', again', Freed')
    BY DEF TwinInv
  <2>1. /\ Good(state) /\ Good(again) /\ reading
        /\ state' = Step(state, env) /\ again' = Step(again, other)
    BY <1>3 DEF Expand, Inv, MachineInv
  <2>2. Kept(state, state')
    BY <2>1, StepKept
  <2>3. Statement' = Statement /\ Freed' = Freed /\ reading' = reading
    BY <1>3 DEF Expand, Statement, Freed
  <2>4. ~ReadsItself /\ ~undefined
    BY <1>3, <2>1, <2>2, <2>3 DEF Expand, ReadsItself, Kept
  <2>5. Differ \subseteq Forgotten
    BY <1>3, <2>2 DEF Expand, Kept, Differ, Forgotten
  <2>6. Twin(state, again, Freed)
    BY <2>4, <2>5 DEF TwinInv
  <2>7. state'.seen \cap Freed = {}
    BY <2>1, <2>3 DEF Freed, ReadsItself
  <2>8. Apart(env, other) \subseteq DOMAIN env \ state'.env_list
    BY <1>3 DEF Expand, Differ, Forgotten, Apart
  <2> QED
    BY <2>1, <2>3, <2>6, <2>7, <2>8, TwinStep
<1>4. CASE End
  <2> SUFFICES ASSUME ~undefined', (Differ \subseteq Forgotten)'
               PROVE  Twin(state', again', Freed')
    BY DEF TwinInv
  <2>1. /\ reading /\ ~undefined /\ ~ReadsItself /\ ~reading'
        /\ state' = Finish(state, Statement) /\ again' = Finish(again, Statement)
    BY <1>4 DEF End, Expanded
  <2>2. DOMAIN state = Fields /\ DOMAIN again = Fields
    BY Machines
  <2>3. Differ \subseteq Forgotten
    BY <1>4, <2>1, <2>2, ListKept DEF End, Differ, Forgotten
  <2>4. Twin(state, again, Freed)
    BY <2>1, <2>3 DEF TwinInv
  <2>5. Freed = Free(Statement)
    BY <2>1 DEF Freed, Free
  <2>6. Statement \in Statements
    BY <2>1 DEF Statement, Inv
  <2>7. ASSUME state.error = "", Statement.kind # "use"
        PROVE  /\ state.table[<<Statement.name>>] \in Variable
               /\ again.table[<<Statement.name>>] \in Variable
               /\ <<Statement.name>> \in DOMAIN state.table
    <3>1. again.error = ""
      BY <2>4, <2>7 DEF Twin
    <3>2. /\ <<Statement.name>> \in DOMAIN state.table
          /\ <<Statement.name>> \in DOMAIN again.table
      BY <2>1, <2>7, <3>1 DEF Inv, MachineInv, Placed
    <3>3. state.table \in Tables /\ again.table \in Tables
      BY Machines DEF Machine
    <3> QED
      BY <3>2, <3>3, TableMember
  <2>8. Twin(state', again', {})
    BY <2>1, <2>2, <2>4, <2>5, <2>6, <2>7, TwinFinish
  <2>9. Freed' = {}
    BY <2>1 DEF Freed
  <2> QED
    BY <2>8, <2>9
<1>5. CASE Crash
  BY <1>5 DEF Crash, TwinInv
<1>6. CASE UNCHANGED vars
  BY <1>6 DEF vars, TwinInv, Freed, Statement, ReadsItself, Differ, Forgotten
<1> QED
  BY <1>1, <1>2, <1>3, <1>4, <1>5, <1>6 DEF Next

(* What the environment variables in env_list are is all that the file's       *)
(* meaning takes from the environment: read again where only others differ, it *)
(* gives the same results and the same error (preprocess.c:64-106).           *)
THEOREM EnvSufficient == Spec => []EnvRemembered
<1>1. Inv /\ TwinInv => EnvRemembered
  BY DEF TwinInv, EnvRemembered, Twin
<1> QED
  BY <1>1, InvInit, InvNext, TwinInit, TwinNext, PTL DEF Spec
=============================================================================
