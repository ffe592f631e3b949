-------------------------- MODULE DepSearch_proofs --------------------------
(***************************************************************************)
(* Theorems about DepSearch: in every Kconfig file, however long and in    *)
(* whatever order, the search leaves no marks behind and reports a         *)
(* recursive dependency exactly when there is one.                         *)
(***************************************************************************)
EXTENDS DepSearch, SequenceTheorems, TLAPS

-----------------------------------------------------------------------------
(* The inductive invariant, part one: marks and calls.                       *)

Frames == [proc : {"sym", "choice", "value"}, s : Nodes, at : Nat \ {0}]

Single(s) == ~IsValue(s) /\ ~HasValues(s)

Types ==
  /\ WellFormed
  /\ check \subseteq checked /\ checked \subseteq Nodes
  /\ calls \in Seq(Frames)
  /\ stack \in Seq(Nodes)
  /\ sym2 \in Nodes \cup {Nobody}
  /\ next \in 0 .. Len(graph.order)
  /\ yynerrs \in BOOLEAN
  /\ unexpected = FALSE

FrameOK(f) ==
  /\ f.proc = "sym"    => f.at <= Len(Refs(f.s)) + 1
  /\ f.proc = "choice" => HasValues(f.s) /\ f.at <= Len(ValuesOf(f.s)) + 1
  /\ f.proc = "value"  => IsValue(f.s) /\ f.at <= 2

\* How f has called g.
Link(f, g) ==
  \/ /\ f.proc = "value" /\ f.at = 2
     /\ g.proc = "choice" /\ g.s = ChoiceOf(f.s)
  \/ /\ f.proc = "choice"
     /\ g.proc = "sym" /\ g.s = IF f.at = 1 THEN f.s ELSE ValuesOf(f.s)[f.at - 1]
  \/ /\ f.proc = "sym" /\ f.at > 1
     /\ g.s = Refs(f.s)[f.at - 1] /\ g.s # ChoiceOf(f.s)
     /\ g.proc = "sym" => Single(g.s)

CallsInv ==
  /\ \A i \in 1 .. Len(calls) : FrameOK(calls[i])
  /\ \A i \in 1 .. Len(calls) - 1 : Link(calls[i], calls[i + 1])
  /\ calls # <<>> /\ calls[1].proc = "sym" => Single(calls[1].s)

StackInv == Len(stack) = Len(calls) /\ \A i \in 1 .. Len(calls) : stack[i] = calls[i].s

\* f has set SYMBOL_CHECK of v and has to take it off.
Marks(f, v) ==
  \/ f.proc = "sym" /\ f.s = v /\ ~IsValue(v)
  \/ f.proc = "choice" /\ ChoiceOf(v) = f.s

MarksInv ==
  /\ \A v \in Nodes : v \in check <=> \E i \in 1 .. Len(calls) : Marks(calls[i], v)
  /\ \A s \in Nodes : s \in checked <=> Group(s) \in checked
  /\ \A i \in 1 .. Len(calls) :
       calls[i].s \notin checked <=> calls[i].proc = "value" /\ calls[i].at = 1
  /\ \A i, j \in 1 .. Len(calls) :
       /\ calls[i].proc = calls[j].proc /\ calls[i].proc # "value"
       /\ calls[i].s = calls[j].s /\ ~IsValue(calls[i].s)
       => i = j

MarkInv == Types /\ CallsInv /\ StackInv /\ MarksInv

-----------------------------------------------------------------------------
(* Part two: what is reported is a cycle, and what is finished has none.     *)

Sound == sym2 # Nobody \/ yynerrs => Cyclic

\* The groups that are searched, and those that have been.
Busy == {Group(calls[i].s) : i \in {k \in 1 .. Len(calls) : calls[k].proc # "value"}}
Done == {Group(s) : s \in checked} \ Busy

\* Everything s depends on is in set.
Settled(s, set) == \A t \in Range(Refs(s)) \ {ChoiceOf(s)} : Group(t) \in set

\* The first of the things the call f goes through that it is not done with.
Left(f, top) == IF top THEN f.at ELSE f.at - 1

\* A choice whose values are searched and that is named on the way is passed over: the
\* value that is named as well, and later, gives the cycle away.
RefSettled(f, top, k, set) ==
  LET refs == Refs(f.s) IN
  \/ refs[k] = ChoiceOf(f.s)
  \/ Group(refs[k]) \in set
  \/ HasValues(refs[k]) /\ \E m \in Left(f, top) .. Len(refs) : ChoiceOf(refs[m]) = refs[k]

\* What the call f is done with, when set has been searched.
FrameDone(f, top, set) ==
  /\ f.proc = "sym" => \A k \in 1 .. Left(f, top) - 1 : RefSettled(f, top, k, set)
  /\ f.proc = "choice" =>
       /\ top \/ f.at > 1 => Settled(f.s, set)
       /\ \A k \in 1 .. Left(f, top) - 1 : Settled(ValuesOf(f.s)[k], set)
  /\ f.proc = "value" /\ f.at = 2 /\ top => ChoiceOf(f.s) \in set

DoneInv ==
  /\ \A g \in Done, h \in Nodes : Edge(g, h) => h \in Done
  /\ \A set \in SUBSET Done : ~Recursive(set)
  /\ \A i \in 1 .. Len(calls) - 1 : FrameDone(calls[i], FALSE, Done)
  /\ calls # <<>> => FrameDone(Top, TRUE, Done)

Complete == sym2 = Nobody /\ ~yynerrs => DoneInv

Passed ==
  \A j \in 1 .. next :
    \/ graph.order[j] \in checked
    \/ \E i \in 1 .. Len(calls) : calls[i] = Frame("value", graph.order[j])

SearchInv == MarkInv /\ Sound /\ Complete /\ Passed

-----------------------------------------------------------------------------
(* Sequences.                                                                *)

LEMMA RangeOf ==
  ASSUME NEW T, NEW s \in Seq(T)
  PROVE  /\ Range(s) \subseteq T
         /\ \A i \in 1 .. Len(s) : s[i] \in Range(s)
         /\ \A x \in Range(s) : \E i \in 1 .. Len(s) : s[i] = x
  BY DEF Range

LEMMA PopSeq ==
  ASSUME NEW T, NEW s \in Seq(T), s # <<>>, NEW p, p = SubSeq(s, 1, Len(s) - 1)
  PROVE  /\ p \in Seq(T) /\ Len(p) = Len(s) - 1
         /\ \A i \in 1 .. Len(s) - 1 : p[i] = s[i]
<1>1. Len(s) \in Nat /\ Len(s) >= 1 /\ \A i \in 1 .. Len(s) - 1 : s[i] \in T
  BY EmptySeq, LenProperties
<1>2. PICK n \in Nat : n = Len(s) - 1
  BY <1>1
<1>3. \A i \in 1 .. n : s[i] \in T
  BY <1>1, <1>2
<1>4. /\ SubSeq(s, 1, n) \in Seq(T)
      /\ Len(SubSeq(s, 1, n)) = IF 1 <= n THEN n - 1 + 1 ELSE 0
      /\ \A i \in 1 .. n - 1 + 1 : SubSeq(s, 1, n)[i] = s[1 + i - 1]
  BY <1>3, SubSeqProperties
<1>5. p = SubSeq(s, 1, n)
  BY <1>2
<1>6. \A i \in 1 .. n : p[i] = s[i]
  BY <1>4, <1>5
<1> QED
  BY <1>1, <1>2, <1>4, <1>5, <1>6

LEMMA PushTwo ==
  ASSUME NEW T, NEW s \in Seq(T), NEW a \in T, NEW b \in T, NEW p, p = s \o <<a, b>>
  PROVE  /\ p \in Seq(T) /\ Len(p) = Len(s) + 2
         /\ \A i \in 1 .. Len(s) : p[i] = s[i]
         /\ p[Len(s) + 1] = a /\ p[Len(s) + 2] = b
<1>1. <<a, b>> \in Seq(T) /\ Len(<<a, b>>) = 2
  OBVIOUS
<1> QED
  BY <1>1, ConcatProperties

LEMMA PushOne ==
  ASSUME NEW T, NEW s \in Seq(T), NEW a \in T, NEW p, p = Append(s, a)
  PROVE  /\ p \in Seq(T) /\ Len(p) = Len(s) + 1
         /\ \A i \in 1 .. Len(s) : p[i] = s[i]
         /\ p[Len(s) + 1] = a
  BY AppendProperties

-----------------------------------------------------------------------------
(* The graph does not change.                                                *)

LEMMA GraphSame ==
  ASSUME UNCHANGED graph
  PROVE  /\ Nodes' = Nodes
         /\ WellFormed' <=> WellFormed
         /\ Frames' = Frames
         /\ \A s : /\ Refs(s)' = Refs(s) /\ ChoiceOf(s)' = ChoiceOf(s)
                   /\ ValuesOf(s)' = ValuesOf(s)
                   /\ IsValue(s)' <=> IsValue(s)
                   /\ HasValues(s)' <=> HasValues(s)
                   /\ Single(s)' <=> Single(s)
                   /\ Group(s)' = Group(s)
         /\ \A g, h : Edge(g, h)' <=> Edge(g, h)
         /\ \A f : FrameOK(f)' <=> FrameOK(f)
         /\ \A f, g : Link(f, g)' <=> Link(f, g)
         /\ \A f, v : Marks(f, v)' <=> Marks(f, v)
         /\ \A set : Recursive(set)' <=> Recursive(set)
         /\ Cyclic' <=> Cyclic
         /\ \A s, set : Settled(s, set)' <=> Settled(s, set)
         /\ \A f, top, set : FrameDone(f, top, set)' <=> FrameDone(f, top, set)
  BY DEF Nodes, WellFormed, ChoicesLinked, Frames, Refs, ChoiceOf, ValuesOf, IsValue,
         HasValues, Single, Group, Edge, FrameOK, Link, Marks, Recursive, Cyclic, Settled,
         FrameDone, RefSettled, Left

LEMMA Grouped ==
  ASSUME WellFormed
  PROVE  /\ \A s \in Nodes : /\ Refs(s) \in Seq(Nodes) /\ ValuesOf(s) \in Seq(Nodes)
                             /\ Range(Refs(s)) \subseteq Nodes
                             /\ ChoiceOf(s) \in Nodes \cup {Nobody}
                             /\ Group(s) \in Nodes /\ Group(Group(s)) = Group(s)
                             /\ IsValue(s) => HasValues(ChoiceOf(s)) /\ ~HasValues(s)
                             /\ HasValues(s) => ~IsValue(s)
                             /\ s # Nobody
         /\ \A s, c \in Nodes : ChoiceOf(s) = c <=> s \in Range(ValuesOf(c))
         /\ \A s \in Nodes : Single(s) => \A v \in Nodes : Group(v) = s => v = s
<1>1. ASSUME NEW s \in Nodes
      PROVE  /\ Refs(s) \in Seq(Nodes) /\ ValuesOf(s) \in Seq(Nodes)
             /\ ChoiceOf(s) \in Nodes \cup {Nobody} /\ s # Nobody
  BY DEF WellFormed, Refs, ValuesOf, ChoiceOf
<1>2. ASSUME NEW s \in Nodes, NEW c \in Nodes
      PROVE  /\ ChoiceOf(s) = c <=> s \in Range(ValuesOf(c))
             /\ IsValue(s) => ~HasValues(s)
  BY DEF WellFormed, ChoicesLinked
<1>3. ASSUME NEW s \in Nodes, ~HasValues(s) PROVE Range(ValuesOf(s)) = {}
  BY <1>3 DEF HasValues, Range
<1>4. ASSUME NEW s \in Nodes, IsValue(s)
      PROVE  ChoiceOf(s) \in Nodes /\ HasValues(ChoiceOf(s))
  BY <1>1, <1>2, <1>3, <1>4 DEF IsValue
<1>5. ASSUME NEW s \in Nodes PROVE Group(s) \in Nodes /\ Group(Group(s)) = Group(s)
  BY <1>1, <1>2, <1>4 DEF Group
<1>6. ASSUME NEW s \in Nodes, Single(s), NEW v \in Nodes, Group(v) = s PROVE v = s
  BY <1>2, <1>3, <1>6 DEF Single, Group, IsValue
<1> QED
  BY <1>1, <1>2, <1>4, <1>5, <1>6, RangeOf

-----------------------------------------------------------------------------
(* Part one.  A call of sym_check_deps of t, to return to rest.              *)

Resumes(t, rest) ==
  /\ t \in Nodes
  /\ rest \in Seq(Frames) /\ Len(rest) = Len(calls)
  /\ \A i \in 1 .. Len(calls) - 1 : rest[i] = calls[i]
  /\ calls # <<>> =>
       LET g == rest[Len(calls)] IN
       /\ g.proc = Top.proc /\ g.s = Top.s /\ g.at = Top.at + 1
       /\ \/ Top.proc = "sym" /\ Top.at <= Len(Refs(Top.s)) /\ t = Refs(Top.s)[Top.at]
          \/ Top.proc = "value" /\ Top.at = 1 /\ t = ChoiceOf(Top.s)

LEMMA TopFrame ==
  ASSUME MarkInv, calls # <<>>
  PROVE  /\ Len(calls) \in Nat \ {0} /\ Top = calls[Len(calls)]
         /\ Top \in Frames /\ Top.s \in Nodes /\ Top.at \in Nat \ {0}
         /\ FrameOK(Top)
<1>1. calls \in Seq(Frames) /\ Len(calls) \in Nat \ {0}
  BY EmptySeq DEF MarkInv, Types
<1>2. calls[Len(calls)] \in Frames /\ FrameOK(calls[Len(calls)])
  BY <1>1 DEF MarkInv, CallsInv
<1> QED
  BY <1>1, <1>2 DEF Top, Frames

\* What calls' keeps of calls: the frames may only have gone on.
LEMMA ResumedFrames ==
  ASSUME MarkInv, NEW t, NEW rest, Resumes(t, rest)
  PROVE  /\ Len(calls) \in Nat /\ (calls # <<>> => Len(calls) > 0)
         /\ \A i \in 1 .. Len(calls) :
              /\ rest[i] \in Frames /\ calls[i] \in Frames
              /\ rest[i].proc = calls[i].proc /\ rest[i].s = calls[i].s
              /\ FrameOK(rest[i])
              /\ \A v : Marks(rest[i], v) <=> Marks(calls[i], v)
         /\ \A i \in 1 .. Len(calls) - 1 : Link(rest[i], rest[i + 1])
         /\ calls # <<>> /\ rest[1].proc = "sym" => Single(rest[1].s)
<1> USE DEF MarkInv, Types, CallsInv
<1>1. Len(calls) \in Nat /\ (calls # <<>> => Len(calls) > 0)
  BY EmptySeq, LenProperties
<1>2. \A i \in 1 .. Len(calls) : rest[i] \in Frames /\ calls[i] \in Frames
  BY <1>1 DEF Resumes
<1>3. ASSUME NEW i \in 1 .. Len(calls)
      PROVE  /\ rest[i].proc = calls[i].proc /\ rest[i].s = calls[i].s
             /\ FrameOK(rest[i])
  <2>1. CASE i < Len(calls)
    <3>1. i \in 1 .. Len(calls) - 1
      BY <1>1, <2>1
    <3>2. rest[i] = calls[i]
      BY <3>1 DEF Resumes
    <3>3. FrameOK(calls[i])
      OBVIOUS
    <3> QED
      BY <3>2, <3>3
  <2>2. CASE i = Len(calls)
    <3>1. /\ rest[i].proc = calls[i].proc /\ rest[i].s = calls[i].s
          /\ rest[i].at = calls[i].at + 1 /\ calls[i].at \in Nat
          /\ \/ calls[i].proc = "sym" /\ calls[i].at <= Len(Refs(calls[i].s))
             \/ calls[i].proc = "value" /\ calls[i].at = 1
      BY <1>1, <1>2, <2>2 DEF Resumes, Top, Frames
    <3>2. FrameOK(calls[i])
      OBVIOUS
    <3>3. calls[i].s \in Nodes
      BY <1>2 DEF Frames
    <3>4. Len(Refs(calls[i].s)) \in Nat
      BY <3>3, Grouped, LenProperties
    <3> QED
      BY <3>1, <3>2, <3>4 DEF FrameOK
  <2> QED
    BY <1>1, <2>1, <2>2
<1>4. \A i \in 1 .. Len(calls) : \A v : Marks(rest[i], v) <=> Marks(calls[i], v)
  BY <1>3 DEF Marks
<1>5. ASSUME NEW i \in 1 .. Len(calls) - 1 PROVE Link(rest[i], rest[i + 1])
  <2>1. Link(calls[i], calls[i + 1]) /\ rest[i] = calls[i]
    BY <1>1 DEF Resumes
  <2>2. rest[i + 1].proc = calls[i + 1].proc /\ rest[i + 1].s = calls[i + 1].s
    BY <1>1, <1>3
  <2> QED
    BY <2>1, <2>2 DEF Link
<1>6. calls # <<>> => rest[1].proc = calls[1].proc /\ rest[1].s = calls[1].s
  BY <1>1, <1>3
<1> QED
  BY <1>1, <1>2, <1>3, <1>4, <1>5, <1>6

\* What may be called when t has not been searched.
LEMMA ResumedLink ==
  ASSUME MarkInv, NEW t, NEW rest, Resumes(t, rest), calls # <<>>, t \notin checked,
         NEW g, g.s = t, g.proc = "sym" => Single(t),
         Top.proc = "value" => g.proc = "choice"
  PROVE  Link(rest[Len(calls)], g)
<1>1. Len(calls) \in 1 .. Len(calls) /\ Top \in Frames
  BY ResumedFrames DEF Top
<1>2. CASE Top.proc = "value"
  BY <1>1, <1>2 DEF Resumes, Link
<1>3. CASE Top.proc = "sym"
  <2>1. Top.s \in checked /\ Group(Top.s) \in checked
    BY <1>1, <1>3 DEF MarkInv, MarksInv, Top, Frames
  <2>2. t # ChoiceOf(Top.s)
    BY <2>1 DEF Group, IsValue, MarkInv, Types, WellFormed, Resumes
  <2> QED
    BY <1>1, <1>3, <2>2 DEF Resumes, Link, Frames
<1> QED
  BY <1>2, <1>3 DEF Resumes

\* The calls with one for t.
LEMMA PushedFrames ==
  ASSUME MarkInv, NEW t, NEW rest, Resumes(t, rest), t \notin checked,
         NEW g \in Frames, g.s = t, g.at = 1, FrameOK(g), g.proc = "sym" => Single(t),
         calls # <<>> /\ Top.proc = "value" => g.proc = "choice",
         NEW c, c = Append(rest, g)
  PROVE  /\ c \in Seq(Frames) /\ Len(c) = Len(calls) + 1
         /\ \A i \in 1 .. Len(calls) : c[i] = rest[i]
         /\ c[Len(calls) + 1] = g
         /\ \A i \in 1 .. Len(c) : FrameOK(c[i])
         /\ \A i \in 1 .. Len(c) - 1 : Link(c[i], c[i + 1])
         /\ c[1].proc = "sym" => Single(c[1].s)
<1>1. /\ c \in Seq(Frames) /\ Len(c) = Len(calls) + 1
      /\ \A i \in 1 .. Len(calls) : c[i] = rest[i]
      /\ c[Len(calls) + 1] = g
  BY PushOne DEF Resumes
<1>2. Len(calls) \in Nat /\ (calls # <<>> => Len(calls) > 0)
  BY ResumedFrames
<1>3. \A i \in 1 .. Len(c) : FrameOK(c[i])
  BY <1>1, <1>2, ResumedFrames
<1>4. ASSUME NEW i \in 1 .. Len(c) - 1 PROVE Link(c[i], c[i + 1])
  <2>1. CASE i < Len(calls)
    BY <1>1, <1>2, <2>1, ResumedFrames
  <2>2. CASE i = Len(calls)
    BY <1>1, <1>2, <2>2, ResumedLink
  <2> QED
    BY <1>1, <1>2, <2>1, <2>2
<1>5. c[1].proc = "sym" => Single(c[1].s)
  <2>1. CASE calls = <<>>
    BY <1>1, <2>1
  <2>2. CASE calls # <<>>
    BY <1>1, <1>2, <2>2, ResumedFrames
  <2> QED
    BY <2>1, <2>2
<1> QED
  BY <1>1, <1>3, <1>4, <1>5

\* Only the value at the top may not have been marked.
LEMMA MarkedBelow ==
  ASSUME MarkInv, NEW i \in 1 .. Len(calls)
  PROVE  \/ calls[i].s \in checked /\ ~(calls[i].proc = "value" /\ calls[i].at = 1)
         \/ i = Len(calls) /\ Top.proc = "value" /\ Top.at = 1
<1>1. Len(calls) \in Nat /\ calls[i].s \in Nodes
  <2>1. calls \in Seq(Frames)
    BY DEF MarkInv, Types
  <2>2. calls[i] \in Frames /\ Len(calls) \in Nat
    BY <2>1
  <2> QED
    BY <2>2 DEF Frames
<1>2. i < Len(calls) => Link(calls[i], calls[i + 1])
  BY <1>1 DEF MarkInv, CallsInv
<1> QED
  BY <1>1, <1>2 DEF MarkInv, MarksInv, Link, Top

LEMMA ResumedMarked ==
  ASSUME MarkInv, NEW t, NEW rest, Resumes(t, rest), NEW i \in 1 .. Len(calls)
  PROVE  /\ rest[i].proc = calls[i].proc /\ rest[i].s = calls[i].s
         /\ ~(rest[i].proc = "value" /\ rest[i].at = 1)
         /\ \/ calls[i].s \in checked
            \/ i = Len(calls) /\ Top.proc = "value" /\ t = ChoiceOf(calls[i].s)
<1>1. /\ rest[i].proc = calls[i].proc /\ rest[i].s = calls[i].s
      /\ Len(calls) \in Nat /\ calls # <<>> /\ calls[i] \in Frames
  BY ResumedFrames DEF Resumes
<1>2. CASE i < Len(calls)
  <2>1. rest[i] = calls[i]
    BY <1>1, <1>2 DEF Resumes
  <2> QED
    BY <1>1, <1>2, <2>1, MarkedBelow
<1>3. CASE i = Len(calls)
  <2>1. rest[i].at = calls[i].at + 1 /\ calls[i].at # 0 /\ calls[i].at \in Nat
    BY <1>1, <1>3 DEF Resumes, Top, Frames
  <2>2. Top.proc = "value" => t = ChoiceOf(calls[i].s)
    BY <1>1, <1>3 DEF Resumes, Top
  <2> QED
    BY <1>1, <1>3, <2>1, <2>2, MarkedBelow
<1> QED
  BY <1>1, <1>2, <1>3

\* The marks after a step that puts k frames on the calls there were.
LEMMA GrownMarks ==
  ASSUME MarkInv, UNCHANGED graph, calls' \in Seq(Frames), Len(calls) <= Len(calls'),
         \A i \in 1 .. Len(calls) :
           /\ calls'[i].proc = calls[i].proc /\ calls'[i].s = calls[i].s
           /\ ~(calls'[i].proc = "value" /\ calls'[i].at = 1)
           /\ calls[i].s \in checked',
         \A v \in Nodes : v \in check' <=>
           \/ v \in check
           \/ \E i \in Len(calls) + 1 .. Len(calls') : Marks(calls'[i], v),
         \A s \in Nodes : s \in checked' <=> Group(s) \in checked',
         \A i \in Len(calls) + 1 .. Len(calls') :
           /\ calls'[i].s \notin checked' <=> calls'[i].proc = "value" /\ calls'[i].at = 1
           /\ calls'[i].proc # "value" /\ ~IsValue(calls'[i].s) => calls'[i].s \notin checked,
         \A i, j \in Len(calls) + 1 .. Len(calls') : calls'[i].proc = calls'[j].proc => i = j
  PROVE  MarksInv'
<1> DEFINE n == Len(calls)
           m == Len(calls')
<1>1. n \in Nat /\ m \in Nat /\ n <= m
  BY LenProperties DEF MarkInv, Types
<1> HIDE DEF n, m
<1>2. ASSUME NEW v \in Nodes
      PROVE  v \in check' <=> \E i \in 1 .. m : Marks(calls'[i], v)
  <2>1. \A i \in 1 .. n : Marks(calls'[i], v) <=> Marks(calls[i], v)
    BY DEF Marks, n
  <2>2. v \in check <=> \E i \in 1 .. n : Marks(calls[i], v)
    BY DEF MarkInv, MarksInv, n
  <2>3. ASSUME NEW i \in 1 .. m, Marks(calls'[i], v) PROVE v \in check'
    <3>1. i \in 1 .. n \/ i \in n + 1 .. m
      BY <1>1
    <3> QED
      BY <2>1, <2>2, <2>3, <3>1 DEF n, m
  <2>4. ASSUME v \in check' PROVE \E i \in 1 .. m : Marks(calls'[i], v)
    <3>1. CASE v \in check
      BY <1>1, <2>1, <2>2, <3>1
    <3>2. CASE v \notin check
      BY <1>1, <2>4, <3>2 DEF n, m
    <3> QED
      BY <3>1, <3>2
  <2> QED
    BY <2>3, <2>4
<1>3. ASSUME NEW i \in 1 .. m
      PROVE  calls'[i].s \notin checked' <=> calls'[i].proc = "value" /\ calls'[i].at = 1
  <2>1. i \in 1 .. n \/ i \in n + 1 .. m
    BY <1>1
  <2>2. i \in 1 .. n => calls'[i].s = calls[i].s
    BY DEF n
  <2> QED
    BY <2>1, <2>2 DEF n, m
<1>4. ASSUME NEW i \in 1 .. m, NEW j \in 1 .. m,
             calls'[i].proc = calls'[j].proc, calls'[i].proc # "value",
             calls'[i].s = calls'[j].s, ~IsValue(calls'[i].s)
      PROVE  i = j
  <2>1. \A l \in 1 .. n : calls[l].proc # "value" => calls[l].s \in checked
    BY DEF MarkInv, MarksInv, n
  <2>2. CASE i \in 1 .. n /\ j \in 1 .. n
    BY <1>4, <2>2 DEF MarkInv, MarksInv, n
  <2>3. CASE i \in n + 1 .. m /\ j \in n + 1 .. m
    BY <1>4, <2>3 DEF n, m
  <2>4. CASE i \in 1 .. n /\ j \in n + 1 .. m
    BY <1>4, <2>1, <2>4 DEF n, m
  <2>5. CASE i \in n + 1 .. m /\ j \in 1 .. n
    BY <1>4, <2>1, <2>5 DEF n, m
  <2> QED
    BY <1>1, <2>2, <2>3, <2>4, <2>5
<1> QED
  BY <1>2, <1>3, <1>4, GraphSame DEF MarksInv, m

LEMMA PushedStack ==
  ASSUME MarkInv, NEW t, NEW rest, Resumes(t, rest), NEW g, g.s = t
  PROVE  LET c == Append(rest, g)  s == Append(stack, t) IN
         /\ s \in Seq(Nodes) /\ Len(s) = Len(calls) + 1
         /\ \A i \in 1 .. Len(calls) : s[i] = calls[i].s
         /\ s[Len(calls) + 1] = t
  BY PushOne DEF MarkInv, Types, StackInv, Resumes

\* sym_check_deps marks a symbol that is neither a choice nor a value and goes into it.
LEMMA EnterSymMarks ==
  ASSUME MarkInv, NEW t, NEW rest, Resumes(t, rest), t \notin checked, Single(t),
         Mark({t}), Call("sym", t, rest), next' \in 0 .. Len(graph.order),
         UNCHANGED <<graph, sym2, yynerrs, unexpected>>
  PROVE  MarkInv'
<1> DEFINE n == Len(calls)
           g == Frame("sym", t)
<1>1. n \in Nat /\ t \in Nodes /\ WellFormed
  BY ResumedFrames DEF Resumes, MarkInv, Types
<1>2. g \in Frames /\ g.s = t /\ g.at = 1 /\ g.proc = "sym" /\ FrameOK(g)
  <2>1. Len(Refs(t)) \in Nat
    BY <1>1, Grouped, LenProperties
  <2> QED
    BY <1>1, <2>1 DEF Frame, Frames, FrameOK
<1>3. calls # <<>> => Top.proc # "value"
  <2> SUFFICES ASSUME calls # <<>>, Top.proc = "value" PROVE FALSE
    OBVIOUS
  <2>1. Top.s \in Nodes /\ IsValue(Top.s) /\ t = ChoiceOf(Top.s)
    BY TopFrame DEF FrameOK, Resumes
  <2> QED
    BY <1>1, <2>1, Grouped DEF Single
<1>4. /\ calls' \in Seq(Frames) /\ Len(calls') = n + 1
      /\ \A i \in 1 .. n : calls'[i] = rest[i]
      /\ calls'[n + 1] = g
      /\ \A i \in 1 .. n + 1 : FrameOK(calls'[i])
      /\ \A i \in 1 .. n : Link(calls'[i], calls'[i + 1])
      /\ calls'[1].proc = "sym" => Single(calls'[1].s)
  <2> DEFINE c == Append(rest, g)
  <2>1. calls' = c
    BY DEF Call
  <2> HIDE DEF c
  <2>2. /\ c \in Seq(Frames) /\ Len(c) = Len(calls) + 1
        /\ \A i \in 1 .. Len(calls) : c[i] = rest[i]
        /\ c[Len(calls) + 1] = g
        /\ \A i \in 1 .. Len(c) : FrameOK(c[i])
        /\ \A i \in 1 .. Len(c) - 1 : Link(c[i], c[i + 1])
        /\ c[1].proc = "sym" => Single(c[1].s)
    <3> HIDE DEF g
    <3> QED BY <1>2, <1>3, PushedFrames DEF c
  <2> QED
    BY <1>1, <2>1, <2>2
<1>5. /\ stack' \in Seq(Nodes) /\ Len(stack') = n + 1
      /\ \A i \in 1 .. n : stack'[i] = calls[i].s
      /\ stack'[n + 1] = t
  BY <1>2, PushedStack DEF Call
<1> HIDE DEF g
<1>6. \A i \in 1 .. n : /\ calls'[i].proc = calls[i].proc /\ calls'[i].s = calls[i].s
                        /\ ~(calls'[i].proc = "value" /\ calls'[i].at = 1)
                        /\ calls[i].s \in checked'
  BY <1>1, <1>3, <1>4, ResumedMarked DEF Mark
<1>7. Types'
  BY <1>1, <1>4, <1>5, GraphSame DEF MarkInv, Types, Mark
<1>8. CallsInv'
  BY <1>1, <1>4, GraphSame DEF CallsInv
<1>9. StackInv'
  BY <1>1, <1>2, <1>4, <1>5, <1>6 DEF StackInv
<1>10. MarksInv'
  <2>1. \A v : Marks(g, v) <=> v = t
    BY <1>2 DEF Marks, Single
  <2>2. \A v : v \in check' <=> v \in check \/ v = t
    BY DEF Mark
  <2>3. ASSUME NEW s \in Nodes PROVE s \in checked' <=> Group(s) \in checked'
    BY <1>1, Grouped DEF MarkInv, MarksInv, Mark, Single, Group
  <2>4. \A i \in n + 1 .. n + 1 : calls'[i] = g
    BY <1>1, <1>4
  <2> HIDE DEF n
  <2>5. \A v \in Nodes :
          v \in check' <=> v \in check \/ \E i \in n + 1 .. n + 1 : Marks(calls'[i], v)
    BY <1>1, <2>1, <2>2, <2>4
  <2>6. t \in checked'
    BY DEF Mark
  <2> QED
    BY <1>1, <1>2, <1>4, <1>6, <2>3, <2>4, <2>5, <2>6, GrownMarks DEF n
<1> QED
  BY <1>7, <1>8, <1>9, <1>10 DEF MarkInv
\* A value of a choice that has not been searched: its choice comes first.
LEMMA EnterValueMarks ==
  ASSUME MarkInv, NEW t, NEW rest, Resumes(t, rest), t \notin checked, IsValue(t),
         Call("value", t, rest),
         next' \in 0 .. Len(graph.order),
         UNCHANGED <<graph, marks, sym2, yynerrs, unexpected>>
  PROVE  MarkInv'
<1> DEFINE n == Len(calls)
           g == Frame("value", t)
<1>1. n \in Nat /\ t \in Nodes /\ WellFormed /\ UNCHANGED <<check, checked>>
  BY ResumedFrames DEF Resumes, MarkInv, Types, marks
<1>2. g \in Frames /\ g.s = t /\ g.at = 1 /\ g.proc = "value" /\ FrameOK(g)
  BY <1>1 DEF Frame, Frames, FrameOK
<1>3. calls # <<>> => Top.proc # "value"
  <2> SUFFICES ASSUME calls # <<>>, Top.proc = "value" PROVE FALSE
    OBVIOUS
  <2>1. Top.s \in Nodes /\ IsValue(Top.s) /\ t = ChoiceOf(Top.s)
    BY TopFrame DEF FrameOK, Resumes
  <2> QED
    BY <1>1, <2>1, Grouped
<1>4. /\ calls' \in Seq(Frames) /\ Len(calls') = n + 1
      /\ \A i \in 1 .. n : calls'[i] = rest[i]
      /\ calls'[n + 1] = g
      /\ \A i \in 1 .. n + 1 : FrameOK(calls'[i])
      /\ \A i \in 1 .. n : Link(calls'[i], calls'[i + 1])
      /\ calls'[1].proc = "sym" => Single(calls'[1].s)
  <2> DEFINE c == Append(rest, g)
  <2>1. calls' = c
    BY DEF Call
  <2> HIDE DEF c
  <2>2. /\ c \in Seq(Frames) /\ Len(c) = Len(calls) + 1
        /\ \A i \in 1 .. Len(calls) : c[i] = rest[i]
        /\ c[Len(calls) + 1] = g
        /\ \A i \in 1 .. Len(c) : FrameOK(c[i])
        /\ \A i \in 1 .. Len(c) - 1 : Link(c[i], c[i + 1])
        /\ c[1].proc = "sym" => Single(c[1].s)
    <3> HIDE DEF g
    <3> QED BY <1>2, <1>3, PushedFrames DEF c
  <2> QED
    BY <1>1, <2>1, <2>2
<1>5. /\ stack' \in Seq(Nodes) /\ Len(stack') = n + 1
      /\ \A i \in 1 .. n : stack'[i] = calls[i].s
      /\ stack'[n + 1] = t
  BY <1>2, PushedStack DEF Call
<1> HIDE DEF g
<1>6. \A i \in 1 .. n : /\ calls'[i].proc = calls[i].proc /\ calls'[i].s = calls[i].s
                        /\ ~(calls'[i].proc = "value" /\ calls'[i].at = 1)
                        /\ calls[i].s \in checked'
  BY <1>1, <1>3, <1>4, ResumedMarked
<1>7. Types'
  BY <1>1, <1>4, <1>5, GraphSame DEF MarkInv, Types
<1>8. CallsInv'
  BY <1>1, <1>4, GraphSame DEF CallsInv
<1>9. StackInv'
  BY <1>1, <1>2, <1>4, <1>5, <1>6 DEF StackInv
<1>10. MarksInv'
  <2>1. \A v : ~Marks(g, v)
    BY <1>2 DEF Marks
  <2>2. \A s \in Nodes : s \in checked' <=> Group(s) \in checked'
    BY <1>1 DEF MarkInv, MarksInv
  <2>3. \A i \in n + 1 .. n + 1 : calls'[i] = g
    BY <1>1, <1>4
  <2>4. \A v \in Nodes :
          v \in check' <=> v \in check \/ \E i \in n + 1 .. n + 1 : Marks(calls'[i], v)
    BY <1>1, <2>1, <2>3
  <2> HIDE DEF n
  <2> QED
    BY <1>1, <1>2, <1>4, <1>6, <2>2, <2>3, <2>4, GrownMarks DEF n
<1> QED
  BY <1>7, <1>8, <1>9, <1>10 DEF MarkInv

\* sym_check_choice_deps marks the choice and its values and goes into the choice.
LEMMA EnterChoiceMarks ==
  ASSUME MarkInv, NEW t, NEW rest, Resumes(t, rest), t \notin checked, HasValues(t),
         CheckChoice(t, rest), next' \in 0 .. Len(graph.order),
         UNCHANGED <<graph, sym2, yynerrs, unexpected>>
  PROVE  MarkInv'
<1> DEFINE n == Len(calls)
           a == Frame("choice", t)
           b == Frame("sym", t)
           values == Range(ValuesOf(t))
<1>1. n \in Nat /\ t \in Nodes /\ WellFormed /\ ~IsValue(t)
  BY ResumedFrames, Grouped DEF Resumes, MarkInv, Types
<1>2. /\ a \in Frames /\ a.s = t /\ a.at = 1 /\ a.proc = "choice" /\ FrameOK(a)
      /\ b \in Frames /\ b.s = t /\ b.at = 1 /\ b.proc = "sym" /\ FrameOK(b)
      /\ Link(a, b)
  <2>1. Len(Refs(t)) \in Nat /\ Len(ValuesOf(t)) \in Nat
    BY <1>1, Grouped, LenProperties
  <2> QED
    BY <1>1, <2>1 DEF Frame, Frames, FrameOK, Link
<1>3. /\ calls' \in Seq(Frames) /\ Len(calls') = n + 2
      /\ \A i \in 1 .. n : calls'[i] = rest[i]
      /\ calls'[n + 1] = a /\ calls'[n + 2] = b
  <2>1. calls' = rest \o <<a, b>>
    BY DEF CheckChoice
  <2>2. rest \in Seq(Frames) /\ Len(rest) = n
    BY DEF Resumes
  <2> HIDE DEF a, b
  <2> QED
    BY <1>2, <2>1, <2>2, PushTwo
<1>4. /\ stack' \in Seq(Nodes) /\ Len(stack') = n + 2
      /\ \A i \in 1 .. n : stack'[i] = calls[i].s
      /\ stack'[n + 1] = t /\ stack'[n + 2] = t
  <2>1. stack' = stack \o <<t, t>>
    BY DEF CheckChoice
  <2>2. stack \in Seq(Nodes) /\ Len(stack) = n /\ \A i \in 1 .. n : stack[i] = calls[i].s
    BY DEF MarkInv, Types, StackInv
  <2>3. /\ stack' \in Seq(Nodes) /\ Len(stack') = Len(stack) + 2
        /\ \A i \in 1 .. Len(stack) : stack'[i] = stack[i]
        /\ stack'[Len(stack) + 1] = t /\ stack'[Len(stack) + 2] = t
    <3>1. t \in Nodes /\ stack \in Seq(Nodes)
      BY <1>1, <2>2
    <3> QED
      BY ONLY <2>1, <3>1, PushTwo
  <2> QED
    BY <2>2, <2>3
<1> HIDE DEF a, b
<1>5. /\ \A i \in 1 .. n + 2 : FrameOK(calls'[i])
      /\ \A i \in 1 .. n + 1 : Link(calls'[i], calls'[i + 1])
      /\ calls'[1].proc = "sym" => Single(calls'[1].s)
  <2>1. ASSUME NEW i \in 1 .. n + 2 PROVE FrameOK(calls'[i])
    <3>1. i \in 1 .. n \/ i = n + 1 \/ i = n + 2
      BY <1>1
    <3>2. \A m \in 1 .. n : FrameOK(rest[m])
      BY ResumedFrames
    <3> QED
      BY <1>2, <1>3, <3>1, <3>2
  <2>2. ASSUME NEW i \in 1 .. n + 1 PROVE Link(calls'[i], calls'[i + 1])
    <3>1. CASE i < n
      BY <1>1, <1>3, <3>1, ResumedFrames
    <3>2. CASE i = n
      <4>1. calls # <<>>
        BY <1>1, <3>2
      <4> QED
        BY <1>1, <1>2, <1>3, <3>2, <4>1, ResumedLink
    <3>3. CASE i = n + 1
      BY <1>1, <1>2, <1>3, <3>3
    <3> QED
      BY <1>1, <3>1, <3>2, <3>3
  <2>3. calls'[1].proc = "sym" => Single(calls'[1].s)
    <3>1. CASE n = 0
      BY <1>2, <1>3, <3>1
    <3>2. CASE n > 0
      <4>1. calls # <<>> /\ calls'[1] = rest[1]
        BY <1>1, <1>3, <3>2
      <4> QED
        BY <4>1, ResumedFrames
    <3> QED
      BY <1>1, <3>1, <3>2
  <2> QED
    BY <2>1, <2>2, <2>3
<1>6. values \subseteq Nodes /\ \A v \in Nodes : v \in values <=> ChoiceOf(v) = t
  BY <1>1, Grouped, RangeOf
<1>7. /\ check' = check \cup values \cup {t}
      /\ checked' = checked \cup values \cup {t}
  BY DEF CheckChoice, Mark
<1>8. \A i \in 1 .. n : /\ calls'[i].proc = calls[i].proc /\ calls'[i].s = calls[i].s
                        /\ ~(calls'[i].proc = "value" /\ calls'[i].at = 1)
                        /\ calls[i].s \in checked'
  <2> SUFFICES ASSUME NEW i \in 1 .. n
               PROVE  /\ calls'[i].proc = calls[i].proc /\ calls'[i].s = calls[i].s
                      /\ ~(calls'[i].proc = "value" /\ calls'[i].at = 1)
                      /\ calls[i].s \in checked'
    OBVIOUS
  <2>1. calls'[i] = rest[i] /\ calls[i] \in Frames
    BY <1>3, ResumedFrames
  <2> QED
    BY <1>6, <1>7, <2>1, ResumedMarked DEF Frames
<1>9. Types'
  BY <1>1, <1>3, <1>4, <1>6, <1>7, GraphSame DEF MarkInv, Types
<1>10. CallsInv'
  BY <1>1, <1>3, <1>5, GraphSame DEF CallsInv
<1>11. StackInv'
  <2>1. ASSUME NEW i \in 1 .. n + 2 PROVE stack'[i] = calls'[i].s
    <3>1. i \in 1 .. n \/ i = n + 1 \/ i = n + 2
      BY <1>1
    <3> QED
      BY <1>2, <1>3, <1>4, <1>8, <3>1
  <2> QED
    BY <1>1, <1>3, <1>4, <2>1 DEF StackInv
<1>12. MarksInv'
  <2>1. \A v \in Nodes : (Marks(a, v) \/ Marks(b, v)) <=> v \in values \cup {t}
    BY <1>1, <1>2, <1>6 DEF Marks
  <2>2. ASSUME NEW s \in Nodes PROVE s \in checked' <=> Group(s) \in checked'
    <3>1. s \in checked <=> Group(s) \in checked
      BY DEF MarkInv, MarksInv
    <3>2. s \in values \cup {t} <=> Group(s) \in values \cup {t}
      BY <1>1, <1>6, Grouped DEF Group, IsValue
    <3> QED
      BY <1>7, <3>1, <3>2
  <2>3. ASSUME NEW i \in n + 1 .. n + 2
        PROVE  \/ i = n + 1 /\ calls'[i] = a
               \/ i = n + 2 /\ calls'[i] = b
    BY <1>1, <1>3
  <2>4. ASSUME NEW v \in Nodes
        PROVE  v \in check' <=> v \in check \/ \E i \in n + 1 .. n + 2 : Marks(calls'[i], v)
    <3>1. (\E i \in n + 1 .. n + 2 : Marks(calls'[i], v)) <=> (Marks(a, v) \/ Marks(b, v))
      BY <1>1, <1>3, <2>3
    <3> QED
      BY <1>7, <2>1, <3>1
  <2>5. \A i \in n + 1 .. n + 2 : calls'[i].s = t /\ t \in checked' /\ calls'[i].proc # "value"
    BY <1>2, <1>7, <2>3
  <2>6. \A i, j \in n + 1 .. n + 2 : calls'[i].proc = calls'[j].proc => i = j
    BY <1>2, <2>3
  <2> HIDE DEF n, values
  <2> QED
    BY <1>1, <1>3, <1>8, <2>2, <2>4, <2>5, <2>6, GrownMarks DEF n
<1> QED
  BY <1>9, <1>10, <1>11, <1>12 DEF MarkInv

\* Nothing is gone into: t has been searched, or is being searched.
LEMMA ResumeMarks ==
  ASSUME MarkInv, NEW t, NEW rest, Resumes(t, rest), t \in checked,
         calls' = rest, sym2' \in Nodes \cup {Nobody}, next' \in 0 .. Len(graph.order),
         UNCHANGED <<graph, marks, stack, yynerrs, unexpected>>
  PROVE  MarkInv'
<1>1. /\ WellFormed /\ UNCHANGED <<check, checked>>
      /\ Len(calls) \in Nat /\ Len(calls') = Len(calls) /\ calls' \in Seq(Frames)
  BY ResumedFrames DEF MarkInv, Types, Resumes, marks
<1>2. calls # <<>> => Top.proc # "value"
  <2> SUFFICES ASSUME calls # <<>>, Top.proc = "value" PROVE FALSE
    OBVIOUS
  <2>1. Top.s \in Nodes /\ IsValue(Top.s) /\ t = ChoiceOf(Top.s) /\ Top.at = 1
    BY TopFrame DEF FrameOK, Resumes
  <2>2. Top.s \notin checked
    BY TopFrame, <2>1 DEF MarkInv, MarksInv
  <2> QED
    BY <1>1, <2>1, <2>2, Grouped DEF MarkInv, MarksInv, Group
<1>3. ASSUME NEW i \in 1 .. Len(calls)
      PROVE  /\ calls'[i].proc = calls[i].proc /\ calls'[i].s = calls[i].s
             /\ ~(calls'[i].proc = "value" /\ calls'[i].at = 1)
             /\ calls[i].s \in checked'
  <2>1. calls # <<>>
    BY <1>1
  <2> QED
    BY <1>1, <1>2, <2>1, ResumedMarked
<1>4. Types'
  BY <1>1, GraphSame DEF MarkInv, Types
<1>5. CallsInv'
  BY <1>1, ResumedFrames, GraphSame DEF CallsInv, Resumes
<1>6. StackInv'
  BY <1>1, <1>3 DEF MarkInv, StackInv
<1>7. MarksInv'
  <2>1. \A i \in Len(calls) + 1 .. Len(calls') : FALSE
    BY <1>1
  <2>2. \A s \in Nodes : s \in checked' <=> Group(s) \in checked'
    BY <1>1 DEF MarkInv, MarksInv
  <2> QED
    BY <1>1, <1>3, <2>1, <2>2, GrownMarks
<1> QED
  BY <1>4, <1>5, <1>6, <1>7 DEF MarkInv

\* A cycle that is met can be printed: it stands in the stack.
LEMMA PrintedFrom ==
  ASSUME MarkInv, NEW t \in check
  PROVE  Group(t) \in Range(stack)
<1>1. t \in Nodes /\ calls \in Seq(Frames) /\ stack \in Seq(Nodes) /\ WellFormed
  BY DEF MarkInv, Types
<1>2. PICK i \in 1 .. Len(calls) : Marks(calls[i], t)
  BY <1>1 DEF MarkInv, MarksInv
<1>3. calls[i].s \in Nodes
  <2>1. calls[i] \in Frames
    BY <1>1
  <2> QED
    BY <2>1 DEF Frames
<1>4. Group(t) = calls[i].s
  BY <1>1, <1>2, <1>3 DEF Marks, Group, IsValue, WellFormed
<1>5. i \in 1 .. Len(stack) /\ stack[i] = calls[i].s
  BY DEF MarkInv, StackInv
<1> QED
  BY <1>1, <1>4, <1>5, RangeOf

LEMMA CheckDepsMarks ==
  ASSUME MarkInv, NEW t, NEW rest, Resumes(t, rest), CheckDeps(t, rest),
         next' \in 0 .. Len(graph.order), UNCHANGED <<graph, yynerrs>>
  PROVE  MarkInv'
<1>1. check \subseteq checked /\ t \in Nodes /\ sym2 \in Nodes \cup {Nobody}
  BY DEF MarkInv, Types, Resumes
<1>2. CASE t \in check
  <2>1. UNCHANGED <<stack, unexpected>>
    BY <1>1, <1>2, PrintedFrom DEF CheckDeps, PrintRecursive
  <2>2. sym2' = t /\ calls' = rest /\ UNCHANGED marks
    BY <1>1, <1>2 DEF CheckDeps
  <2> QED
    BY <1>1, <1>2, <2>1, <2>2, ResumeMarks
<1>3. CASE t \in checked \ check
  <2>1. calls' = rest /\ UNCHANGED <<marks, stack, sym2, unexpected>>
    BY <1>3 DEF CheckDeps
  <2> QED
    BY <1>1, <1>3, <2>1, ResumeMarks
<1>4. CASE t \notin checked
  <2>1. /\ \/ IsValue(t) /\ Call("value", t, rest) /\ UNCHANGED marks
           \/ ~IsValue(t) /\ HasValues(t) /\ CheckChoice(t, rest)
           \/ ~IsValue(t) /\ ~HasValues(t) /\ Mark({t}) /\ Call("sym", t, rest)
        /\ UNCHANGED <<sym2, unexpected>>
    BY <1>1, <1>4 DEF CheckDeps
  <2> QED
    BY <1>4, <2>1, EnterValueMarks, EnterChoiceMarks, EnterSymMarks DEF Single
<1> QED
  BY <1>2, <1>3, <1>4

\* The frame at the top goes on.
LEMMA AdvancedFrames ==
  ASSUME MarkInv, calls # <<>>
  PROVE  /\ Advanced \in Seq(Frames) /\ Len(Advanced) = Len(calls)
         /\ \A i \in 1 .. Len(calls) - 1 : Advanced[i] = calls[i]
         /\ Advanced[Len(calls)].proc = Top.proc /\ Advanced[Len(calls)].s = Top.s
         /\ Advanced[Len(calls)].at = Top.at + 1
<1>1. /\ calls \in Seq(Frames) /\ Len(calls) \in Nat \ {0} /\ Top = calls[Len(calls)]
      /\ Top \in Frames
  BY TopFrame DEF MarkInv, Types
<1>2. Advanced = [calls EXCEPT ![Len(calls)] = [Top EXCEPT !.at = @ + 1]]
  BY <1>1 DEF Advanced
<1>3. [Top EXCEPT !.at = @ + 1] \in Frames
  BY <1>1 DEF Frames
<1> QED
  BY <1>1, <1>2, <1>3 DEF Frames

LEMMA CheckRefResumes ==
  ASSUME MarkInv, In("sym"), Top.at <= Len(Refs(Top.s))
  PROVE  Resumes(Refs(Top.s)[Top.at], Advanced)
<1>1. calls # <<>> /\ Top.s \in Nodes /\ Top.at \in Nat \ {0} /\ WellFormed
  BY TopFrame DEF In, MarkInv, Types
<1>2. Refs(Top.s) \in Seq(Nodes)
  BY <1>1, Grouped
<1>3. Refs(Top.s)[Top.at] \in Nodes
  BY <1>1, <1>2
<1> QED
  BY <1>1, <1>3, AdvancedFrames DEF Resumes, In

LEMMA StartAtChoiceResumes ==
  ASSUME MarkInv, In("value"), Top.at = 1
  PROVE  Resumes(ChoiceOf(Top.s), Advanced)
<1>1. calls # <<>> /\ Top.s \in Nodes /\ WellFormed /\ IsValue(Top.s)
  BY TopFrame DEF In, MarkInv, Types, FrameOK
<1>2. ChoiceOf(Top.s) \in Nodes
  BY <1>1, Grouped DEF IsValue
<1> QED
  BY <1>1, <1>2, AdvancedFrames DEF Resumes, In

LEMMA CheckNextResumes ==
  ASSUME MarkInv, calls = <<>>, next < Len(graph.order)
  PROVE  Resumes(graph.order[next + 1], <<>>)
<1>1. graph.order \in Seq(Nodes) /\ next \in Nat /\ calls \in Seq(Frames)
  BY DEF MarkInv, Types, WellFormed
<1>2. graph.order[next + 1] \in Nodes
  BY <1>1
<1> QED
  BY <1>1, <1>2 DEF Resumes

LEMMA CheckValueMarks ==
  ASSUME MarkInv, CheckValue
  PROVE  MarkInv'
<1> DEFINE n == Len(calls)
           v == ValuesOf(Top.s)[Top.at]
           g == Frame("sym", v)
           c == Append(Advanced, g)
<1>1. /\ calls # <<>> /\ Top.proc = "choice" /\ Top.at <= Len(ValuesOf(Top.s))
      /\ calls' = c /\ stack' = Append(stack, v)
      /\ UNCHANGED <<graph, check, checked, sym2, next, yynerrs, unexpected>>
  BY DEF CheckValue, In, Call, marks
<1>2. /\ n \in Nat \ {0} /\ Top = calls[n] /\ Top.s \in Nodes /\ Top.at \in Nat \ {0}
      /\ WellFormed /\ HasValues(Top.s)
  BY <1>1, TopFrame DEF MarkInv, Types, FrameOK
<1>3. v \in Nodes /\ ChoiceOf(v) = Top.s /\ IsValue(v) /\ Len(Refs(v)) \in Nat
  <2>1. ValuesOf(Top.s) \in Seq(Nodes)
    BY <1>2, Grouped
  <2>2. v \in Nodes /\ v \in Range(ValuesOf(Top.s))
    BY <1>1, <1>2, <2>1, RangeOf
  <2>3. ChoiceOf(v) = Top.s /\ Refs(v) \in Seq(Nodes) /\ Top.s # Nobody
    BY <1>2, <2>2, Grouped
  <2> QED
    BY <2>2, <2>3 DEF IsValue
<1> HIDE DEF v
<1>4. g \in Frames /\ g.s = v /\ g.at = 1 /\ g.proc = "sym" /\ FrameOK(g)
  BY <1>3 DEF Frame, Frames, FrameOK
<1> HIDE DEF g
<1>5. /\ c \in Seq(Frames) /\ Len(c) = n + 1 /\ c[n + 1] = g
      /\ \A i \in 1 .. n : c[i] = Advanced[i]
  BY <1>1, <1>4, AdvancedFrames, PushOne
<1>6. /\ stack' \in Seq(Nodes) /\ Len(stack') = n + 1 /\ stack'[n + 1] = v
      /\ \A i \in 1 .. n : stack'[i] = calls[i].s
  <2>1. stack \in Seq(Nodes) /\ Len(stack) = n /\ \A i \in 1 .. n : stack[i] = calls[i].s
    BY DEF MarkInv, Types, StackInv
  <2>2. stack' = Append(stack, v)
    BY <1>1
  <2> QED
    BY <1>3, <2>1, <2>2, PushOne
<1> HIDE DEF c
<1>7. /\ \A i \in 1 .. n - 1 : c[i] = calls[i]
      /\ c[n].proc = Top.proc /\ c[n].s = Top.s /\ c[n].at = Top.at + 1
  BY <1>1, <1>2, <1>5, AdvancedFrames
<1>8. ASSUME NEW i \in 1 .. n
      PROVE  /\ c[i].proc = calls[i].proc /\ c[i].s = calls[i].s
             /\ ~(c[i].proc = "value" /\ c[i].at = 1) /\ calls[i].s \in checked
             /\ FrameOK(c[i])
  <2>1. CASE i = n
    <3>1. Len(ValuesOf(Top.s)) \in Nat
      BY <1>2, Grouped, LenProperties
    <3> QED
      BY <1>1, <1>2, <1>7, <2>1, <3>1, MarkedBelow DEF FrameOK
  <2>2. CASE i \in 1 .. n - 1
    BY <1>2, <1>7, <2>2, MarkedBelow DEF MarkInv, CallsInv
  <2> QED
    BY <1>2, <2>1, <2>2
<1>9. ASSUME NEW i \in 1 .. n PROVE Link(c[i], c[i + 1])
  <2>1. CASE i = n
    BY <1>1, <1>2, <1>4, <1>5, <1>7, <2>1 DEF Link, v
  <2>2. CASE i \in 1 .. n - 1
    <3>1. Link(calls[i], calls[i + 1])
      BY <1>2, <2>2 DEF MarkInv, CallsInv
    <3>2. c[i + 1].proc = calls[i + 1].proc /\ c[i + 1].s = calls[i + 1].s
      BY <1>2, <1>8, <2>2
    <3> QED
      BY <1>7, <2>2, <3>1, <3>2 DEF Link
  <2> QED
    BY <1>2, <2>1, <2>2
<1>10. Types'
  BY <1>1, <1>5, <1>6, GraphSame DEF MarkInv, Types
<1>11. CallsInv'
  <2>1. c[1].proc = "sym" => Single(c[1].s)
    BY <1>1, <1>2, <1>8 DEF MarkInv, CallsInv
  <2>2. ASSUME NEW i \in 1 .. n + 1 PROVE FrameOK(c[i])
    BY <1>2, <1>4, <1>5, <1>8
  <2> QED
    BY <1>1, <1>2, <1>5, <1>9, <2>1, <2>2, GraphSame DEF CallsInv
<1>12. StackInv'
  BY <1>1, <1>2, <1>4, <1>5, <1>6, <1>8 DEF StackInv
<1>13. MarksInv'
  <2>1. \A i \in n + 1 .. n + 1 : c[i] = g
    BY <1>2, <1>5
  <2>2. \A u : ~Marks(g, u)
    BY <1>3, <1>4 DEF Marks
  <2>3. v \in checked
    BY <1>2, <1>3, <1>8, Grouped DEF MarkInv, MarksInv, Group
  <2>4. \A s \in Nodes : s \in checked' <=> Group(s) \in checked'
    BY <1>1 DEF MarkInv, MarksInv
  <2> QED
    BY <1>1, <1>2, <1>3, <1>4, <1>5, <1>8, <2>1, <2>2, <2>3, <2>4, GrownMarks
<1> QED
  BY <1>10, <1>11, <1>12, <1>13 DEF MarkInv

\* A return, with what is left of the marks.
LEMMA ReturnMarks ==
  ASSUME MarkInv, calls # <<>>, Return,
         \A v \in Nodes : v \in check' <=> v \in check /\ ~Marks(Top, v),
         check' \subseteq check, sym2' \in Nodes \cup {Nobody},
         UNCHANGED <<graph, checked, next, yynerrs, unexpected>>
  PROVE  MarkInv'
<1> DEFINE n == Len(calls)
<1>1. n \in Nat \ {0} /\ Top = calls[n] /\ WellFormed
  BY TopFrame DEF MarkInv, Types
<1>2. /\ calls' \in Seq(Frames) /\ Len(calls') = n - 1
      /\ \A i \in 1 .. n - 1 : calls'[i] = calls[i]
  <2>1. calls \in Seq(Frames) /\ calls' = SubSeq(calls, 1, Len(calls) - 1)
    BY DEF MarkInv, Types, Return, Below
  <2> QED
    BY <2>1, PopSeq
<1>3. /\ stack' \in Seq(Nodes) /\ Len(stack') = n - 1
      /\ \A i \in 1 .. n - 1 : stack'[i] = stack[i]
  <2>1. stack \in Seq(Nodes) /\ stack' = SubSeq(stack, 1, Len(stack) - 1) /\ Len(stack) = n
    BY DEF MarkInv, Types, Return, StackInv
  <2>2. stack # <<>>
    BY <1>1, <2>1
  <2> QED
    BY <2>1, <2>2, PopSeq
<1>4. Types'
  BY <1>2, <1>3, GraphSame DEF MarkInv, Types
<1>5. CallsInv'
  <2>1. calls' # <<>> => n > 1 /\ calls'[1] = calls[1]
    BY <1>1, <1>2, EmptySeq
  <2> QED
    BY <1>1, <1>2, <2>1, GraphSame DEF MarkInv, CallsInv
<1>6. StackInv'
  BY <1>1, <1>2, <1>3 DEF MarkInv, StackInv
<1>7. MarksInv'
  <2>1. ASSUME NEW i \in 1 .. n - 1, NEW v \in Nodes, Marks(calls[i], v), Marks(Top, v)
        PROVE  FALSE
    <3>1. i \in 1 .. n /\ n \in 1 .. n /\ i # n
      BY <1>1
    <3>2. calls[i] \in Frames /\ calls[n] \in Frames /\ FrameOK(calls[i]) /\ FrameOK(Top)
      BY <1>1, <3>1, TopFrame DEF MarkInv, Types, CallsInv
    <3>3. calls[i].proc = Top.proc /\ calls[i].proc # "value" /\ calls[i].s = Top.s
      BY <1>1, <2>1, <3>2 DEF Marks, IsValue, Frames, WellFormed
    <3>4. ~IsValue(calls[i].s)
      BY <1>1, <2>1, <3>2, Grouped DEF Marks, FrameOK, Frames
    <3> QED
      BY <1>1, <3>1, <3>3, <3>4 DEF MarkInv, MarksInv
  <2>2. ASSUME NEW v \in Nodes
        PROVE  v \in check' <=> \E i \in 1 .. n - 1 : Marks(calls'[i], v)
    <3>1. v \in check <=> \E i \in 1 .. n : Marks(calls[i], v)
      BY DEF MarkInv, MarksInv
    <3>2. ASSUME v \in check' PROVE \E i \in 1 .. n - 1 : Marks(calls'[i], v)
      <4>1. PICK i \in 1 .. n : Marks(calls[i], v)
        BY <3>1, <3>2
      <4>2. i # n
        BY <1>1, <3>2, <4>1
      <4> QED
        BY <1>1, <1>2, <4>1, <4>2
    <3>3. ASSUME NEW i \in 1 .. n - 1, Marks(calls'[i], v) PROVE v \in check'
      <4>1. Marks(calls[i], v) /\ i \in 1 .. n
        BY <1>1, <1>2, <3>3
      <4> QED
        BY <2>1, <3>1, <4>1
    <3> QED
      BY <3>2, <3>3
  <2>3. \A i \in 1 .. n - 1 : i \in 1 .. n /\ calls'[i] = calls[i]
    BY <1>1, <1>2
  <2>4. \A i \in 1 .. n - 1 : calls'[i].s \notin checked' <=>
                              calls'[i].proc = "value" /\ calls'[i].at = 1
    BY <2>3 DEF MarkInv, MarksInv
  <2>5. ASSUME NEW i \in 1 .. n - 1, NEW j \in 1 .. n - 1,
               calls'[i].proc = calls'[j].proc, calls'[i].proc # "value",
               calls'[i].s = calls'[j].s, ~IsValue(calls'[i].s)
        PROVE  i = j
    BY <2>3, <2>5 DEF MarkInv, MarksInv
  <2>6. \A s \in Nodes : s \in checked' <=> Group(s) \in checked'
    BY DEF MarkInv, MarksInv
  <2> HIDE DEF n
  <2> QED
    BY <1>2, <2>2, <2>4, <2>5, <2>6, GraphSame DEF MarksInv
<1> QED
  BY <1>4, <1>5, <1>6, <1>7 DEF MarkInv

LEMMA LeaveSymMarks ==
  ASSUME MarkInv, LeaveSym
  PROVE  MarkInv'
<1>1. calls # <<>> /\ Top.proc = "sym" /\ Return
      /\ UNCHANGED <<graph, checked, sym2, next, yynerrs, unexpected>>
  BY DEF LeaveSym, In
<1>2. check' = IF IsValue(Top.s) THEN check ELSE check \ {Top.s}
  BY DEF LeaveSym
<1>3. \A v : Marks(Top, v) <=> Top.s = v /\ ~IsValue(v)
  BY <1>1 DEF Marks
<1>4. sym2 \in Nodes \cup {Nobody}
  BY DEF MarkInv, Types
<1> QED
  BY <1>1, <1>2, <1>3, <1>4, ReturnMarks

LEMMA LeaveChoiceMarks ==
  ASSUME MarkInv, LeaveChoice
  PROVE  MarkInv'
<1> DEFINE values == Range(ValuesOf(Top.s))
<1>1. /\ calls # <<>> /\ Top.proc = "choice" /\ Return
      /\ check' = check \ values
      /\ sym2' = IF sym2 \in values THEN Top.s ELSE sym2
      /\ UNCHANGED <<graph, checked, next, yynerrs, unexpected>>
  BY DEF LeaveChoice, In
<1>2. Top.s \in Nodes /\ WellFormed /\ sym2 \in Nodes \cup {Nobody}
  BY <1>1, TopFrame DEF MarkInv, Types
<1>3. \A v \in Nodes : Marks(Top, v) <=> v \in values
  BY <1>1, <1>2, Grouped DEF Marks
<1> QED
  BY <1>1, <1>2, <1>3, ReturnMarks

LEMMA LeaveValueMarks ==
  ASSUME MarkInv, LeaveValue
  PROVE  MarkInv'
<1>1. /\ calls # <<>> /\ Top.proc = "value" /\ Return
      /\ UNCHANGED <<graph, check, checked, sym2, next, yynerrs, unexpected>>
  BY DEF LeaveValue, In, marks
<1>2. \A v : ~Marks(Top, v)
  BY <1>1 DEF Marks
<1>3. sym2 \in Nodes \cup {Nobody}
  BY DEF MarkInv, Types
<1> QED
  BY <1>1, <1>2, <1>3, ReturnMarks

LEMMA MarksInit == WellFormed /\ SearchStart => MarkInv
<1> SUFFICES ASSUME WellFormed, SearchStart PROVE MarkInv
  OBVIOUS
<1>1. Len(calls) = 0 /\ calls = <<>> /\ Len(stack) = 0 /\ stack = <<>>
  BY DEF SearchStart
<1>2. Types
  <2>1. Len(graph.order) \in Nat
    BY LenProperties DEF WellFormed
  <2>2. calls \in Seq(Frames) /\ stack \in Seq(Nodes) /\ next \in 0 .. Len(graph.order)
    BY <1>1, <2>1, EmptySeq DEF SearchStart
  <2> QED
    BY <2>2 DEF Types, SearchStart
<1> QED
  BY <1>1, <1>2 DEF MarkInv, CallsInv, StackInv, MarksInv, SearchStart

LEMMA MarksNext == MarkInv /\ [SearchNext]_searchVars => MarkInv'
<1> SUFFICES ASSUME MarkInv, [SearchNext]_searchVars PROVE MarkInv'
  OBVIOUS
<1>1. next \in 0 .. Len(graph.order) /\ Len(graph.order) \in Nat
  BY LenProperties DEF MarkInv, Types, WellFormed
<1>2. CASE CheckRef
  BY <1>1, <1>2, CheckRefResumes, CheckDepsMarks DEF CheckRef
<1>3. CASE StartAtChoice
  BY <1>1, <1>3, StartAtChoiceResumes, CheckDepsMarks DEF StartAtChoice
<1>4. CASE CheckNext
  <2>1. next' \in 0 .. Len(graph.order)
    BY <1>1, <1>4 DEF CheckNext
  <2> QED
    BY <1>4, <2>1, CheckNextResumes, CheckDepsMarks DEF CheckNext
<1>5. CASE CountError
  <2>1. UNCHANGED <<graph, check, checked, stack, calls, next, unexpected>>
        /\ yynerrs' = TRUE /\ sym2' = Nobody
    BY <1>5 DEF CountError, marks
  <2> QED
    BY <2>1, GraphSame DEF MarkInv, Types, CallsInv, StackInv, MarksInv
<1>6. CASE UNCHANGED searchVars
  <2>1. UNCHANGED <<graph, check, checked, stack, calls, sym2, next, yynerrs, unexpected>>
    BY <1>6 DEF searchVars, marks
  <2> QED
    BY <2>1, GraphSame DEF MarkInv, Types, CallsInv, StackInv, MarksInv
<1> QED
  BY <1>2, <1>3, <1>4, <1>5, <1>6, CheckValueMarks, LeaveSymMarks, LeaveChoiceMarks,
     LeaveValueMarks DEF SearchNext

\* Whatever the declarations: between two searches nothing is marked SYMBOL_CHECK and
\* dep_stack is empty, and every cycle that is met stands in the stack to be printed.
THEOREM SearchLeavesNothing == SearchSpec => []SearchClean
<1>1. MarkInv => SearchClean
  <2> SUFFICES ASSUME MarkInv PROVE SearchClean
    OBVIOUS
  <2>1. ASSUME calls = <<>> PROVE check = {} /\ stack = <<>>
    <3>1. Len(calls) = 0 /\ stack \in Seq(Nodes) /\ Len(stack) = 0
      BY <2>1 DEF MarkInv, Types, StackInv
    <3>2. check \subseteq Nodes
      BY DEF MarkInv, Types
    <3> QED
      BY <3>1, <3>2, EmptySeq DEF MarkInv, MarksInv
  <2> QED
    BY <2>1 DEF SearchClean, MarkInv, Types
<1> QED
  BY <1>1, MarksInit, MarksNext, PTL DEF SearchSpec

-----------------------------------------------------------------------------
(* Part two: what is reported is a cycle.                                    *)

\* The call for a choice's own symbol or for a value comes from that for the choice.
LEMMA SymOfGroup ==
  ASSUME MarkInv, NEW i \in 1 .. Len(calls), calls[i].proc = "sym", ~Single(calls[i].s)
  PROVE  /\ i - 1 \in 1 .. Len(calls) /\ calls[i - 1].proc = "choice"
         /\ calls[i - 1].s = Group(calls[i].s)
         /\ calls[i - 1].at = 1 <=> ~IsValue(calls[i].s)
<1>1. /\ WellFormed /\ calls \in Seq(Frames) /\ Len(calls) \in Nat /\ calls # <<>>
      /\ calls[i].s \in Nodes
  <2>1. calls \in Seq(Frames) /\ WellFormed
    BY DEF MarkInv, Types
  <2>2. calls[i] \in Frames /\ Len(calls) \in Nat /\ Len(calls) # 0
    BY <2>1
  <2> QED
    BY <2>1, <2>2, EmptySeq DEF Frames
<1>2. i # 1
  BY <1>1 DEF MarkInv, CallsInv
<1> DEFINE f == calls[i - 1]
<1>3. i - 1 \in 1 .. Len(calls) /\ Link(f, calls[i]) /\ f \in Frames /\ FrameOK(f)
  <2>1. i - 1 \in 1 .. Len(calls) - 1 /\ i - 1 \in 1 .. Len(calls) /\ (i - 1) + 1 = i
    BY <1>1, <1>2
  <2> QED
    BY <1>1, <2>1 DEF MarkInv, CallsInv
<1> HIDE DEF f
<1>4. f.proc = "choice" /\ f.s \in Nodes /\ HasValues(f.s) /\ ValuesOf(f.s) \in Seq(Nodes)
  BY <1>1, <1>3, Grouped DEF Link, FrameOK, Frames
<1>5. CASE f.at = 1
  BY <1>1, <1>3, <1>4, <1>5, Grouped DEF Link, Group, f
<1>6. CASE f.at # 1
  <2>1. calls[i].s = ValuesOf(f.s)[f.at - 1] /\ f.at - 1 \in 1 .. Len(ValuesOf(f.s))
    BY <1>3, <1>4, <1>6 DEF Link, FrameOK, Frames
  <2>2. calls[i].s \in Range(ValuesOf(f.s))
    BY <1>4, <2>1, RangeOf
  <2>3. ChoiceOf(calls[i].s) = f.s
    BY <1>1, <1>4, <2>2, Grouped
  <2> QED
    BY <1>1, <1>3, <1>4, <1>6, <2>3 DEF Group, IsValue, f, WellFormed
<1> QED
  BY <1>5, <1>6

\* While its values are searched a choice is not marked.
LEMMA OwnChoiceUnmarked ==
  ASSUME MarkInv, In("sym"), IsValue(Top.s)
  PROVE  ChoiceOf(Top.s) \notin check
<1> SUFFICES ASSUME ChoiceOf(Top.s) \in check PROVE FALSE
  OBVIOUS
<1> DEFINE n == Len(calls)
           c == ChoiceOf(Top.s)
<1>1. /\ n \in Nat \ {0} /\ Top = calls[n] /\ Top.s \in Nodes /\ WellFormed
      /\ calls \in Seq(Frames) /\ Top.proc = "sym"
  BY TopFrame DEF In, MarkInv, Types
<1>2. c \in Nodes /\ HasValues(c) /\ ~IsValue(c) /\ ~Single(c) /\ Group(Top.s) = c
  BY <1>1, Grouped DEF IsValue, Single, Group, MarkInv, Types
<1>3. PICK i \in 1 .. n : Marks(calls[i], c)
  BY <1>2 DEF MarkInv, MarksInv
<1>4. calls[i].s \in Nodes
  <2>1. calls[i] \in Frames
    BY <1>1
  <2> QED
    BY <2>1 DEF Frames
<1>5. calls[i].proc = "sym" /\ calls[i].s = c
  BY <1>1, <1>2, <1>3, <1>4 DEF Marks, IsValue, WellFormed
<1>6. /\ i - 1 \in 1 .. n /\ calls[i - 1].proc = "choice"
      /\ calls[i - 1].s = c /\ calls[i - 1].at = 1
  BY <1>2, <1>5, SymOfGroup DEF Group
<1>7. /\ n - 1 \in 1 .. n /\ calls[n - 1].proc = "choice"
      /\ calls[n - 1].s = c /\ calls[n - 1].at # 1
  <2>1. n \in 1 .. n /\ ~Single(calls[n].s)
    BY <1>1 DEF Single
  <2> QED
    BY <1>1, <1>2, <2>1, SymOfGroup
<1>8. i - 1 = n - 1
  BY <1>2, <1>6, <1>7 DEF MarkInv, MarksInv
<1> QED
  BY <1>6, <1>7, <1>8

\* From each call up to the top there is one for a symbol of the same group.
LEMMA SymAbove ==
  ASSUME MarkInv, In("sym"), NEW i \in 1 .. Len(calls)
  PROVE  \E j \in i .. Len(calls) :
           calls[j].proc = "sym" /\ Group(calls[j].s) = Group(calls[i].s)
<1> DEFINE n == Len(calls)
<1>1. /\ n \in Nat \ {0} /\ calls[n].proc = "sym" /\ WellFormed /\ calls \in Seq(Frames)
  BY TopFrame DEF In, MarkInv, Types
<1>2. \A j \in 1 .. n : calls[j] \in Frames /\ FrameOK(calls[j]) /\ calls[j].s \in Nodes
  <2>1. \A j \in 1 .. n : calls[j] \in Frames /\ FrameOK(calls[j])
    BY <1>1 DEF MarkInv, CallsInv
  <2> QED
    BY <2>1 DEF Frames
<1>3. \A j \in 1 .. n : j < n => Link(calls[j], calls[j + 1]) /\ j + 1 \in 1 .. n
  BY <1>1 DEF MarkInv, CallsInv
<1>4. CASE calls[i].proc = "sym"
  BY <1>1, <1>4
<1>5. ASSUME NEW k \in i .. n, calls[k].proc = "choice", Group(calls[k].s) = Group(calls[i].s)
      PROVE  \E j \in i .. n : calls[j].proc = "sym" /\ Group(calls[j].s) = Group(calls[i].s)
  <2>1. k \in 1 .. n /\ k < n /\ k + 1 \in i .. n
    BY <1>1, <1>5
  <2>2. calls[k + 1].proc = "sym" /\ k + 1 \in 1 .. n
    BY <1>3, <1>5, <2>1 DEF Link
  <2>3. Group(calls[k + 1].s) = Group(calls[k].s)
    <3>1. CASE Single(calls[k + 1].s)
      <4>1. HasValues(calls[k].s) /\ Link(calls[k], calls[k + 1])
        BY <1>2, <1>3, <1>5, <2>1 DEF FrameOK
      <4>2. calls[k].at # 1 /\ calls[k + 1].s = ValuesOf(calls[k].s)[calls[k].at - 1]
        BY <1>5, <3>1, <4>1 DEF Link, Single
      <4>3. ValuesOf(calls[k].s) \in Seq(Nodes) /\ calls[k].s \in Nodes /\ calls[k + 1].s \in Nodes
        BY <1>1, <1>2, <2>1, <2>2, Grouped
      <4>4. calls[k].at - 1 \in 1 .. Len(ValuesOf(calls[k].s))
        BY <1>2, <1>5, <2>1, <4>2, <4>3 DEF FrameOK, Frames
      <4>5. calls[k + 1].s \in Range(ValuesOf(calls[k].s))
        BY <4>2, <4>3, <4>4, RangeOf
      <4>6. ChoiceOf(calls[k + 1].s) = calls[k].s
        BY <1>1, <4>3, <4>5, Grouped
      <4> QED
        BY <1>1, <3>1, <4>3, <4>6 DEF Single, IsValue, WellFormed
    <3>2. CASE ~Single(calls[k + 1].s)
      <4>1. (k + 1) - 1 = k
        BY <2>1
      <4>2. calls[k].s = Group(calls[k + 1].s)
        BY <2>2, <3>2, <4>1, SymOfGroup
      <4> QED
        BY <1>1, <1>2, <2>2, <4>2, Grouped
    <3> QED
      BY <3>1, <3>2
  <2> QED
    BY <1>5, <2>1, <2>2, <2>3
<1>6. CASE calls[i].proc = "choice"
  BY <1>1, <1>5, <1>6
<1>7. CASE calls[i].proc = "value"
  <2>1. i \in 1 .. n /\ i < n /\ i + 1 \in i .. n
    BY <1>1, <1>7
  <2>2. calls[i + 1].proc = "choice" /\ calls[i + 1].s = ChoiceOf(calls[i].s)
    BY <1>3, <1>7, <2>1 DEF Link
  <2>3. IsValue(calls[i].s) /\ calls[i].s \in Nodes
    BY <1>2, <1>7 DEF FrameOK
  <2>4. Group(calls[i + 1].s) = Group(calls[i].s)
    BY <1>1, <2>2, <2>3, Grouped DEF Group
  <2> QED
    BY <1>5, <2>1, <2>2, <2>4
<1> QED
  BY <1>2, <1>4, <1>6, <1>7 DEF Frames

\* The groups from where t stands in the stack depend on each other.
LEMMA CycleMet ==
  ASSUME MarkInv, In("sym"), NEW t \in Range(Refs(Top.s)), t \in check
  PROVE  Cyclic
<1> DEFINE n == Len(calls)
           G(i) == Group(calls[i].s)
<1>1. /\ n \in Nat \ {0} /\ Top = calls[n] /\ Top.s \in Nodes /\ WellFormed
      /\ calls \in Seq(Frames) /\ t \in Nodes
  BY TopFrame DEF In, MarkInv, Types
<1>2. \A j \in 1 .. n : calls[j].s \in Nodes /\ G(j) \in Nodes
  <2>1. \A j \in 1 .. n : calls[j] \in Frames
    BY <1>1
  <2> QED
    BY <1>1, <2>1, Grouped DEF Frames
<1>3. t # ChoiceOf(Top.s)
  BY <1>1, OwnChoiceUnmarked DEF IsValue, WellFormed
<1>4. PICK k \in 1 .. n : calls[k].s = Group(t)
  <2>1. PICK i \in 1 .. n : Marks(calls[i], t)
    BY <1>1 DEF MarkInv, MarksInv
  <2>2. Group(t) = calls[i].s
    BY <1>1, <1>2, <2>1 DEF Marks, Group, IsValue, WellFormed
  <2> QED
    BY <2>2
<1>5. G(k) = Group(t)
  BY <1>1, <1>4, Grouped
<1> DEFINE set == {G(i) : i \in k .. n}
<1>6. set \in SUBSET Nodes /\ set # {}
  BY <1>1, <1>2
<1>7. ASSUME NEW g \in set PROVE \E h \in set : Edge(g, h)
  <2>1. PICK i \in k .. n : g = G(i)
    OBVIOUS
  <2>2. i \in 1 .. n
    BY <1>1
  <2>3. PICK j \in i .. n : calls[j].proc = "sym" /\ G(j) = g
    BY <2>1, <2>2, SymAbove
  <2>4. j \in k .. n /\ j \in 1 .. n
    BY <1>1
  <2>5. CASE j = n
    <3>1. Edge(g, G(k))
      BY <1>1, <1>3, <1>5, <2>3, <2>5 DEF Edge
    <3> QED
      BY <1>1, <3>1
  <2>6. CASE j < n
    <3>1. Link(calls[j], calls[j + 1]) /\ j + 1 \in k .. n /\ j + 1 \in 1 .. n
      BY <1>1, <2>4, <2>6 DEF MarkInv, CallsInv
    <3>2. /\ calls[j].at > 1 /\ calls[j + 1].s = Refs(calls[j].s)[calls[j].at - 1]
          /\ calls[j + 1].s # ChoiceOf(calls[j].s)
      BY <2>3, <3>1 DEF Link
    <3>3. calls[j].at - 1 \in 1 .. Len(Refs(calls[j].s)) /\ Refs(calls[j].s) \in Seq(Nodes)
      <4>1. Refs(calls[j].s) \in Seq(Nodes)
        BY <1>1, <1>2, <2>4, Grouped
      <4>2. calls[j] \in Frames /\ FrameOK(calls[j])
        BY <1>1, <2>4 DEF MarkInv, CallsInv
      <4> QED
        BY <2>3, <3>2, <4>1, <4>2 DEF Frames, FrameOK
    <3>4. calls[j + 1].s \in Range(Refs(calls[j].s))
      BY <3>2, <3>3, RangeOf
    <3>5. Edge(g, G(j + 1))
      BY <1>2, <2>3, <2>4, <3>2, <3>4 DEF Edge
    <3> QED
      BY <3>1, <3>5
  <2> QED
    BY <1>1, <2>4, <2>5, <2>6
<1> QED
  BY <1>6, <1>7 DEF Cyclic, Recursive
LEMMA SoundNext == MarkInv /\ Sound /\ [SearchNext]_searchVars => Sound'
<1> SUFFICES ASSUME MarkInv, Sound, [SearchNext]_searchVars PROVE Sound'
  OBVIOUS
<1>1. UNCHANGED graph
  BY DEF SearchNext, CheckRef, LeaveSym, CheckValue, LeaveChoice, StartAtChoice, LeaveValue,
         CheckNext, CountError, searchVars
<1> SUFFICES ASSUME sym2 = Nobody, ~yynerrs, sym2' # Nobody \/ yynerrs' PROVE Cyclic
  BY <1>1, GraphSame DEF Sound
<1>2. check \subseteq checked /\ check \subseteq Nodes
  BY DEF MarkInv, Types
<1>3. ASSUME NEW t, NEW rest, CheckDeps(t, rest), UNCHANGED yynerrs PROVE t \in check
  BY <1>3 DEF CheckDeps
<1>4. CASE CheckRef
  <2>1. /\ In("sym") /\ Top.at <= Len(Refs(Top.s)) /\ Refs(Top.s)[Top.at] \in check
    BY <1>3, <1>4 DEF CheckRef
  <2>2. Top.at \in Nat \ {0} /\ Refs(Top.s) \in Seq(Nodes)
    BY <2>1, TopFrame, Grouped DEF In, MarkInv, Types
  <2>3. Refs(Top.s)[Top.at] \in Range(Refs(Top.s))
    BY <2>1, <2>2, RangeOf
  <2> QED
    BY <2>1, <2>3, CycleMet
<1>5. CASE StartAtChoice
  <2>1. In("value") /\ Top.at = 1 /\ ChoiceOf(Top.s) \in checked
    BY <1>2, <1>3, <1>5 DEF StartAtChoice
  <2>2. /\ Len(calls) \in 1 .. Len(calls) /\ Top = calls[Len(calls)] /\ Top.proc = "value"
        /\ Top.s \in Nodes /\ IsValue(Top.s)
    BY <2>1, TopFrame DEF In, FrameOK
  <2>3. Top.s \notin checked
    BY <2>1, <2>2 DEF MarkInv, MarksInv
  <2> QED
    BY <2>1, <2>2, <2>3 DEF MarkInv, MarksInv, Group
<1>6. CASE CheckNext
  <2>1. Len(calls) = 0 /\ graph.order[next + 1] \in check
    BY <1>3, <1>6, EmptySeq DEF CheckNext
  <2> QED
    BY <1>2, <2>1 DEF MarkInv, MarksInv
<1>7. CASE LeaveChoice
  <2>1. Top.s \in Nodes /\ WellFormed
    BY <1>7, TopFrame DEF LeaveChoice, In, MarkInv, Types
  <2>2. Nobody \notin Range(ValuesOf(Top.s))
    BY <2>1, Grouped, RangeOf
  <2> QED
    BY <1>7, <2>2 DEF LeaveChoice
<1> QED
  BY <1>4, <1>5, <1>6, <1>7 DEF SearchNext, LeaveSym, CheckValue, LeaveValue, CountError,
     searchVars

-----------------------------------------------------------------------------
(* Part two: what is finished has no cycle.                                  *)

DoneMembers ==
  \A h : h \in Done <=>
    /\ h \in checked /\ Group(h) = h
    /\ \A i \in 1 .. Len(calls) : calls[i].proc # "value" => Group(calls[i].s) # h

LEMMA DoneIs == MarkInv => DoneMembers
<1> SUFFICES ASSUME MarkInv, NEW h
             PROVE  h \in Done <=>
               /\ h \in checked /\ Group(h) = h
               /\ \A i \in 1 .. Len(calls) : calls[i].proc # "value" => Group(calls[i].s) # h
  BY DEF DoneMembers
<1>1. (\E s \in checked : Group(s) = h) <=> h \in checked /\ Group(h) = h
  BY Grouped DEF MarkInv, Types, MarksInv
<1> QED
  BY <1>1 DEF Done, Busy

\* More calls, and what they have marked: nothing new is finished.
LEMMA DoneKept ==
  ASSUME MarkInv, MarkInv', UNCHANGED graph, Len(calls) <= Len(calls'),
         \A i \in 1 .. Len(calls) : calls'[i].proc = calls[i].proc /\ calls'[i].s = calls[i].s,
         checked \subseteq checked',
         \A s \in checked' \ checked : Group(s) = s =>
           \E i \in Len(calls) + 1 .. Len(calls') : calls'[i].proc # "value" /\ calls'[i].s = s,
         \A i \in Len(calls) + 1 .. Len(calls') :
           calls'[i].proc # "value" => Group(calls'[i].s) \notin Done
  PROVE  Done' = Done
<1>1. Len(calls) \in Nat /\ Len(calls') \in Nat
  BY LenProperties DEF MarkInv, Types
<1>2. \A h : h \in Done' <=>
         /\ h \in checked' /\ Group(h) = h
         /\ \A i \in 1 .. Len(calls') : calls'[i].proc # "value" => Group(calls'[i].s) # h
  <2>1. DoneMembers'
    BY DoneIs, PTL
  <2> QED
    BY <2>1 DEF DoneMembers, Group, IsValue, ChoiceOf
<1>3. ASSUME NEW h \in Done' PROVE h \in Done
  <2>1. h \in checked
    BY <1>1, <1>2
  <2>2. \A i \in 1 .. Len(calls) : calls[i].proc # "value" => Group(calls[i].s) # h
    BY <1>1, <1>2
  <2> QED
    BY <1>2, <2>1, <2>2, DoneIs DEF DoneMembers
<1>4. ASSUME NEW h \in Done PROVE h \in Done'
  <2>1. h \in checked /\ Group(h) = h
    BY DoneIs DEF DoneMembers
  <2>2. ASSUME NEW i \in 1 .. Len(calls'), calls'[i].proc # "value"
        PROVE  Group(calls'[i].s) # h
    <3>1. CASE i \in 1 .. Len(calls)
      BY <2>2, <3>1, DoneIs DEF DoneMembers
    <3>2. CASE i \in Len(calls) + 1 .. Len(calls')
      BY <2>2, <3>2
    <3> QED
      BY <1>1, <3>1, <3>2
  <2> QED
    BY <1>2, <2>1, <2>2
<1> QED
  BY <1>3, <1>4

LEMMA Ranges ==
  ASSUME NEW a \in Nat, NEW b \in Nat
  PROVE  /\ \A m \in a .. b : m = a \/ m \in a + 1 .. b
         /\ \A k \in 1 .. a : k = a \/ k \in 1 .. a - 1
         /\ \A m \in 1 .. b : m \in 1 .. a - 1 \/ m = a \/ m \in a + 1 .. b
         /\ (a + 1) - 1 = a
  OBVIOUS

LEMMA FrameDoneMore ==
  ASSUME NEW f, NEW top, NEW set, NEW more, set \subseteq more, FrameDone(f, top, set)
  PROVE  FrameDone(f, top, more)
  BY DEF FrameDone, RefSettled, Settled

\* A call is made: nothing more is done with.
LEMMA FrameCalls ==
  ASSUME NEW f \in Frames, NEW g, NEW set, FrameDone(f, TRUE, set),
         g.proc = f.proc, g.s = f.s, g.at = f.at + 1
  PROVE  FrameDone(g, FALSE, set)
<1>1. f.at \in Nat \ {0} /\ Left(f, TRUE) = f.at /\ Left(g, FALSE) = f.at
  BY DEF Frames, Left
<1>2. \A k : RefSettled(f, TRUE, k, set) <=> RefSettled(g, FALSE, k, set)
  BY <1>1 DEF RefSettled
<1> QED
  BY <1>1, <1>2 DEF FrameDone

LEMMA FrameNew ==
  ASSUME NEW s, NEW set
  PROVE  /\ FrameDone(Frame("sym", s), TRUE, set)
         /\ FrameDone(Frame("choice", s), FALSE, set)
         /\ FrameDone(Frame("value", s), TRUE, set)
  BY DEF FrameDone, Frame, Left

\* The call g returns to f.
LEMMA FrameReturned ==
  ASSUME WellFormed, NEW f \in Frames, FrameOK(f), NEW g, g.s \in Nodes, Link(f, g),
         NEW set, NEW more, set \subseteq more, FrameDone(f, FALSE, set),
         f.proc = "sym" => Group(g.s) \in more,
         f.proc = "choice" => Settled(g.s, more),
         f.proc = "value" => g.s \in more
  PROVE  FrameDone(f, TRUE, more)
<1>1. /\ f.at \in Nat \ {0} /\ Left(f, TRUE) = f.at /\ Left(f, FALSE) = f.at - 1
      /\ f.s \in Nodes /\ Refs(f.s) \in Seq(Nodes) /\ Len(Refs(f.s)) \in Nat
      /\ f.at - 1 \in Nat /\ (f.at - 1) + 1 = f.at
      /\ FrameDone(f, FALSE, more)
  <2>1. f.at \in Nat \ {0} /\ f.s \in Nodes
    BY DEF Frames
  <2>2. Refs(f.s) \in Seq(Nodes) /\ Len(Refs(f.s)) \in Nat
    BY <2>1, Grouped, LenProperties
  <2>3. FrameDone(f, FALSE, more)
    BY FrameDoneMore
  <2>4. Left(f, TRUE) = f.at /\ Left(f, FALSE) = f.at - 1
    BY DEF Left
  <2>5. f.at - 1 \in Nat /\ (f.at - 1) + 1 = f.at
    BY <2>1
  <2> QED
    BY <2>1, <2>2, <2>3, <2>4, <2>5
<1>2. ASSUME f.proc = "sym", NEW k \in 1 .. f.at - 1 PROVE RefSettled(f, TRUE, k, more)
  <2>1. g.s = Refs(f.s)[f.at - 1] /\ f.at - 1 \in 1 .. Len(Refs(f.s))
    BY <1>1, <1>2 DEF Link, FrameOK
  <2>2. CASE k = f.at - 1
    BY <1>2, <2>1, <2>2 DEF RefSettled
  <2>3. CASE k \in 1 .. (f.at - 1) - 1
    <3>1. k \in 1 .. (f.at - 1) - 1 /\ k \in 1 .. Len(Refs(f.s)) /\ Refs(f.s)[k] \in Nodes
      BY <1>1, <2>1, <2>3
    <3>2. RefSettled(f, FALSE, k, more)
      BY <1>1, <1>2, <3>1 DEF FrameDone
    <3>3. ASSUME NEW m \in f.at - 1 .. Len(Refs(f.s)), ChoiceOf(Refs(f.s)[m]) = Refs(f.s)[k],
                 HasValues(Refs(f.s)[k])
          PROVE  RefSettled(f, TRUE, k, more)
      <4>1. CASE m = f.at - 1
        <5>1. Refs(f.s)[k] = Group(g.s)
          BY <2>1, <3>1, <3>3, <4>1 DEF Group, IsValue, WellFormed
        <5>2. Group(Refs(f.s)[k]) \in more
          BY <1>2, <5>1, Grouped
        <5> QED
          BY <5>2 DEF RefSettled
      <4>2. CASE m \in f.at .. Len(Refs(f.s))
        BY <1>1, <3>3, <4>2 DEF RefSettled
      <4>3. m = f.at - 1 \/ m \in f.at .. Len(Refs(f.s))
        BY <1>1, <3>3, Ranges
      <4> QED
        BY <4>1, <4>2, <4>3
    <3> QED
      BY <1>1, <3>2, <3>3 DEF RefSettled
  <2>4. k = f.at - 1 \/ k \in 1 .. (f.at - 1) - 1
    BY <1>1, <1>2, Ranges
  <2> QED
    BY <2>2, <2>3, <2>4
<1>3. ASSUME f.proc = "choice"
      PROVE  Settled(f.s, more) /\ \A k \in 1 .. f.at - 1 : Settled(ValuesOf(f.s)[k], more)
  <2>1. g.s = IF f.at = 1 THEN f.s ELSE ValuesOf(f.s)[f.at - 1]
    BY <1>3 DEF Link
  <2>2. /\ f.at > 1 => Settled(f.s, more)
        /\ \A k \in 1 .. (f.at - 1) - 1 : Settled(ValuesOf(f.s)[k], more)
    BY <1>1, <1>3 DEF FrameDone
  <2>3. ASSUME NEW k \in 1 .. f.at - 1 PROVE Settled(ValuesOf(f.s)[k], more)
    <3>1. CASE k = f.at - 1
      BY <1>1, <1>3, <2>1, <3>1
    <3>2. CASE k \in 1 .. (f.at - 1) - 1
      BY <2>2, <3>2
    <3>3. k = f.at - 1 \/ k \in 1 .. (f.at - 1) - 1
      BY <1>1, <2>3, Ranges
    <3> QED
      BY <3>1, <3>2, <3>3
  <2>4. Settled(f.s, more)
    BY <1>1, <1>3, <2>1, <2>2
  <2> QED
    BY <2>3, <2>4
<1>4. ASSUME f.proc = "value" PROVE ChoiceOf(f.s) \in more
  BY <1>4 DEF Link
<1> QED
  BY <1>1, <1>2, <1>3, <1>4 DEF FrameDone

\* The next symbol f names has been searched or is a choice whose values are searched.
LEMMA FramePassed ==
  ASSUME WellFormed, NEW f \in Frames, NEW g, f.proc = "sym", f.at <= Len(Refs(f.s)),
         g.proc = "sym", g.s = f.s, g.at = f.at + 1,
         NEW set, FrameDone(f, TRUE, set),
         NEW t, t = Refs(f.s)[f.at],
         Group(t) \in set \/ (HasValues(t) /\ t # f.s)
  PROVE  FrameDone(g, TRUE, set)
<1> DEFINE refs == Refs(f.s)
<1>1. /\ f.at \in Nat \ {0} /\ Left(f, TRUE) = f.at /\ Left(g, TRUE) = f.at + 1
      /\ f.s \in Nodes /\ refs \in Seq(Nodes) /\ Len(refs) \in Nat
  BY Grouped, LenProperties DEF Frames, Left
<1>2. /\ t \in Nodes /\ t \in Range(refs) /\ Range(refs) \subseteq Nodes
      /\ \A k \in 1 .. Len(refs) : refs[k] \in Nodes
  BY <1>1, RangeOf
<1>3. \A k \in 1 .. f.at - 1 : RefSettled(f, TRUE, k, set)
  BY <1>1 DEF FrameDone
<1>4. ASSUME NEW k \in 1 .. f.at - 1 PROVE RefSettled(g, TRUE, k, set)
  <2>1. k \in 1 .. Len(refs) /\ refs[k] \in Nodes
    BY <1>1, <1>2
  <2>2. ASSUME NEW m \in f.at .. Len(refs), ChoiceOf(refs[m]) = refs[k], HasValues(refs[k])
        PROVE  RefSettled(g, TRUE, k, set)
    <3>1. CASE m = f.at
      <4>1. IsValue(t) /\ Group(t) = refs[k]
        BY <2>1, <2>2, <3>1 DEF IsValue, Group, WellFormed
      <4>2. Group(refs[k]) \in set
        BY <1>2, <4>1, Grouped
      <4> QED
        BY <4>2 DEF RefSettled
    <3>2. CASE m \in f.at + 1 .. Len(refs)
      BY <1>1, <2>2, <3>2 DEF RefSettled
    <3>3. m = f.at \/ m \in f.at + 1 .. Len(refs)
      BY <1>1, <2>2, Ranges
    <3> QED
      BY <3>1, <3>2, <3>3
  <2> QED
    BY <1>1, <1>3, <2>2 DEF RefSettled
<1>5. RefSettled(g, TRUE, f.at, set)
  <2>1. CASE Group(t) \in set \/ t = ChoiceOf(f.s)
    BY <2>1 DEF RefSettled
  <2>2. CASE HasValues(t) /\ t # f.s /\ t # ChoiceOf(f.s)
    <3>1. PICK v \in Range(refs) \cap Range(ValuesOf(t)) : TRUE
      BY <1>1, <1>2, <2>2 DEF WellFormed, ChoicesLinked
    <3>2. v \in Nodes /\ ChoiceOf(v) = t /\ IsValue(v) /\ ~HasValues(v) /\ Group(v) = t
      BY <1>2, <3>1, Grouped DEF IsValue, Group
    <3>3. PICK m \in 1 .. Len(refs) : refs[m] = v
      BY <1>1, <3>1, RangeOf
    <3>4. CASE m \in f.at + 1 .. Len(refs)
      BY <1>1, <2>2, <3>2, <3>3, <3>4 DEF RefSettled
    <3>5. CASE m = f.at
      BY <2>2, <3>2, <3>3, <3>5
    <3>6. CASE m \in 1 .. f.at - 1
      <4>1. RefSettled(f, TRUE, m, set)
        BY <1>3, <3>6
      <4>2. v # ChoiceOf(f.s)
        BY <1>1, <1>2, <3>2, Grouped DEF IsValue, WellFormed
      <4>3. Group(v) \in set
        BY <3>2, <3>3, <4>1, <4>2 DEF RefSettled
      <4> QED
        BY <1>2, <3>2, <4>3, Grouped DEF RefSettled
    <3>7. m \in 1 .. f.at - 1 \/ m = f.at \/ m \in f.at + 1 .. Len(refs)
      BY <1>1, <3>3, Ranges
    <3> QED
      BY <3>4, <3>5, <3>6, <3>7
  <2> QED
    BY <2>1, <2>2
<1>6. ASSUME NEW k \in 1 .. (f.at + 1) - 1 PROVE RefSettled(g, TRUE, k, set)
  <2>1. k = f.at \/ k \in 1 .. f.at - 1
    BY <1>1, <1>6, Ranges
  <2> QED
    BY <1>4, <1>5, <2>1
<1> QED
  BY <1>1, <1>6 DEF FrameDone

\* A symbol that is passed over has been searched, or is a choice.
LEMMA PassedOver ==
  ASSUME MarkInv, NEW t \in checked \ check
  PROVE  Group(t) \in Done \/ HasValues(t)
<1> SUFFICES ASSUME ~HasValues(t), Group(t) \notin Done PROVE FALSE
  OBVIOUS
<1>1. /\ t \in Nodes /\ WellFormed /\ calls \in Seq(Frames)
      /\ Group(t) \in checked /\ Group(Group(t)) = Group(t)
  BY Grouped DEF MarkInv, Types, MarksInv
<1>2. PICK i \in 1 .. Len(calls) : calls[i].proc # "value" /\ Group(calls[i].s) = Group(t)
  BY <1>1, DoneIs DEF DoneMembers
<1>3. ~ \E k \in 1 .. Len(calls) : Marks(calls[k], t)
  BY <1>1 DEF MarkInv, MarksInv
<1>4. calls[i] \in Frames /\ FrameOK(calls[i]) /\ calls[i].s \in Nodes
  <2>1. calls[i] \in Frames /\ FrameOK(calls[i])
    BY <1>1 DEF MarkInv, CallsInv
  <2> QED
    BY <2>1 DEF Frames
<1>5. CASE calls[i].proc = "choice"
  <2>1. Group(calls[i].s) = calls[i].s /\ HasValues(calls[i].s)
    BY <1>1, <1>4, <1>5, Grouped DEF FrameOK, Group
  <2>2. IsValue(t) /\ ChoiceOf(t) = calls[i].s
    BY <1>2, <2>1 DEF Group
  <2> QED
    BY <1>3, <1>5, <2>2 DEF Marks
<1>6. CASE calls[i].proc = "sym" /\ Single(calls[i].s)
  <2>1. Group(calls[i].s) = calls[i].s /\ ~IsValue(calls[i].s)
    BY <1>6 DEF Single, Group
  <2>2. t = calls[i].s
    BY <1>1, <1>2, <1>4, <1>6, <2>1, Grouped
  <2> QED
    BY <1>3, <1>6, <2>1, <2>2 DEF Marks
<1>7. CASE calls[i].proc = "sym" /\ ~Single(calls[i].s)
  <2>1. /\ i - 1 \in 1 .. Len(calls) /\ calls[i - 1].proc = "choice"
        /\ calls[i - 1].s = Group(t)
    BY <1>2, <1>7, SymOfGroup
  <2>2. HasValues(Group(t))
    BY <2>1 DEF MarkInv, CallsInv, FrameOK
  <2>3. IsValue(t) /\ ChoiceOf(t) = Group(t)
    BY <2>2 DEF Group
  <2> QED
    BY <1>3, <2>1, <2>3 DEF Marks
<1> QED
  BY <1>2, <1>4, <1>5, <1>6, <1>7 DEF Frames

\* One more group, which depends on finished ones only, has no cycle either.
LEMMA OneMore ==
  ASSUME NEW set \in SUBSET Nodes, NEW c \in Nodes, c \notin set,
         \A g \in set, h \in Nodes : Edge(g, h) => h \in set,
         \A s \in SUBSET set : ~Recursive(s),
         \A h \in Nodes : Edge(c, h) => h \in set,
         NEW more, more = set \cup {c}
  PROVE  /\ \A g \in more, h \in Nodes : Edge(g, h) => h \in more
         /\ \A s \in SUBSET more : ~Recursive(s)
<1>1. \A g \in more, h \in Nodes : Edge(g, h) => h \in more
  OBVIOUS
<1>2. ASSUME NEW s \in SUBSET more, Recursive(s) PROVE FALSE
  <2>1. s # {} /\ \A g \in s : \E h \in s : Edge(g, h)
    BY <1>2 DEF Recursive
  <2>2. \A g \in s : \E h \in s \ {c} : Edge(g, h)
    BY <2>1
  <2>3. s \ {c} \in SUBSET set /\ s \ {c} # {}
    BY <2>1, <2>2
  <2>4. Recursive(s \ {c})
    BY <2>2, <2>3 DEF Recursive
  <2> QED
    BY <2>3, <2>4
<1> QED
  BY <1>1, <1>2

LEMMA DoneNow ==
  ASSUME UNCHANGED graph,
         \A g \in Done', h \in Nodes : Edge(g, h) => h \in Done',
         \A set \in SUBSET Done' : ~Recursive(set),
         \A i \in 1 .. Len(calls') - 1 : FrameDone(calls'[i], FALSE, Done'),
         calls' # <<>> => FrameDone(calls'[Len(calls')], TRUE, Done')
  PROVE  DoneInv'
<1>1. \A g \in Done', h \in Nodes' : Edge(g, h)' => h \in Done'
  BY GraphSame
<1>2. \A set \in SUBSET Done' : ~Recursive(set)'
  BY GraphSame
<1>3. \A f, top, set : FrameDone(f, top, set)' <=> FrameDone(f, top, set)
  BY GraphSame
<1> QED
  BY <1>1, <1>2, <1>3 DEF DoneInv, Top

\* Calls are made, and nothing is finished.
LEMMA PushDone ==
  ASSUME MarkInv, DoneInv, UNCHANGED graph, Done' = Done,
         calls' \in Seq(Frames), Len(calls) < Len(calls'),
         \A i \in 1 .. Len(calls) - 1 : calls'[i] = calls[i],
         calls # <<>> => LET g == calls'[Len(calls)] IN
                         g.proc = Top.proc /\ g.s = Top.s /\ g.at = Top.at + 1,
         \A i \in Len(calls) + 1 .. Len(calls') - 1 : FrameDone(calls'[i], FALSE, Done),
         FrameDone(calls'[Len(calls')], TRUE, Done)
  PROVE  DoneInv'
<1> DEFINE n == Len(calls)
           m == Len(calls')
<1>1. n \in Nat /\ m \in Nat /\ n < m
  BY LenProperties DEF MarkInv, Types
<1>2. ASSUME NEW i \in 1 .. m - 1 PROVE FrameDone(calls'[i], FALSE, Done)
  <2>1. CASE i \in 1 .. n - 1
    BY <2>1 DEF DoneInv
  <2>2. CASE i = n
    <3>1. calls # <<>>
      BY <1>1, <1>2, <2>2
    <3>2. Top \in Frames /\ FrameDone(Top, TRUE, Done)
      BY <3>1, TopFrame DEF DoneInv
    <3> QED
      BY <2>2, <3>1, <3>2, FrameCalls
  <2>3. CASE i \in n + 1 .. m - 1
    BY <2>3
  <2>4. i \in 1 .. n - 1 \/ i = n \/ i \in n + 1 .. m - 1
    BY <1>1, <1>2
  <2> QED
    BY <2>1, <2>2, <2>3, <2>4
<1> QED
  BY <1>2, DoneNow DEF DoneInv

LEMMA ResumedCalls ==
  ASSUME MarkInv, NEW t, NEW rest, Resumes(t, rest)
  PROVE  /\ Len(calls) \in Nat /\ t \in Nodes /\ WellFormed
         /\ rest \in Seq(Frames) /\ Len(rest) = Len(calls)
         /\ \A i \in 1 .. Len(calls) :
              rest[i].proc = calls[i].proc /\ rest[i].s = calls[i].s
         /\ \A i \in 1 .. Len(calls) - 1 : rest[i] = calls[i]
         /\ calls # <<>> => LET g == rest[Len(calls)] IN
                            g.proc = Top.proc /\ g.s = Top.s /\ g.at = Top.at + 1
<1>1. Len(calls) \in Nat /\ WellFormed
  BY LenProperties DEF MarkInv, Types
<1>2. \A i \in 1 .. Len(calls) : rest[i].proc = calls[i].proc /\ rest[i].s = calls[i].s
  BY ResumedFrames
<1> QED
  BY <1>1, <1>2 DEF Resumes

\* A search goes into a symbol that has not been searched.
LEMMA EnterDone ==
  ASSUME MarkInv, MarkInv', DoneInv, UNCHANGED graph,
         NEW t, NEW rest, Resumes(t, rest), t \notin checked,
         \/ IsValue(t) /\ Call("value", t, rest) /\ UNCHANGED marks
         \/ ~IsValue(t) /\ HasValues(t) /\ CheckChoice(t, rest)
         \/ ~IsValue(t) /\ ~HasValues(t) /\ Mark({t}) /\ Call("sym", t, rest)
  PROVE  DoneInv'
<1> DEFINE n == Len(calls)
<1>1. /\ n \in Nat /\ t \in Nodes /\ WellFormed /\ rest \in Seq(Frames) /\ Len(rest) = n
      /\ \A i \in 1 .. n : rest[i].proc = calls[i].proc /\ rest[i].s = calls[i].s
      /\ \A i \in 1 .. n - 1 : rest[i] = calls[i]
      /\ calls # <<>> => LET g == rest[n] IN
                         g.proc = Top.proc /\ g.s = Top.s /\ g.at = Top.at + 1
  BY ResumedCalls
<1>2. \A proc \in {"sym", "choice", "value"} :
        /\ Frame(proc, t) \in Frames
        /\ Frame(proc, t).proc = proc /\ Frame(proc, t).s = t
  BY <1>1 DEF Frame, Frames
<1>3. t \notin Done /\ (~IsValue(t) => Group(t) = t)
  BY DoneIs DEF DoneMembers, Group
<1>4. n \in 1 .. n \/ calls = <<>>
  BY <1>1, EmptySeq DEF MarkInv, Types
<1>5. CASE IsValue(t) /\ Call("value", t, rest) /\ UNCHANGED marks
  <2> DEFINE g == Frame("value", t)
  <2>1. calls' = Append(rest, g) /\ g \in Frames /\ g.proc = "value"
    BY <1>2, <1>5 DEF Call
  <2>2. FrameDone(g, TRUE, Done)
    BY FrameNew
  <2> HIDE DEF g
  <2>3. /\ calls' \in Seq(Frames) /\ Len(calls') = n + 1
        /\ \A i \in 1 .. n : calls'[i] = rest[i]
        /\ calls'[n + 1] = g
    BY <1>1, <2>1, PushOne
  <2>4. checked' = checked /\ \A i \in n + 1 .. n + 1 : i = n + 1
    BY <1>1, <1>5 DEF marks
  <2>5. Done' = Done
    BY <1>1, <2>1, <2>3, <2>4, DoneKept
  <2>6. \A i \in n + 1 .. Len(calls') - 1 : FALSE
    BY <1>1, <2>3
  <2>7. \A i \in 1 .. n - 1 : calls'[i] = calls[i]
    BY <1>1, <2>3
  <2>8. calls # <<>> => calls'[n] = rest[n]
    BY <1>4, <2>3
  <2>9. n < Len(calls')
    BY <1>1, <2>3
  <2> QED
    BY <1>1, <2>2, <2>3, <2>5, <2>6, <2>7, <2>8, <2>9, PushDone
<1>6. CASE ~IsValue(t) /\ ~HasValues(t) /\ Mark({t}) /\ Call("sym", t, rest)
  <2> DEFINE g == Frame("sym", t)
  <2>1. calls' = Append(rest, g) /\ g \in Frames /\ g.s = t /\ g.proc = "sym"
    BY <1>2, <1>6 DEF Call
  <2>2. FrameDone(g, TRUE, Done)
    BY FrameNew
  <2> HIDE DEF g
  <2>3. /\ calls' \in Seq(Frames) /\ Len(calls') = n + 1
        /\ \A i \in 1 .. n : calls'[i] = rest[i]
        /\ calls'[n + 1] = g
    BY <1>1, <2>1, PushOne
  <2>4. checked' = checked \cup {t} /\ \A i \in n + 1 .. n + 1 : i = n + 1
    BY <1>1, <1>6 DEF Mark
  <2>5. Done' = Done
    <3>1. n + 1 \in n + 1 .. n + 1
      BY <1>1
    <3> QED
      BY <1>1, <1>3, <1>6, <2>1, <2>3, <2>4, <3>1, DoneKept
  <2>6. \A i \in n + 1 .. Len(calls') - 1 : FALSE
    BY <1>1, <2>3
  <2>7. \A i \in 1 .. n - 1 : calls'[i] = calls[i]
    BY <1>1, <2>3
  <2>8. calls # <<>> => calls'[n] = rest[n]
    BY <1>4, <2>3
  <2>9. n < Len(calls')
    BY <1>1, <2>3
  <2> QED
    BY <1>1, <2>2, <2>3, <2>5, <2>6, <2>7, <2>8, <2>9, PushDone
<1>7. CASE ~IsValue(t) /\ HasValues(t) /\ CheckChoice(t, rest)
  <2> DEFINE a == Frame("choice", t)
             b == Frame("sym", t)
  <2>1. /\ calls' = rest \o <<a, b>> /\ a \in Frames /\ b \in Frames
        /\ a.s = t /\ b.s = t /\ b.proc = "sym"
        /\ checked' = checked \cup Range(ValuesOf(t)) \cup {t}
    BY <1>2, <1>7 DEF CheckChoice, Mark
  <2>2. FrameDone(a, FALSE, Done) /\ FrameDone(b, TRUE, Done)
    BY FrameNew
  <2> HIDE DEF a, b
  <2>3. /\ calls' \in Seq(Frames) /\ Len(calls') = n + 2
        /\ \A i \in 1 .. n : calls'[i] = rest[i]
        /\ calls'[n + 1] = a /\ calls'[n + 2] = b
    BY <1>1, <2>1, PushTwo
  <2>4. \A i \in n + 1 .. n + 2 : calls'[i].s = t
    <3>1. \A i \in n + 1 .. n + 2 : i = n + 1 \/ i = n + 2
      BY <1>1
    <3> QED
      BY <2>1, <2>3, <3>1
  <2>5. Done' = Done
    <3>1. n + 2 \in n + 1 .. n + 2
      BY <1>1
    <3>2. ASSUME NEW s \in checked' \ checked, Group(s) = s PROVE s = t
      <4>1. ASSUME s \in Range(ValuesOf(t)) PROVE Group(s) = t
        BY <1>1, <4>1, Grouped, RangeOf DEF Group, IsValue, WellFormed
      <4> QED
        BY <2>1, <3>2, <4>1
    <3>3. Len(calls) <= Len(calls')
      BY <1>1, <2>3
    <3>4. \A i \in Len(calls) + 1 .. Len(calls') : Group(calls'[i].s) \notin Done
      BY <1>3, <1>7, <2>3, <2>4
    <3>5. \A s \in checked' \ checked : Group(s) = s =>
           \E i \in Len(calls) + 1 .. Len(calls') : calls'[i].proc # "value" /\ calls'[i].s = s
      BY <2>1, <2>3, <3>1, <3>2
    <3>6. \A i \in 1 .. Len(calls) :
            calls'[i].proc = calls[i].proc /\ calls'[i].s = calls[i].s
      BY <1>1, <2>3
    <3>7. checked \subseteq checked'
      BY <2>1
    <3> QED
      BY <3>3, <3>4, <3>5, <3>6, <3>7, DoneKept
  <2>6. \A i \in n + 1 .. Len(calls') - 1 : FrameDone(calls'[i], FALSE, Done)
    <3>1. \A i \in n + 1 .. Len(calls') - 1 : i = n + 1
      BY <1>1, <2>3
    <3> QED
      BY <2>2, <2>3, <3>1
  <2>7. \A i \in 1 .. n - 1 : calls'[i] = calls[i]
    BY <1>1, <2>3
  <2>8. calls # <<>> => calls'[n] = rest[n]
    BY <1>4, <2>3
  <2>9. n < Len(calls')
    BY <1>1, <2>3
  <2> QED
    BY <1>1, <2>2, <2>3, <2>5, <2>6, <2>7, <2>8, <2>9, PushDone
<1> QED
  BY <1>5, <1>6, <1>7

\* A search passes over what has been searched.
LEMMA PassDone ==
  ASSUME MarkInv, MarkInv', DoneInv, UNCHANGED <<graph, checked>>,
         NEW t, NEW rest, Resumes(t, rest), t \in checked \ check, calls' = rest
  PROVE  DoneInv'
<1> DEFINE n == Len(calls)
<1>1. /\ n \in Nat /\ t \in Nodes /\ WellFormed /\ rest \in Seq(Frames) /\ Len(rest) = n
      /\ \A i \in 1 .. n : rest[i].proc = calls[i].proc /\ rest[i].s = calls[i].s
      /\ \A i \in 1 .. n - 1 : rest[i] = calls[i]
  BY ResumedCalls
<1>2. Done' = Done
  <2>1. \A i \in n + 1 .. n : FALSE
    BY <1>1
  <2> QED
    BY <1>1, <2>1, DoneKept
<1>3. \A i \in 1 .. n - 1 : FrameDone(calls'[i], FALSE, Done)
  BY <1>1 DEF DoneInv
<1>4. ASSUME calls' # <<>> PROVE FrameDone(calls'[n], TRUE, Done)
  <2>1. n \in 1 .. n /\ calls # <<>> /\ Top = calls[n]
    BY <1>1, <1>4, EmptySeq DEF Top
  <2>2. Top \in Frames /\ FrameOK(Top) /\ Top.s \in Nodes /\ FrameDone(Top, TRUE, Done)
    BY <2>1, TopFrame DEF DoneInv
  <2>3. Top.proc = "sym"
    <3>1. ASSUME Top.proc = "value", Top.at = 1, t = ChoiceOf(Top.s) PROVE FALSE
      <4>1. Top.s \notin checked
        BY <2>1, <3>1 DEF MarkInv, MarksInv
      <4>2. Group(Top.s) = t
        BY <2>2, <3>1 DEF FrameOK, Group
      <4> QED
        BY <2>2, <4>1, <4>2 DEF MarkInv, MarksInv
    <3> QED
      BY <2>1, <3>1 DEF Resumes
  <2>4. Top.at <= Len(Refs(Top.s)) /\ t = Refs(Top.s)[Top.at]
    BY <2>1, <2>3 DEF Resumes
  <2>5. ASSUME HasValues(t), t = Top.s PROVE FALSE
    <3>1. Marks(calls[n], t)
      BY <1>1, <2>1, <2>3, <2>5, Grouped DEF Marks
    <3> QED
      BY <1>1, <2>1, <3>1 DEF MarkInv, MarksInv
  <2>6. Group(t) \in Done \/ (HasValues(t) /\ t # Top.s)
    BY <2>5, PassedOver
  <2>7. rest[n].proc = Top.proc /\ rest[n].s = Top.s /\ rest[n].at = Top.at + 1
    BY <2>1 DEF Resumes
  <2> QED
    BY <1>1, <2>2, <2>3, <2>4, <2>6, <2>7, FramePassed
<1> QED
  BY <1>1, <1>2, <1>3, <1>4, DoneNow DEF DoneInv

\* After a return only the group of the symbol it was for may be finished.
LEMMA Returned ==
  ASSUME MarkInv, MarkInv', calls # <<>>, Return, UNCHANGED <<graph, checked>>
  PROVE  /\ Len(calls) \in Nat \ {0} /\ Len(calls') = Len(calls) - 1
         /\ \A i \in 1 .. Len(calls) - 1 : calls'[i] = calls[i]
         /\ Done \subseteq Done' /\ Done' \subseteq Done \cup {Group(Top.s)}
         /\ Top.proc = "value" => Done' = Done
         /\ \A h : h \in Done' <=>
              /\ h \in checked /\ Group(h) = h
              /\ \A i \in 1 .. Len(calls) - 1 :
                   calls[i].proc # "value" => Group(calls[i].s) # h
<1> DEFINE n == Len(calls)
<1>1. n \in Nat \ {0} /\ Top = calls[n]
  BY TopFrame
<1>2. Len(calls') = n - 1 /\ \A i \in 1 .. n - 1 : calls'[i] = calls[i]
  <2>1. calls \in Seq(Frames) /\ calls' = SubSeq(calls, 1, Len(calls) - 1)
    BY DEF MarkInv, Types, Return, Below
  <2> QED
    BY <2>1, PopSeq
<1>3. ASSUME NEW h
      PROVE  h \in Done' <=>
               /\ h \in checked /\ Group(h) = h
               /\ \A i \in 1 .. n - 1 : calls[i].proc # "value" => Group(calls[i].s) # h
  <2>1. DoneMembers'
    BY DoneIs, PTL
  <2>2. h \in Done' <=>
          /\ h \in checked' /\ Group(h) = h
          /\ \A i \in 1 .. Len(calls') : calls'[i].proc # "value" => Group(calls'[i].s) # h
    BY <2>1 DEF DoneMembers, Group, IsValue, ChoiceOf
  <2> QED
    BY <1>2, <2>2
<1>4. \A i \in 1 .. n : i \in 1 .. n - 1 \/ i = n
  BY <1>1
<1>5. \A i \in 1 .. n - 1 : i \in 1 .. n
  BY <1>1
<1>6. ASSUME NEW h \in Done PROVE h \in Done'
  BY <1>3, <1>5, DoneIs DEF DoneMembers
<1>7. ASSUME NEW h \in Done', h \notin Done PROVE h = Group(Top.s) /\ Top.proc # "value"
  BY <1>1, <1>3, <1>4, <1>7, DoneIs DEF DoneMembers
<1> QED
  BY <1>1, <1>2, <1>3, <1>6, <1>7

LEMMA ReturnDone ==
  ASSUME MarkInv, MarkInv', DoneInv, calls # <<>>, Return, UNCHANGED <<graph, checked>>,
         \A g \in Done', h \in Nodes : Edge(g, h) => h \in Done',
         \A set \in SUBSET Done' : ~Recursive(set),
         Len(calls) > 1 =>
           LET f == calls[Len(calls) - 1] IN
           /\ f.proc = "sym" => Group(Top.s) \in Done'
           /\ f.proc = "choice" => Settled(Top.s, Done')
           /\ f.proc = "value" => Top.s \in Done'
  PROVE  DoneInv'
<1> DEFINE n == Len(calls)
           f == calls[n - 1]
<1>1. /\ n \in Nat \ {0} /\ Len(calls') = n - 1
      /\ \A i \in 1 .. n - 1 : calls'[i] = calls[i]
      /\ Done \subseteq Done'
  BY Returned
<1>2. \A i \in 1 .. n - 1 : FrameDone(calls[i], FALSE, Done')
  BY <1>1, FrameDoneMore DEF DoneInv
<1>3. \A i \in 1 .. (n - 1) - 1 : i \in 1 .. n - 1
  BY <1>1
<1>4. ASSUME calls' # <<>> PROVE FrameDone(calls'[n - 1], TRUE, Done')
  <2>1. n - 1 \in 1 .. n - 1 /\ n - 1 \in 1 .. n /\ n > 1 /\ (n - 1) + 1 = n
    <3>1. Len(calls') # 0
      BY <1>4, EmptySeq DEF MarkInv, Types
    <3> QED
      BY <1>1, <3>1
  <2>2. f \in Frames /\ FrameOK(f) /\ Link(f, Top) /\ WellFormed /\ Top.s \in Nodes
    <3>1. calls \in Seq(Frames) /\ WellFormed /\ Top = calls[n] /\ Top.s \in Nodes
      BY TopFrame DEF MarkInv, Types
    <3>2. f \in Frames /\ FrameOK(f) /\ Link(f, calls[(n - 1) + 1])
      BY <2>1, <3>1 DEF MarkInv, CallsInv
    <3> QED
      BY <2>1, <3>1, <3>2
  <2>3. FrameDone(f, FALSE, Done)
    BY <2>1 DEF DoneInv
  <2>4. /\ f.proc = "sym" => Group(Top.s) \in Done'
        /\ f.proc = "choice" => Settled(Top.s, Done')
        /\ f.proc = "value" => Top.s \in Done'
    BY <2>1
  <2>5. FrameDone(f, TRUE, Done')
    <3> HIDE DEF f
    <3> QED
      BY <1>1, <2>2, <2>3, <2>4, FrameReturned
  <2> QED
    BY <1>1, <2>1, <2>5
<1> QED
  BY <1>1, <1>2, <1>3, <1>4, DoneNow

LEMMA SettledMore ==
  ASSUME NEW s, NEW set, NEW more, set \subseteq more, Settled(s, set)
  PROVE  Settled(s, more)
  BY DEF Settled

\* All symbols that Top.s names have been searched.
LEMMA SymSettled ==
  ASSUME MarkInv, DoneInv, In("sym"), Top.at > Len(Refs(Top.s))
  PROVE  Settled(Top.s, Done)
<1> DEFINE refs == Refs(Top.s)
<1>1. /\ Top \in Frames /\ FrameOK(Top) /\ Top.s \in Nodes /\ Top.at \in Nat
      /\ FrameDone(Top, TRUE, Done) /\ Top.proc = "sym" /\ WellFormed
  BY TopFrame DEF In, DoneInv, MarkInv, Types
<1>2. refs \in Seq(Nodes) /\ Len(refs) \in Nat
  BY <1>1, Grouped, LenProperties
<1>3. Top.at = Len(refs) + 1 /\ Left(Top, TRUE) = Top.at /\ Left(Top, TRUE) - 1 = Len(refs)
  <2>1. Top.at = Len(refs) + 1
    BY <1>1, <1>2 DEF FrameOK
  <2>2. Left(Top, TRUE) = Top.at
    BY DEF Left
  <2>3. Top.at - 1 = Len(refs)
    BY <1>2, <2>1
  <2> QED
    BY <2>1, <2>2, <2>3
<1>4. ASSUME NEW t \in Range(refs) \ {ChoiceOf(Top.s)} PROVE Group(t) \in Done
  <2>1. PICK k \in 1 .. Len(refs) : refs[k] = t
    BY <1>2, RangeOf
  <2>2. RefSettled(Top, TRUE, k, Done)
    <3>1. \A j \in 1 .. Left(Top, TRUE) - 1 : RefSettled(Top, TRUE, j, Done)
      BY <1>1 DEF FrameDone
    <3> QED
      BY <1>3, <3>1
  <2>3. \A m \in Top.at .. Len(refs) : FALSE
    BY <1>2, <1>3
  <2> QED
    BY <1>3, <2>1, <2>2, <2>3 DEF RefSettled
<1> QED
  BY <1>4 DEF Settled

LEMMA LeaveSymDone ==
  ASSUME MarkInv, MarkInv', DoneInv, LeaveSym, sym2 = Nobody
  PROVE  DoneInv'
<1> DEFINE n == Len(calls)
           s == Top.s
<1>1. /\ calls # <<>> /\ Return /\ UNCHANGED <<graph, checked>> /\ In("sym")
      /\ Top.at > Len(Refs(s)) /\ Top.proc = "sym"
  BY DEF LeaveSym, In
<1>2. /\ n \in Nat \ {0} /\ Top = calls[n] /\ s \in Nodes /\ WellFormed
      /\ calls \in Seq(Frames) /\ n \in 1 .. n /\ Top \in Frames
  <2>1. n \in Nat \ {0} /\ Top = calls[n] /\ s \in Nodes /\ Top \in Frames
    BY <1>1, TopFrame
  <2>2. WellFormed /\ calls \in Seq(Frames)
    BY DEF MarkInv, Types
  <2>3. n \in 1 .. n
    BY <2>1
  <2> QED
    BY <2>1, <2>2, <2>3
<1>3. Settled(s, Done)
  BY <1>1, SymSettled
<1>4. /\ Done \subseteq Done' /\ Done' \subseteq Done \cup {Group(s)}
      /\ \A h : h \in Done' <=>
           /\ h \in checked /\ Group(h) = h
           /\ \A i \in 1 .. n - 1 : calls[i].proc # "value" => Group(calls[i].s) # h
  BY <1>1, Returned
<1>5. Settled(s, Done')
  BY <1>3, <1>4, SettledMore
<1>6. n > 1 => /\ calls[n - 1] \in Frames /\ FrameOK(calls[n - 1])
               /\ Link(calls[n - 1], Top) /\ calls[n - 1].s \in Nodes
  <2> SUFFICES ASSUME n > 1
               PROVE  /\ calls[n - 1] \in Frames /\ FrameOK(calls[n - 1])
                      /\ Link(calls[n - 1], Top) /\ calls[n - 1].s \in Nodes
    OBVIOUS
  <2>1. n - 1 \in 1 .. n - 1 /\ n - 1 \in 1 .. n /\ (n - 1) + 1 = n
    BY <1>2
  <2>2. /\ calls[n - 1] \in Frames /\ FrameOK(calls[n - 1])
        /\ Link(calls[n - 1], calls[(n - 1) + 1])
    BY <1>2, <2>1 DEF MarkInv, CallsInv
  <2> QED
    BY <1>2, <2>1, <2>2 DEF Frames
<1>7. n > 1 => calls[n - 1].proc # "value"
  BY <1>1, <1>6 DEF Link
<1>8. CASE Single(s)
  <2>1. Group(s) = s /\ s \in checked /\ ~IsValue(s)
    BY <1>1, <1>2, <1>8 DEF Single, Group, MarkInv, MarksInv
  <2>2. ASSUME NEW i \in 1 .. n - 1, calls[i].proc # "value", Group(calls[i].s) = s
        PROVE  FALSE
    <3>1. i \in 1 .. n /\ i # n
      BY <1>2
    <3>2. calls[i] \in Frames /\ FrameOK(calls[i])
      BY <1>2, <3>1 DEF MarkInv, CallsInv
    <3>3. calls[i].s = s
      BY <1>2, <1>8, <2>2, <3>2, Grouped DEF Frames
    <3>4. calls[i].proc = "sym"
      BY <1>8, <2>2, <3>2, <3>3 DEF Frames, FrameOK, Single
    <3> QED
      BY <1>1, <1>2, <2>1, <3>1, <3>3, <3>4 DEF MarkInv, MarksInv
  <2>3. s \in Done'
    BY <1>4, <2>1, <2>2
  <2>4. s \notin Done
    BY <1>1, <1>2, <2>1, DoneIs DEF DoneMembers
  <2>5. Done' = Done \cup {s}
    BY <1>4, <2>1, <2>3
  <2>6. \A h \in Nodes : Edge(s, h) => h \in Done
    BY <1>2, <1>3, <1>8, Grouped DEF Edge, Settled
  <2>7. Done \in SUBSET Nodes
    BY DoneIs DEF DoneMembers, MarkInv, Types
  <2>8. /\ \A g \in Done', h \in Nodes : Edge(g, h) => h \in Done'
        /\ \A set \in SUBSET Done' : ~Recursive(set)
    BY <1>2, <2>4, <2>5, <2>6, <2>7, OneMore DEF DoneInv
  <2> QED
    BY <1>1, <1>5, <1>7, <2>1, <2>3, <2>8, ReturnDone
<1>9. CASE ~Single(s)
  <2>1. n - 1 \in 1 .. n /\ calls[n - 1].proc = "choice" /\ calls[n - 1].s = Group(s)
    BY <1>1, <1>2, <1>9, SymOfGroup
  <2>2. n - 1 \in 1 .. n - 1
    BY <1>2, <2>1
  <2>3. Group(s) \notin Done'
    <3>1. Group(Group(s)) = Group(s)
      BY <1>2, Grouped
    <3>2. calls[n - 1].proc # "value" /\ Group(calls[n - 1].s) = Group(s)
      BY <2>1, <3>1
    <3> QED
      BY <1>4, <2>2, <3>2
  <2>4. Done' = Done
    BY <1>4, <2>3
  <2> QED
    BY <1>1, <1>5, <2>1, <2>4, ReturnDone DEF DoneInv
<1> QED
  BY <1>8, <1>9

LEMMA LeaveValueDone ==
  ASSUME MarkInv, MarkInv', DoneInv, LeaveValue
  PROVE  DoneInv'
<1> DEFINE n == Len(calls)
<1>1. /\ calls # <<>> /\ Return /\ UNCHANGED <<graph, checked>>
      /\ Top.proc = "value" /\ Top.at = 2
  BY DEF LeaveValue, In, marks
<1>2. /\ n \in Nat \ {0} /\ Top = calls[n] /\ Top \in Frames /\ FrameOK(Top)
      /\ FrameDone(Top, TRUE, Done) /\ calls \in Seq(Frames)
  BY <1>1, TopFrame DEF DoneInv, MarkInv, Types
<1>3. Group(Top.s) \in Done
  BY <1>1, <1>2 DEF FrameDone, FrameOK, Group
<1>4. Done' = Done
  BY <1>1, Returned
<1>5. n > 1 => calls[n - 1].proc = "sym"
  <2> SUFFICES ASSUME n > 1 PROVE calls[n - 1].proc = "sym"
    OBVIOUS
  <2>1. n - 1 \in 1 .. n - 1 /\ n - 1 \in 1 .. n /\ (n - 1) + 1 = n
    BY <1>2
  <2>2. calls[n - 1] \in Frames /\ Link(calls[n - 1], calls[(n - 1) + 1])
    BY <1>2, <2>1 DEF MarkInv, CallsInv
  <2> QED
    BY <1>1, <1>2, <2>1, <2>2 DEF Link
<1> QED
  BY <1>1, <1>3, <1>4, <1>5, ReturnDone DEF DoneInv

LEMMA LeaveChoiceDone ==
  ASSUME MarkInv, MarkInv', DoneInv, LeaveChoice, sym2 = Nobody
  PROVE  DoneInv'
<1> DEFINE n == Len(calls)
           c == Top.s
<1>1. /\ calls # <<>> /\ Return /\ UNCHANGED <<graph, checked>>
      /\ Top.at > Len(ValuesOf(c)) /\ Top.proc = "choice"
  BY DEF LeaveChoice, In
<1>2. /\ n \in Nat \ {0} /\ Top = calls[n] /\ c \in Nodes /\ WellFormed
      /\ calls \in Seq(Frames) /\ n \in 1 .. n /\ Top \in Frames /\ FrameOK(Top)
      /\ Top.at \in Nat /\ FrameDone(Top, TRUE, Done)
  <2>1. /\ n \in Nat \ {0} /\ Top = calls[n] /\ c \in Nodes /\ Top \in Frames
        /\ FrameOK(Top) /\ Top.at \in Nat
    BY <1>1, TopFrame
  <2>2. WellFormed /\ calls \in Seq(Frames)
    BY DEF MarkInv, Types
  <2>3. n \in 1 .. n
    BY <2>1
  <2>4. FrameDone(Top, TRUE, Done)
    BY <1>1 DEF DoneInv
  <2> QED
    BY <2>1, <2>2, <2>3, <2>4
<1>3. /\ ValuesOf(c) \in Seq(Nodes) /\ Len(ValuesOf(c)) \in Nat /\ HasValues(c)
      /\ ~IsValue(c) /\ Group(c) = c /\ ~Single(c)
  BY <1>1, <1>2, Grouped, LenProperties DEF FrameOK, Group, Single
<1>4. Left(Top, TRUE) - 1 = Len(ValuesOf(c)) /\ Left(Top, TRUE) = Top.at
  <2>1. Top.at = Len(ValuesOf(c)) + 1
    BY <1>1, <1>2, <1>3 DEF FrameOK
  <2>2. Left(Top, TRUE) = Top.at
    BY DEF Left
  <2>3. Top.at - 1 = Len(ValuesOf(c))
    BY <1>3, <2>1
  <2> QED
    BY <2>2, <2>3
<1>5. ASSUME NEW s \in Nodes, Group(s) = c PROVE Settled(s, Done)
  <2>1. CASE s = c
    BY <1>1, <1>2, <2>1 DEF FrameDone
  <2>2. CASE s # c
    <3>1. ChoiceOf(s) = c
      BY <1>5, <2>2 DEF Group
    <3>2. s \in Range(ValuesOf(c))
      BY <1>2, <3>1, Grouped
    <3>3. PICK k \in 1 .. Len(ValuesOf(c)) : ValuesOf(c)[k] = s
      BY <1>3, <3>2, RangeOf
    <3>4. \A j \in 1 .. Left(Top, TRUE) - 1 : Settled(ValuesOf(c)[j], Done)
      BY <1>1, <1>2 DEF FrameDone
    <3> QED
      BY <1>4, <3>3, <3>4
  <2> QED
    BY <2>1, <2>2
<1>6. /\ Done \subseteq Done' /\ Done' \subseteq Done \cup {c}
      /\ \A h : h \in Done' <=>
           /\ h \in checked /\ Group(h) = h
           /\ \A i \in 1 .. n - 1 : calls[i].proc # "value" => Group(calls[i].s) # h
  BY <1>1, <1>3, Returned
<1>7. ASSUME NEW i \in 1 .. n, calls[i].proc = "choice", calls[i].s = c PROVE i = n
  BY <1>1, <1>2, <1>3, <1>7 DEF MarkInv, MarksInv
<1>8. ASSUME NEW i \in 1 .. n - 1, calls[i].proc # "value", Group(calls[i].s) = c
      PROVE  FALSE
  <2>1. i \in 1 .. n /\ i # n /\ i - 1 # n
    BY <1>2
  <2>2. calls[i] \in Frames /\ FrameOK(calls[i])
    BY <1>2, <2>1 DEF MarkInv, CallsInv
  <2>3. CASE calls[i].proc = "choice"
    <3>1. calls[i].s = c
      BY <1>2, <1>8, <2>2, <2>3, Grouped DEF FrameOK, Group, Frames
    <3> QED
      BY <1>7, <2>1, <2>3, <3>1
  <2>4. CASE calls[i].proc = "sym"
    <3>1. ~Single(calls[i].s)
      BY <1>3, <1>8 DEF Single, Group
    <3>2. i - 1 \in 1 .. n /\ calls[i - 1].proc = "choice" /\ calls[i - 1].s = c
      BY <1>8, <2>1, <2>4, <3>1, SymOfGroup
    <3> QED
      BY <1>7, <2>1, <3>2
  <2> QED
    BY <1>8, <2>2, <2>3, <2>4 DEF Frames
<1>9. c \in checked
  BY <1>1, <1>2 DEF MarkInv, MarksInv
<1>10. c \in Done'
  BY <1>3, <1>6, <1>8, <1>9
<1>11. c \notin Done
  BY <1>1, <1>2, <1>3, DoneIs DEF DoneMembers
<1>12. Done' = Done \cup {c}
  BY <1>6, <1>10
<1>13. \A h \in Nodes : Edge(c, h) => h \in Done
  BY <1>5 DEF Edge, Settled
<1>14. Done \in SUBSET Nodes
  BY DoneIs DEF DoneMembers, MarkInv, Types
<1>15. /\ \A g \in Done', h \in Nodes : Edge(g, h) => h \in Done'
       /\ \A set \in SUBSET Done' : ~Recursive(set)
  <2>1. /\ \A g \in Done, h \in Nodes : Edge(g, h) => h \in Done
        /\ \A set \in SUBSET Done : ~Recursive(set)
    BY DEF DoneInv
  <2> HIDE DEF c
  <2> QED
    BY <1>2, <1>11, <1>12, <1>13, <1>14, <2>1, OneMore
<1>16. n > 1 => calls[n - 1].proc # "choice"
  <2> SUFFICES ASSUME n > 1 PROVE calls[n - 1].proc # "choice"
    OBVIOUS
  <2>1. n - 1 \in 1 .. n - 1 /\ n - 1 \in 1 .. n /\ (n - 1) + 1 = n
    BY <1>2
  <2>2. Link(calls[n - 1], calls[(n - 1) + 1])
    BY <1>2, <2>1 DEF MarkInv, CallsInv
  <2> QED
    BY <1>1, <1>2, <2>1, <2>2 DEF Link
<1> QED
  BY <1>1, <1>3, <1>10, <1>15, <1>16, ReturnDone

LEMMA CheckDepsDone ==
  ASSUME MarkInv, MarkInv', DoneInv, UNCHANGED graph,
         NEW t, NEW rest, Resumes(t, rest), CheckDeps(t, rest), sym2' = Nobody
  PROVE  DoneInv'
<1>1. t \in Nodes /\ t # Nobody /\ check \subseteq checked
  BY DEF Resumes, MarkInv, Types, WellFormed
<1>2. CASE t \in checked
  <2>1. t \in checked \ check /\ calls' = rest /\ checked' = checked
    BY <1>1, <1>2 DEF CheckDeps, marks
  <2> QED
    BY <2>1, PassDone
<1>3. CASE t \notin checked
  <2>1. \/ IsValue(t) /\ Call("value", t, rest) /\ UNCHANGED marks
        \/ ~IsValue(t) /\ HasValues(t) /\ CheckChoice(t, rest)
        \/ ~IsValue(t) /\ ~HasValues(t) /\ Mark({t}) /\ Call("sym", t, rest)
    BY <1>1, <1>3 DEF CheckDeps
  <2> QED
    BY <1>3, <2>1, EnterDone
<1> QED
  BY <1>2, <1>3

LEMMA CheckValueDone ==
  ASSUME MarkInv, MarkInv', DoneInv, CheckValue
  PROVE  DoneInv'
<1> DEFINE n == Len(calls)
           v == ValuesOf(Top.s)[Top.at]
           g == Frame("sym", v)
<1>1. /\ calls # <<>> /\ Top.proc = "choice" /\ Top.at <= Len(ValuesOf(Top.s))
      /\ calls' = Append(Advanced, g)
      /\ UNCHANGED <<graph, checked>>
  BY DEF CheckValue, In, Call, marks
<1>2. /\ n \in Nat \ {0} /\ Top = calls[n] /\ Top.s \in Nodes /\ Top.at \in Nat \ {0}
      /\ WellFormed /\ HasValues(Top.s)
  BY <1>1, TopFrame DEF MarkInv, Types, FrameOK
<1>3. v \in Nodes /\ Group(v) = Top.s /\ Group(Top.s) = Top.s
  <2>1. ValuesOf(Top.s) \in Seq(Nodes)
    BY <1>2, Grouped
  <2>2. v \in Nodes /\ v \in Range(ValuesOf(Top.s))
    BY <1>1, <1>2, <2>1, RangeOf
  <2>3. ChoiceOf(v) = Top.s /\ Top.s # Nobody /\ ~IsValue(Top.s)
    BY <1>2, <2>2, Grouped
  <2> QED
    BY <2>2, <2>3 DEF IsValue, Group
<1> HIDE DEF v
<1>4. g \in Frames /\ g.s = v /\ FrameDone(g, TRUE, Done)
  <2>1. g \in Frames /\ g.s = v
    BY <1>3 DEF Frame, Frames
  <2> QED
    BY <2>1, FrameNew
<1> HIDE DEF g
<1>5. /\ calls' \in Seq(Frames) /\ Len(calls') = n + 1 /\ calls'[n + 1] = g
      /\ \A i \in 1 .. n : calls'[i] = Advanced[i]
  BY <1>1, <1>4, AdvancedFrames, PushOne
<1>6. /\ \A i \in 1 .. n - 1 : calls'[i] = calls[i]
      /\ calls'[n].proc = Top.proc /\ calls'[n].s = Top.s /\ calls'[n].at = Top.at + 1
  BY <1>1, <1>2, <1>5, AdvancedFrames
<1>7. Done' = Done
  <2>1. \A i \in 1 .. n : calls'[i].proc = calls[i].proc /\ calls'[i].s = calls[i].s
    <3>1. \A i \in 1 .. n : i \in 1 .. n - 1 \/ i = n
      BY <1>2
    <3> QED
      BY <1>2, <1>6, <3>1
  <2>2. Top.s \notin Done
    <3>1. n \in 1 .. n
      BY <1>2
    <3> QED
      BY <1>1, <1>2, <1>3, <3>1, DoneIs DEF DoneMembers
  <2>3. \A i \in n + 1 .. Len(calls') : calls'[i] = g
    BY <1>2, <1>5
  <2>4. n <= Len(calls')
    BY <1>2, <1>5
  <2> QED
    BY <1>1, <1>3, <1>4, <2>1, <2>2, <2>3, <2>4, DoneKept
<1>8. \A i \in n + 1 .. Len(calls') - 1 : FALSE
  BY <1>2, <1>5
<1>9. n < Len(calls')
  BY <1>2, <1>5
<1> QED
  BY <1>1, <1>4, <1>5, <1>6, <1>7, <1>8, <1>9, PushDone

LEMMA CompleteNext == MarkInv /\ Complete /\ [SearchNext]_searchVars => Complete'
<1> SUFFICES ASSUME MarkInv, Complete, [SearchNext]_searchVars, sym2' = Nobody, ~yynerrs'
             PROVE  DoneInv'
  BY DEF Complete
<1>1. MarkInv'
  BY MarksNext
<1>2. ~CountError /\ UNCHANGED graph
  BY DEF SearchNext, CheckRef, LeaveSym, CheckValue, LeaveChoice, StartAtChoice, LeaveValue,
         CheckNext, CountError, searchVars
<1>3. sym2 = Nobody /\ ~yynerrs
  <2>1. UNCHANGED yynerrs
    BY <1>2 DEF SearchNext, CheckRef, LeaveSym, CheckValue, LeaveChoice, StartAtChoice,
                LeaveValue, CheckNext, searchVars
  <2>2. CASE LeaveChoice
    <3>1. Top.s \in Nodes /\ Nobody \notin Nodes
      BY <2>2, TopFrame DEF LeaveChoice, In, MarkInv, Types, WellFormed
    <3> QED
      BY <2>1, <2>2, <3>1 DEF LeaveChoice
  <2>3. CASE LeaveSym \/ LeaveValue \/ UNCHANGED searchVars
    BY <2>1, <2>3 DEF LeaveSym, LeaveValue, searchVars
  <2>4. CASE StartAtChoice
    <3>1. check \subseteq Nodes /\ Nobody \notin Nodes
      BY DEF MarkInv, Types, WellFormed
    <3> QED
      BY <2>1, <2>4, <3>1 DEF StartAtChoice, CheckDeps
  <2> QED
    BY <1>2, <2>1, <2>2, <2>3, <2>4 DEF SearchNext, CheckRef, CheckValue, CheckNext
<1>4. DoneInv
  BY <1>3 DEF Complete
<1>5. CASE CheckRef
  BY <1>1, <1>2, <1>4, <1>5, CheckRefResumes, CheckDepsDone DEF CheckRef
<1>6. CASE StartAtChoice
  BY <1>1, <1>2, <1>4, <1>6, StartAtChoiceResumes, CheckDepsDone DEF StartAtChoice
<1>7. CASE CheckNext
  BY <1>1, <1>2, <1>4, <1>7, CheckNextResumes, CheckDepsDone DEF CheckNext
<1>8. CASE UNCHANGED searchVars
  <2>1. UNCHANGED <<graph, checked, calls>>
    BY <1>8 DEF searchVars, marks
  <2>2. Done' = Done
    BY <2>1 DEF Done, Busy, Group, IsValue, ChoiceOf
  <2> QED
    BY <1>4, <2>1, <2>2, GraphSame DEF DoneInv, Top
<1> QED
  BY <1>1, <1>2, <1>3, <1>4, <1>5, <1>6, <1>7, <1>8, CheckValueDone, LeaveSymDone,
     LeaveChoiceDone, LeaveValueDone DEF SearchNext

\* What for_all_symbols has passed is searched, or its choice is about to be.
LEMMA PassedNext == MarkInv /\ Passed /\ [SearchNext]_searchVars => Passed'
<1> SUFFICES ASSUME MarkInv, Passed, [SearchNext]_searchVars PROVE Passed'
  OBVIOUS
<1>1. /\ UNCHANGED graph /\ calls \in Seq(Frames) /\ WellFormed /\ next \in Nat
      /\ graph.order \in Seq(Nodes) /\ Len(graph.order) \in Nat /\ check \subseteq checked
  <2>1. UNCHANGED graph
    BY DEF SearchNext, CheckRef, LeaveSym, CheckValue, LeaveChoice, StartAtChoice, LeaveValue,
           CheckNext, CountError, searchVars
  <2>2. WellFormed /\ calls \in Seq(Frames) /\ check \subseteq checked
    BY DEF MarkInv, Types
  <2>3. graph.order \in Seq(Nodes) /\ Len(graph.order) \in Nat
    BY <2>2, LenProperties DEF WellFormed
  <2>4. next \in Nat
    BY <2>3 DEF MarkInv, Types
  <2> QED
    BY <2>1, <2>2, <2>3, <2>4
<1>2. checked \subseteq checked'
  <2>1. \A t, rest : CheckDeps(t, rest) => checked \subseteq checked'
    BY DEF CheckDeps, CheckChoice, Mark, marks
  <2> QED
    BY <2>1 DEF SearchNext, CheckRef, LeaveSym, CheckValue, LeaveChoice, StartAtChoice,
                LeaveValue, CheckNext, CountError, searchVars, marks
<1>3. ASSUME NEW i \in 1 .. Len(calls), NEW s, calls[i] = Frame("value", s)
      PROVE  In("value") /\ Top.at = 1 /\ Top.s = s /\ Top.s \notin checked
  <2>1. calls[i].proc = "value" /\ calls[i].at = 1 /\ calls[i].s = s
    BY <1>3 DEF Frame
  <2>2. i = Len(calls) /\ calls[i].s \notin checked
    BY <2>1, MarkedBelow DEF MarkInv, MarksInv
  <2>3. calls # <<>>
    BY <2>2
  <2> QED
    BY <2>1, <2>2, <2>3 DEF In, Top
<1>4. CASE CheckNext
  <2> DEFINE t == graph.order[next + 1]
  <2>1. /\ calls = <<>> /\ Len(calls) = 0 /\ CheckDeps(t, <<>>) /\ next' = next + 1
    BY <1>4, EmptySeq DEF CheckNext
  <2>2. t \in checked' \/ calls' = <<Frame("value", t)>>
    BY <1>1, <2>1 DEF CheckDeps, CheckChoice, Mark, Call, marks
  <2>3. \A j \in 1 .. next : graph.order[j] \in checked'
    BY <1>2, <2>1 DEF Passed
  <2>4. calls' = <<Frame("value", t)>> => 1 \in 1 .. Len(calls') /\ calls'[1] = Frame("value", t)
    OBVIOUS
  <2>5. \A j \in 1 .. next + 1 : j \in 1 .. next \/ j = next + 1
    BY <1>1
  <2> QED
    BY <1>1, <2>1, <2>2, <2>3, <2>4, <2>5 DEF Passed
<1>5. CASE StartAtChoice
  <2> DEFINE c == ChoiceOf(Top.s)
  <2>1. /\ In("value") /\ Top.at = 1 /\ CheckDeps(c, Advanced) /\ UNCHANGED next
    BY <1>5 DEF StartAtChoice
  <2>2. /\ Len(calls) \in 1 .. Len(calls) /\ Top = calls[Len(calls)]
        /\ Top.s \in Nodes /\ IsValue(Top.s)
    BY <2>1, TopFrame DEF In, FrameOK
  <2>3. Top.s \notin checked
    BY <2>1, <2>2 DEF MarkInv, MarksInv, In
  <2>4. c \notin checked
    BY <2>2, <2>3 DEF MarkInv, MarksInv, Group
  <2>5. c \in Nodes /\ HasValues(c) /\ ~IsValue(c) /\ Top.s \in Range(ValuesOf(c))
    BY <1>1, <2>2, Grouped DEF IsValue
  <2>6. CheckChoice(c, Advanced)
    BY <1>1, <2>1, <2>4, <2>5 DEF CheckDeps
  <2>7. Top.s \in checked'
    BY <2>5, <2>6 DEF CheckChoice, Mark
  <2>8. ASSUME NEW j \in 1 .. next PROVE graph.order[j] \in checked'
    BY <1>2, <1>3, <2>7 DEF Passed
  <2> QED
    BY <1>1, <2>1, <2>8 DEF Passed
<1>6. CASE CountError \/ UNCHANGED searchVars
  <2>1. UNCHANGED <<graph, checked, calls, next>>
    BY <1>6 DEF CountError, searchVars, marks
  <2> QED
    BY <2>1 DEF Passed
<1>7. CASE CheckRef \/ LeaveSym \/ CheckValue \/ LeaveChoice \/ LeaveValue
  <2>1. ~(In("value") /\ Top.at = 1) /\ UNCHANGED next
    BY <1>7 DEF CheckRef, LeaveSym, CheckValue, LeaveChoice, LeaveValue, In
  <2>2. \A j \in 1 .. next : graph.order[j] \in checked'
    BY <1>2, <1>3, <2>1 DEF Passed
  <2> QED
    BY <1>1, <2>1, <2>2 DEF Passed
<1> QED
  BY <1>4, <1>5, <1>6, <1>7 DEF SearchNext

LEMMA SearchInit == WellFormed /\ SearchStart => SearchInv
<1> SUFFICES ASSUME WellFormed, SearchStart PROVE SearchInv
  OBVIOUS
<1>1. /\ checked = {} /\ calls = <<>> /\ Len(calls) = 0 /\ sym2 = Nobody /\ next = 0
      /\ yynerrs = FALSE
  BY DEF SearchStart
<1>2. Done = {}
  BY <1>1 DEF Done
<1>3. DoneInv
  BY <1>1, <1>2 DEF DoneInv, Recursive
<1>4. Passed
  BY <1>1 DEF Passed
<1> QED
  BY <1>1, <1>3, <1>4, MarksInit DEF SearchInv, Sound, Complete

\* When all symbols have been searched and none was reported, all of them are finished.
LEMMA SearchedAll == SearchInv => CyclesFound
<1> SUFFICES ASSUME SearchInv, Searched PROVE yynerrs <=> Cyclic
  BY DEF CyclesFound
<1>1. yynerrs => Cyclic
  BY DEF SearchInv, Sound
<1>2. ASSUME ~yynerrs, NEW set \in SUBSET Nodes, Recursive(set) PROVE FALSE
  <2>1. MarkInv /\ WellFormed /\ DoneInv /\ Len(calls) = 0 /\ next = Len(graph.order)
    BY <1>2, EmptySeq DEF SearchInv, Searched, Complete, MarkInv, Types
  <2>2. ASSUME NEW v \in Nodes PROVE v \in checked
    <3>1. PICK j \in 1 .. Len(graph.order) : graph.order[j] = v
      BY <2>1, RangeOf DEF WellFormed, Nodes
    <3> QED
      BY <2>1, <3>1 DEF SearchInv, Passed
  <2>3. ASSUME NEW g \in set PROVE g \in Done
    <3>1. Group(g) = g
      BY <1>2, <2>1, Grouped DEF Recursive, Edge
    <3> QED
      BY <2>1, <2>2, <3>1, DoneIs DEF DoneMembers
  <2> QED
    BY <1>2, <2>1, <2>3 DEF DoneInv
<1> QED
  BY <1>1, <1>2 DEF Cyclic

\* In every Kconfig file, through choices and in whatever order the symbols stand,
\* conf_parse reports a recursive dependency exactly when there is one.
THEOREM SearchFindsCycles == SearchSpec => []CyclesFound
<1>1. SearchInv /\ [SearchNext]_searchVars => SearchInv'
  BY MarksNext, SoundNext, CompleteNext, PassedNext DEF SearchInv
<1> QED
  BY <1>1, SearchInit, SearchedAll, PTL DEF SearchSpec
=============================================================================
