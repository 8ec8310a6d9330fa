-------------------------- MODULE ValidationProofs --------------------------
(***************************************************************************)
(* Theorems about Validation, for every set of connections and texts.      *)
(***************************************************************************)
EXTENDS Validation, WellFoundedInduction, SequenceTheorems, TLAPS

\* No part is refused: none is found.
LEMMA AllAdmitted ==
  ASSUME NEW s \in Seq({"ok"})
  PROVE  FirstRefused(s) = 0
  <1>1. {i \in 1 .. Len(s) : s[i] # "ok"} = {}
    OBVIOUS
  <1> QED BY <1>1 DEF FirstRefused, SelectInSeq

\* A refusal that follows admitted parts only is the first.
LEMMA FirstIsLast ==
  ASSUME NEW s \in Seq({"ok"}), NEW code, code # "ok"
  PROVE  FirstRefused(Append(s, code)) = Len(s) + 1 /\ Append(s, code)[Len(s) + 1] = code
  <1> DEFINE t == Append(s, code)
  <1>1. /\ Len(s) \in Nat /\ Len(t) = Len(s) + 1 /\ t[Len(s) + 1] = code
        /\ \A i \in 1 .. Len(s) : t[i] = s[i] /\ s[i] = "ok"
    OBVIOUS
  <1> HIDE DEF t
  <1>2. {i \in 1 .. Len(t) : t[i] # "ok"} = {Len(s) + 1}
    BY <1>1
  <1>3. Min({Len(s) + 1}) = Len(s) + 1
    BY <1>1 DEF Min
  <1>4. FirstRefused(t) = Len(s) + 1
    BY <1>2, <1>3 DEF FirstRefused, SelectInSeq
  <1> QED BY <1>1, <1>4 DEF t

\* A non-empty set of naturals has a least element, and Min is in the set.
LEMMA LeastNatural ==
  ASSUME NEW T \in SUBSET Nat, T # {}
  PROVE  Min(T) \in T
  <1>1. PICK x \in T : \A y \in T : ~(<<y, x>> \in OpToRel(<, Nat))
    BY NatLessThanWellFounded, WFMin
  <1>2. ASSUME NEW y \in T
        PROVE  x <= y
    <2>1. ~(y < x)
      BY <1>1 DEF OpToRel
    <2> QED BY <2>1
  <1> QED BY <1>2 DEF Min

\* The first refused part is one of them; 0 stands for none.
LEMMA FirstRefusedType ==
  ASSUME NEW s, Len(s) \in Nat
  PROVE  FirstRefused(s) \in 0 .. Len(s) /\ (FirstRefused(s) # 0 => s[FirstRefused(s)] # "ok")
  <1> DEFINE I == {i \in 1 .. Len(s) : s[i] # "ok"}
  <1>1. FirstRefused(s) = IF I # {} THEN Min(I) ELSE 0
    BY DEF FirstRefused, SelectInSeq
  <1>2. I \in SUBSET Nat
    OBVIOUS
  <1>3. I # {} => Min(I) \in I
    BY <1>2, LeastNatural
  <1> QED BY <1>1, <1>3

\* The text check of a text that is not a policy's: how many units, and which verdict.
LEMMA TextCheckType ==
  ASSUME NEW text \in Texts
  PROVE  TextUnits(text) \in Nat /\ TextVerdict(text) \in PartVerdicts
  <1>1. text.parts \in Seq(PartVerdicts)
    BY TextsAssumption DEF TextRecords
  <1>2. PICK parts \in Seq(PartVerdicts) : parts = text.parts
    BY <1>1
  <1>3. Len(parts) \in Nat /\ \A i \in 1 .. Len(parts) : parts[i] \in PartVerdicts
    OBVIOUS
  <1>4. FirstRefused(parts) \in 0 .. Len(parts)
    BY <1>3, FirstRefusedType
  <1>5. TextUnits(text) \in Nat
    BY <1>2, <1>3, <1>4 DEF TextUnits
  <1>6. "unsupported" \in PartVerdicts /\ "ok" \in PartVerdicts
    BY DEF PartVerdicts, Denials
  <1>7. FirstRefused(parts) # 0 => parts[FirstRefused(parts)] \in PartVerdicts
    BY <1>3, <1>4
  <1>8. TextVerdict(text) \in PartVerdicts
    BY <1>2, <1>6, <1>7 DEF TextVerdict
  <1> QED BY <1>5, <1>8
-----------------------------------------------------------------------------
(***************************************************************************)
(* The inductive invariant.                                                *)
(***************************************************************************)
FrameRecords ==
  [conn : Conns, text : Texts, stage : {"text", "units", "binding"}, units : Nat, denial : {"ok"} \union Denials,
   shape : {"small", "large"}, outcomes : Seq({"ok"}), violated : BOOLEAN, unseen : BOOLEAN,
   previous : Conns \union {None}]

\* A call in one of its stages: before the text check it has no outcome; after it, it holds what the check found, has
\* bound no more than that, and holds no violation between two binds.
FrameOK(frame) ==
  /\ frame \in FrameRecords
  /\ frame.stage = "text" => frame.outcomes = <<>> /\ ~frame.violated
  /\ frame.stage # "text" =>
       /\ frame.text.form # "policy"
       /\ frame.units = TextUnits(frame.text) /\ frame.denial = TextVerdict(frame.text)
       /\ Len(frame.outcomes) <= frame.units
  /\ frame.stage = "units" => ~frame.violated
  /\ frame.stage = "binding" => Len(frame.outcomes) < frame.units

\* The connection of the call outside the i-th.
Outer(i) == IF i = 1 THEN None ELSE frames[i - 1].conn

\* Only the innermost call may be anywhere but in a bind, every bind's guard holds the scope outside it, and the
\* pointer names the innermost bind.
Nested ==
  /\ \A i \in DOMAIN frames : i < Len(frames) => frames[i].stage = "binding"
  /\ \A i \in DOMAIN frames : frames[i].stage = "binding" => frames[i].previous = Outer(i)
  /\ active_scope = IF frames = <<>> THEN None ELSE IF Top.stage = "binding" THEN Top.conn ELSE Outer(Len(frames))

IInv ==
  /\ frames \in Seq(FrameRecords) /\ \A i \in DOMAIN frames : FrameOK(frames[i])
  /\ Nested
  /\ FirstFailureDecides /\ CodesMatchViolations /\ LookupsMeetTheirScope
-----------------------------------------------------------------------------
(***************************************************************************)
(* The stack of calls.                                                     *)
(***************************************************************************)
\* The innermost call, and what is outside it.
LEMMA StackShape ==
  ASSUME IInv, frames # <<>>
  PROVE  /\ Len(frames) \in Nat \ {0} /\ DOMAIN frames = 1 .. Len(frames) /\ Len(frames) \in DOMAIN frames
         /\ FrameOK(Top) /\ Top \in FrameRecords
         /\ \A i \in DOMAIN frames : frames[i] \in FrameRecords
         /\ Top.stage = "binding" => Top.previous = Outer(Len(frames)) /\ active_scope = Top.conn
         /\ Top.stage # "binding" => active_scope = Outer(Len(frames))
  <1>1. Len(frames) \in Nat \ {0} /\ DOMAIN frames = 1 .. Len(frames)
    BY DEF IInv
  <1>2. FrameOK(Top) /\ \A i \in DOMAIN frames : FrameOK(frames[i])
    BY <1>1 DEF IInv, Top
  <1> QED BY <1>1, <1>2 DEF IInv, Nested, Top, FrameOK

\* A sequence without its last element.
LEMMA FrontShape ==
  ASSUME NEW S, NEW s \in Seq(S), s # <<>>
  PROVE  /\ SubSeq(s, 1, Len(s) - 1) \in Seq(S) /\ Len(SubSeq(s, 1, Len(s) - 1)) = Len(s) - 1
         /\ \A i \in 1 .. Len(s) - 1 : SubSeq(s, 1, Len(s) - 1)[i] = s[i]
  <1> DEFINE n == Len(s) - 1
  <1>1. n \in Nat /\ n <= Len(s)
    OBVIOUS
  <1> HIDE DEF n
  <1>2. Len(SubSeq(s, 1, n)) = n
    BY <1>1
  <1>3. SubSeq(s, 1, n) \in Seq(S)
    BY <1>1
  <1>4. \A i \in 1 .. n : SubSeq(s, 1, n)[i] = s[i]
    BY <1>1
  <1> QED BY <1>2, <1>3, <1>4 DEF n

\* The stack without its innermost call.
LEMMA PopShape ==
  ASSUME IInv, frames # <<>>
  PROVE  /\ Pop \in Seq(FrameRecords) /\ Len(Pop) = Len(frames) - 1 /\ DOMAIN Pop = 1 .. Len(frames) - 1
         /\ \A i \in DOMAIN Pop : Pop[i] = frames[i]
  <1>1. frames \in Seq(FrameRecords) /\ Len(frames) \in Nat \ {0}
    BY StackShape DEF IInv
  <1>2. /\ Pop \in Seq(FrameRecords) /\ Len(Pop) = Len(frames) - 1
        /\ \A i \in 1 .. Len(frames) - 1 : Pop[i] = frames[i]
    BY <1>1, FrontShape DEF Pop
  <1> QED BY <1>2, LenProperties

\* The stack with its innermost call replaced.
LEMMA SetTopShape ==
  ASSUME IInv, frames # <<>>, NEW frame \in FrameRecords
  PROVE  /\ SetTop(frame) \in Seq(FrameRecords) /\ Len(SetTop(frame)) = Len(frames)
         /\ DOMAIN SetTop(frame) = DOMAIN frames /\ SetTop(frame)[Len(frames)] = frame
         /\ \A i \in DOMAIN frames : i < Len(frames) => SetTop(frame)[i] = frames[i]
  <1>1. /\ Pop \in Seq(FrameRecords) /\ Len(Pop) = Len(frames) - 1 /\ Len(frames) \in Nat \ {0}
        /\ DOMAIN Pop = 1 .. Len(frames) - 1 /\ \A i \in DOMAIN Pop : Pop[i] = frames[i]
        /\ DOMAIN frames = 1 .. Len(frames)
    BY PopShape, StackShape
  <1> QED BY <1>1 DEF SetTop

\* A step of the innermost call that does not end it.
LEMMA SetTopStep ==
  ASSUME IInv, frames # <<>>, NEW frame, FrameOK(frame), frames' = SetTop(frame), row' = row, LookupsMeetTheirScope',
         frame.stage = "binding" => frame.previous = Outer(Len(frames)),
         active_scope' = IF frame.stage = "binding" THEN frame.conn ELSE Outer(Len(frames))
  PROVE  IInv'
  <1> DEFINE n == Len(frames)
  <1>1. /\ frames' \in Seq(FrameRecords) /\ Len(frames') = n /\ DOMAIN frames' = DOMAIN frames /\ frames'[n] = frame
        /\ \A i \in DOMAIN frames : i < n => frames'[i] = frames[i]
    BY SetTopShape DEF FrameOK
  <1>2. n \in Nat \ {0} /\ DOMAIN frames = 1 .. n
    BY StackShape
  <1>3. \A i \in DOMAIN frames : Outer(i)' = Outer(i)
    BY <1>1, <1>2 DEF Outer
  <1>4. \A i \in DOMAIN frames' : FrameOK(frames'[i])
    BY <1>1, <1>2 DEF IInv
  <1>5. Nested'
    <2>1. \A i \in DOMAIN frames' : i < Len(frames') => frames'[i].stage = "binding"
      BY <1>1, <1>2 DEF IInv, Nested
    <2>2. \A i \in DOMAIN frames' : frames'[i].stage = "binding" => frames'[i].previous = Outer(i)'
      BY <1>1, <1>2, <1>3 DEF IInv, Nested
    <2>3. frames' # <<>> /\ Top' = frame
      BY <1>1, <1>2 DEF Top
    <2>4. Outer(Len(frames))' = Outer(n)
      BY <1>1, <1>2 DEF Outer
    <2> QED BY <1>1, <2>1, <2>2, <2>3, <2>4 DEF Nested
  <1>6. FirstFailureDecides' /\ CodesMatchViolations'
    BY DEF IInv, FirstFailureDecides, CodesMatchViolations
  <1> QED BY <1>1, <1>4, <1>5, <1>6 DEF IInv

\* The end of the innermost call.
LEMMA PopStep ==
  ASSUME IInv, frames # <<>>, frames' = Pop, active_scope' = Outer(Len(frames)), asked' = asked,
         FirstFailureDecides', CodesMatchViolations'
  PROVE  IInv'
  <1> DEFINE n == Len(frames)
  <1>1. /\ frames' \in Seq(FrameRecords) /\ Len(frames') = n - 1 /\ DOMAIN frames' = 1 .. n - 1
        /\ \A i \in DOMAIN frames' : frames'[i] = frames[i]
    BY PopShape
  <1>2. n \in Nat \ {0} /\ DOMAIN frames = 1 .. n
    BY StackShape
  <1>3. \A i \in DOMAIN frames' : Outer(i)' = Outer(i)
    BY <1>1, <1>2 DEF Outer
  <1>4. \A i \in DOMAIN frames' : FrameOK(frames'[i]) /\ frames'[i].stage = "binding"
    BY <1>1, <1>2 DEF IInv, Nested
  <1>5. Nested'
    <2>1. \A i \in DOMAIN frames' : frames'[i].previous = Outer(i)'
      BY <1>1, <1>2, <1>3, <1>4 DEF IInv, Nested
    <2>2. CASE n = 1
      <3>1. frames' = <<>> /\ active_scope' = None
        BY <1>1, <2>2 DEF Outer
      <3> QED BY <1>4, <2>1, <3>1 DEF Nested
    <2>3. CASE n # 1
      <3>1. n - 1 \in DOMAIN frames' /\ Len(frames') # 0
        BY <1>1, <1>2, <2>3
      <3>2. frames' # <<>>
        BY <3>1
      <3>3. Top' = frames[n - 1] /\ Top'.stage = "binding" /\ active_scope' = frames[n - 1].conn
        BY <1>1, <1>4, <2>3, <3>1 DEF Top, Outer
      <3> QED BY <1>4, <2>1, <3>2, <3>3 DEF Nested
    <2> QED BY <2>2, <2>3
  <1>6. LookupsMeetTheirScope'
    BY DEF IInv, LookupsMeetTheirScope
  <1> QED BY <1>1, <1>4, <1>5, <1>6 DEF IInv

\* An exception out of a unit ends the call: with a row for the unit it failed in, or without one.
LEMMA RaiseStep ==
  ASSUME IInv, frames # <<>>, NEW frame \in FrameRecords, NEW error \in {"parser", "binding", "fatal"},
         Raise(frame, error), frame.text.form # "policy", frame.units = TextUnits(frame.text),
         Len(frame.outcomes) < frame.units, active_scope' = Outer(Len(frames)), asked' = asked
  PROVE  IInv'
  <1> DEFINE code == MarkDenied(frame, error)
             out == frame.outcomes
  <1>1. out \in Seq({"ok"}) /\ frame.violated \in BOOLEAN /\ frame.text \in Texts /\ frame.units \in Nat
    BY DEF FrameRecords
  <1>2. CASE error = "fatal"
    <2>1. frames' = Pop /\ row' = row
      BY <1>2 DEF Raise
    <2>2. FirstFailureDecides' /\ CodesMatchViolations'
      BY <2>1 DEF IInv, FirstFailureDecides, CodesMatchViolations
    <2> QED BY <2>1, <2>2, PopStep
  <1>3. CASE error # "fatal"
    <2>1. /\ frames' = Pop
          /\ row' = [text |-> frame.text, outcomes |-> Append(out, code), allowed |-> code = "ok", code |-> code,
                     violated |-> frame.violated]
      BY <1>3 DEF Raise, Return, FrameRecords
    <2>2. code # "ok" /\ (frame.violated <=> code \in Denials)
      BY <1>1, <1>3 DEF MarkDenied, Denials
    <2>3. FirstRefused(Append(out, code)) = Len(out) + 1 /\ Append(out, code)[Len(out) + 1] = code
      BY <1>1, <2>2, FirstIsLast
    <2>4. Len(out) \in Nat /\ Len(out) + 1 # 0 /\ Len(out) + 1 < TextUnits(frame.text) + 1
      BY <1>1
    <2> HIDE DEF code, out
    <2>5. EngineOrder(frame.text, Append(out, code)) = code
      BY <2>3, <2>4 DEF EngineOrder
    <2>6. FirstFailureDecides'
      BY <2>1, <2>3, <2>4, <2>5 DEF FirstFailureDecides
    <2>7. CodesMatchViolations'
      BY <2>1, <2>2 DEF CodesMatchViolations
    <2> QED BY <2>1, <2>6, <2>7, PopStep
  <1> QED BY <1>2, <1>3

\* A call begins.
LEMMA CallStep ==
  ASSUME IInv, NEW c \in Conns, Call(c)
  PROVE  IInv'
  <1>1. PICK text \in Texts : frames' = Append(frames, Frame(c, text))
    BY DEF Call
  <1> DEFINE n == Len(frames)
             frame == Frame(c, text)
  <1>2. FrameOK(frame) /\ frame.stage = "text"
    BY DEF FrameOK, FrameRecords, Frame
  <1>3. frame \in FrameRecords /\ frames \in Seq(FrameRecords) /\ n \in Nat /\ DOMAIN frames = 1 .. n
    BY <1>2 DEF FrameOK, IInv
  <1> HIDE DEF frame
  <1>4. /\ frames' \in Seq(FrameRecords) /\ Len(frames') = n + 1 /\ DOMAIN frames' = 1 .. n + 1
        /\ frames'[n + 1] = frame /\ \A i \in 1 .. n : frames'[i] = frames[i]
    BY <1>1, <1>3 DEF frame
  <1>5. \A i \in DOMAIN frames' : FrameOK(frames'[i])
    BY <1>2, <1>3, <1>4 DEF IInv
  <1>6. UNCHANGED <<active_scope, asked, row>> /\ (n = 0 \/ (n # 0 /\ Top.stage = "binding"))
    BY <1>3 DEF Call, InFrame
  <1>7. \A i \in 1 .. n : frames[i].stage = "binding"
    BY <1>3, <1>6 DEF IInv, Nested, Top
  <1>8. active_scope = IF n = 0 THEN None ELSE frames[n].conn
    BY <1>3, <1>6 DEF IInv, Nested, Top
  <1>9. Nested'
    <2>1. \A i \in 1 .. n : Outer(i)' = Outer(i)
      BY <1>3, <1>4 DEF Outer
    <2>2. \A i \in DOMAIN frames' : i < Len(frames') => frames'[i].stage = "binding"
      BY <1>3, <1>4, <1>7
    <2>3. \A i \in DOMAIN frames' : frames'[i].stage = "binding" => frames'[i].previous = Outer(i)'
      BY <1>2, <1>3, <1>4, <1>7, <2>1 DEF IInv, Nested
    <2>4. frames' # <<>> /\ Top'.stage # "binding"
      BY <1>2, <1>3, <1>4 DEF Top
    <2>5. Outer(Len(frames))' = active_scope
      BY <1>3, <1>4, <1>8 DEF Outer
    <2> QED BY <1>6, <2>2, <2>3, <2>4, <2>5 DEF Nested
  <1>10. FirstFailureDecides' /\ CodesMatchViolations' /\ LookupsMeetTheirScope'
    BY <1>6 DEF IInv, FirstFailureDecides, CodesMatchViolations, LookupsMeetTheirScope
  <1> QED BY <1>4, <1>5, <1>9, <1>10 DEF IInv

\* The text boundary: the units and the denial it leaves are the text's, and a row it returns is its own verdict.
LEMMA CheckTextStep ==
  ASSUME IInv, CheckText
  PROVE  IInv'
  <1> DEFINE text == Top.text
             verdict == TextVerdict(Top.text)
  <1>1. /\ frames # <<>> /\ Top.stage = "text" /\ Top \in FrameRecords /\ FrameOK(Top)
        /\ active_scope = Outer(Len(frames)) /\ active_scope' = active_scope /\ asked' = asked
    BY StackShape DEF CheckText, InFrame
  <1>2. text \in Texts /\ Top.outcomes = <<>> /\ ~Top.violated
    BY <1>1 DEF FrameRecords, FrameOK
  <1>3. TextUnits(text) \in Nat /\ verdict \in PartVerdicts
    BY <1>2, TextCheckType
  <1>4. LookupsMeetTheirScope'
    BY <1>1 DEF IInv, LookupsMeetTheirScope
  <1>5. CASE text.form = "policy" /\ Return(Top, "invalid_input", FALSE)
    <2>1. frames' = Pop /\ row' = [text |-> text, outcomes |-> <<>>, allowed |-> FALSE, code |-> "invalid_input",
                                  violated |-> FALSE]
      BY <1>2, <1>5 DEF Return
    <2>2. FirstFailureDecides' /\ CodesMatchViolations'
      BY <1>5, <2>1 DEF FirstFailureDecides, CodesMatchViolations, Denials
    <2> QED BY <1>1, <2>1, <2>2, PopStep
  <1>6. CASE /\ text.form # "policy" /\ verdict \in {"ok"} \union Denials
             /\ frames' = SetTop([Top EXCEPT !.stage = "units", !.units = TextUnits(Top.text), !.denial = verdict])
             /\ UNCHANGED row
    <2> DEFINE frame == [Top EXCEPT !.stage = "units", !.units = TextUnits(Top.text), !.denial = verdict]
    <2>1. /\ frame \in FrameRecords /\ frame.stage = "units" /\ frame.text = text /\ frame.units = TextUnits(text)
          /\ frame.denial = verdict /\ frame.outcomes = <<>> /\ ~frame.violated
      BY <1>1, <1>2, <1>3, <1>6 DEF FrameRecords
    <2>2. Len(<<>>) <= TextUnits(text)
      BY <1>3
    <2>3. FrameOK(frame)
      BY <1>6, <2>1, <2>2 DEF FrameOK
    <2> QED BY <1>1, <1>4, <1>6, <2>1, <2>3, SetTopStep
  <1>7. CASE text.form # "policy" /\ verdict \in Errors /\ Return(Top, verdict, FALSE)
    <2>1. verdict # "ok" /\ verdict \notin Denials
      BY <1>7 DEF Errors, Denials
    <2>2. frames' = Pop /\ row' = [text |-> text, outcomes |-> <<>>, allowed |-> FALSE, code |-> verdict,
                                  violated |-> FALSE]
      BY <1>2, <1>7, <2>1 DEF Return
    <2>3. FirstRefused(<<>>) = 0
      <3>1. <<>> \in Seq({"ok"})
        OBVIOUS
      <3> QED BY <3>1, AllAdmitted
    <2>4. EngineOrder(text, <<>>) = verdict
      BY <2>3 DEF EngineOrder
    <2> HIDE DEF verdict, text
    <2>5. FirstFailureDecides'
      BY <1>7, <2>2, <2>4 DEF FirstFailureDecides
    <2>6. CodesMatchViolations'
      BY <2>1, <2>2 DEF CodesMatchViolations
    <2> QED BY <1>1, <2>2, <2>5, <2>6, PopStep
  <1>8. CASE verdict = "fatal" /\ frames' = Pop /\ UNCHANGED row
    <2>1. FirstFailureDecides' /\ CodesMatchViolations'
      BY <1>8 DEF IInv, FirstFailureDecides, CodesMatchViolations
    <2> QED BY <1>1, <1>8, <2>1, PopStep
  <1> QED BY <1>5, <1>6, <1>7, <1>8 DEF CheckText

\* What is known of the innermost call while it binds, or between binds.
LEMMA UnderWay ==
  ASSUME IInv, NEW stage \in {"units", "binding"}, InFrame(stage)
  PROVE  /\ frames # <<>> /\ Top.stage = stage /\ Top \in FrameRecords /\ FrameOK(Top) /\ Top.text \in Texts
         /\ Top.text.form # "policy" /\ Top.units = TextUnits(Top.text) /\ Top.units \in Nat
         /\ Top.outcomes \in Seq({"ok"}) /\ Len(Top.outcomes) \in Nat /\ Len(Top.outcomes) <= Top.units
         /\ Top.conn \in Conns /\ Top.previous \in Conns \union {None} /\ Top.violated \in BOOLEAN
         /\ Top.unseen \in BOOLEAN
  <1>1. frames # <<>> /\ Top.stage = stage /\ Top \in FrameRecords /\ FrameOK(Top)
    BY StackShape DEF InFrame
  <1>2. /\ Top.text \in Texts /\ Top.units \in Nat /\ Top.outcomes \in Seq({"ok"}) /\ Top.conn \in Conns
        /\ Top.previous \in Conns \union {None} /\ Top.violated \in BOOLEAN /\ Top.unseen \in BOOLEAN
    BY <1>1 DEF FrameRecords
  <1>3. Len(Top.outcomes) \in Nat
    BY ONLY <1>2, LenProperties
  <1> QED BY <1>1, <1>2, <1>3 DEF FrameOK

\* A unit's Authorize up to the bind.
LEMMA BeginBindStep ==
  ASSUME IInv, BeginBind
  PROVE  IInv'
  <1>1. /\ frames # <<>> /\ Top.stage = "units" /\ Top \in FrameRecords /\ FrameOK(Top)
        /\ Top.text.form # "policy" /\ Top.units = TextUnits(Top.text)
        /\ Len(Top.outcomes) < Top.units /\ active_scope = Outer(Len(frames)) /\ asked' = asked
    BY UnderWay, StackShape DEF BeginBind, MoreToBind
  <1>2. active_scope \in Conns \union {None}
    <2>1. Len(frames) # 1 => frames[Len(frames) - 1] \in FrameRecords
      BY <1>1, StackShape
    <2>2. \A frame \in FrameRecords : frame.conn \in Conns
      BY DEF FrameRecords
    <2> QED BY <1>1, <2>1, <2>2 DEF Outer
  <1>3. CASE /\ frames' = SetTop([Top EXCEPT !.stage = "binding", !.unseen = FALSE, !.previous = active_scope])
             /\ active_scope' = Top.conn /\ UNCHANGED row
    <2> DEFINE frame == [Top EXCEPT !.stage = "binding", !.unseen = FALSE, !.previous = active_scope]
    <2>1. /\ frame \in FrameRecords /\ frame.stage = "binding" /\ frame.previous = active_scope /\ frame.conn = Top.conn
          /\ frame.text = Top.text /\ frame.units = Top.units /\ frame.denial = Top.denial
          /\ frame.outcomes = Top.outcomes
      BY <1>1, <1>2 DEF FrameRecords
    <2>2. FrameOK(frame)
      BY <1>1, <2>1 DEF FrameOK
    <2>3. LookupsMeetTheirScope'
      BY <1>1 DEF IInv, LookupsMeetTheirScope
    <2> QED BY <1>1, <1>3, <2>1, <2>2, <2>3, SetTopStep
  <1>4. CASE Raise([Top EXCEPT !.violated = TRUE], "binding") /\ UNCHANGED active_scope
    <2> DEFINE frame == [Top EXCEPT !.violated = TRUE]
    <2>1. /\ frame \in FrameRecords /\ frame.text = Top.text /\ frame.units = Top.units
          /\ frame.outcomes = Top.outcomes
      BY <1>1 DEF FrameRecords
    <2> HIDE DEF frame
    <2> QED BY <1>1, <1>4, <2>1, RaiseStep DEF frame
  <1>5. ASSUME NEW error \in {"binding", "fatal"}, Raise(Top, error), UNCHANGED active_scope
        PROVE  IInv'
    BY <1>1, <1>5, RaiseStep
  <1> QED BY <1>3, <1>4, <1>5 DEF BeginBind

\* A step inside the bind that changes only what the call has recorded.
LEMMA MarkStep ==
  ASSUME IInv, InFrame("binding"), NEW frame \in FrameRecords, frames' = SetTop(frame), frame.stage = "binding",
         frame.text = Top.text, frame.units = Top.units, frame.denial = Top.denial, frame.outcomes = Top.outcomes,
         frame.conn = Top.conn, frame.previous = Top.previous, UNCHANGED <<active_scope, row>>, LookupsMeetTheirScope'
  PROVE  IInv'
  <1>1. /\ frames # <<>> /\ Top.stage = "binding" /\ FrameOK(Top) /\ Top.previous = Outer(Len(frames))
        /\ active_scope = Top.conn
    BY UnderWay, StackShape
  <1>2. FrameOK(frame)
    BY <1>1 DEF FrameOK
  <1> QED BY <1>1, <1>2, SetTopStep

\* A lookup the gate is asked about.
LEMMA ReplacementScanStep ==
  ASSUME IInv, NEW c \in Conns, ReplacementScan(c)
  PROVE  IInv'
  <1>1. InFrame("binding") /\ frames # <<>> /\ Top \in FrameRecords /\ Top.stage = "binding" /\ active_scope = Top.conn
    BY UnderWay, StackShape DEF ReplacementScan
  <1>2. /\ asked' = [conn |-> c, by |-> Gate(c), validating |-> c = Top.conn]
        /\ UNCHANGED <<active_scope, row>>
    BY DEF ReplacementScan
  <1>3. LookupsMeetTheirScope'
    BY <1>1, <1>2 DEF LookupsMeetTheirScope, Gate
  <1>4. CASE UNCHANGED frames
    <2>1. Nested'
      BY <1>2, <1>4 DEF IInv, Nested, Outer, Top
    <2>2. FirstFailureDecides' /\ CodesMatchViolations'
      BY <1>2 DEF IInv, FirstFailureDecides, CodesMatchViolations
    <2> QED BY <1>3, <1>4, <2>1, <2>2 DEF IInv
  <1>5. CASE frames' = SetTop([Top EXCEPT !.violated = TRUE])
    <2> DEFINE frame == [Top EXCEPT !.violated = TRUE]
    <2>1. /\ frame \in FrameRecords /\ frame.stage = "binding" /\ frame.text = Top.text /\ frame.units = Top.units
          /\ frame.denial = Top.denial /\ frame.outcomes = Top.outcomes /\ frame.conn = Top.conn
          /\ frame.previous = Top.previous
      BY <1>1 DEF FrameRecords
    <2> HIDE DEF frame
    <2> QED BY <1>1, <1>2, <1>3, <1>5, <2>1, MarkStep DEF frame
  <1> QED BY <1>4, <1>5 DEF ReplacementScan

\* A replacement the gate never saw, or an object it refuses.
LEMMA NoteStep ==
  ASSUME IInv, UnseenReplacement \/ LookupRefused
  PROVE  IInv'
  <1>1. InFrame("binding") /\ Top \in FrameRecords /\ Top.stage = "binding" /\ UNCHANGED <<active_scope, asked, row>>
    BY UnderWay DEF UnseenReplacement, LookupRefused
  <1>2. PICK frame \in {[Top EXCEPT !.unseen = TRUE], [Top EXCEPT !.violated = TRUE]} : frames' = SetTop(frame)
    BY DEF UnseenReplacement, LookupRefused
  <1>3. /\ frame \in FrameRecords /\ frame.stage = "binding" /\ frame.text = Top.text /\ frame.units = Top.units
        /\ frame.denial = Top.denial /\ frame.outcomes = Top.outcomes /\ frame.conn = Top.conn
        /\ frame.previous = Top.previous
    BY <1>1, <1>2 DEF FrameRecords
  <1>4. LookupsMeetTheirScope'
    BY <1>1 DEF IInv, LookupsMeetTheirScope
  <1> QED BY <1>1, <1>2, <1>3, <1>4, MarkStep

\* The bind raises.
LEMMA BindRaisesStep ==
  ASSUME IInv, BindRaises
  PROVE  IInv'
  <1>1. /\ frames # <<>> /\ Top \in FrameRecords /\ Top.text.form # "policy" /\ Top.units = TextUnits(Top.text)
        /\ Len(Top.outcomes) < Top.units /\ active_scope' = Outer(Len(frames)) /\ asked' = asked
    BY UnderWay, StackShape DEF BindRaises, RestoreScope, FrameOK
  <1>2. ASSUME NEW error \in {"parser", "binding", "fatal"}, Raise(Top, error)
        PROVE  IInv'
    BY <1>1, <1>2, RaiseStep
  <1>3. CASE Raise([Top EXCEPT !.violated = TRUE], "binding")
    <2> DEFINE frame == [Top EXCEPT !.violated = TRUE]
    <2>1. /\ frame \in FrameRecords /\ frame.text = Top.text /\ frame.units = Top.units
          /\ frame.outcomes = Top.outcomes
      BY <1>1 DEF FrameRecords
    <2> HIDE DEF frame
    <2> QED BY <1>1, <1>3, <2>1, RaiseStep DEF frame
  <1> QED BY <1>2, <1>3 DEF BindRaises

\* The bind completes: refused for a violation, bound again in the large shape, or done.
LEMMA BindCompletesStep ==
  ASSUME IInv, BindCompletes
  PROVE  IInv'
  <1> DEFINE done == [Top EXCEPT !.stage = "units", !.violated = @ \/ Top.unseen, !.previous = None]
             again == [done EXCEPT !.shape = "large"]
             next == [done EXCEPT !.shape = "small", !.outcomes = Append(@, "ok")]
  <1>1. /\ frames # <<>> /\ Top \in FrameRecords /\ FrameOK(Top) /\ Top.stage = "binding"
        /\ Top.text.form # "policy" /\ Top.units = TextUnits(Top.text) /\ Top.units \in Nat
        /\ Top.outcomes \in Seq({"ok"}) /\ Len(Top.outcomes) \in Nat /\ Len(Top.outcomes) < Top.units
        /\ active_scope' = Outer(Len(frames)) /\ asked' = asked /\ Top.violated \in BOOLEAN /\ Top.unseen \in BOOLEAN
        /\ Top.denial = TextVerdict(Top.text)
    BY UnderWay, StackShape DEF BindCompletes, RestoreScope, FrameOK
  <1>2. Append(Top.outcomes, "ok") \in Seq({"ok"}) /\ Len(Append(Top.outcomes, "ok")) = Len(Top.outcomes) + 1
    <2>1. "ok" \in {"ok"}
      OBVIOUS
    <2> QED BY ONLY <1>1, <2>1, AppendProperties
  <1>3. LookupsMeetTheirScope'
    BY <1>1 DEF IInv, LookupsMeetTheirScope
  <1>4. /\ done \in FrameRecords /\ done.stage = "units" /\ done.text = Top.text /\ done.units = Top.units
        /\ done.outcomes = Top.outcomes /\ done.denial = Top.denial
    BY <1>1 DEF FrameRecords
  <1>5. /\ again \in FrameRecords /\ again.stage = "units" /\ again.text = Top.text /\ again.units = Top.units
        /\ again.outcomes = Top.outcomes /\ again.denial = Top.denial /\ again.violated = done.violated
    <2> HIDE DEF done
    <2> QED BY <1>4 DEF FrameRecords
  <1>6. /\ next \in FrameRecords /\ next.stage = "units" /\ next.text = Top.text /\ next.units = Top.units
        /\ next.outcomes = Append(Top.outcomes, "ok") /\ next.denial = Top.denial /\ next.violated = done.violated
    <2> HIDE DEF done
    <2> QED BY <1>2, <1>4 DEF FrameRecords
  <1>7. \/ done.violated /\ Raise(done, "binding")
        \/ ~done.violated /\ frames' = SetTop(again) /\ row' = row
        \/ ~done.violated /\ frames' = SetTop(next) /\ row' = row
    BY DEF BindCompletes
  <1> HIDE DEF done, again, next
  <1>8. CASE Raise(done, "binding")
    BY <1>1, <1>4, <1>8, RaiseStep
  <1>9. CASE ~done.violated /\ frames' = SetTop(again) /\ row' = row
    <2>1. FrameOK(again)
      BY <1>1, <1>5, <1>9 DEF FrameOK
    <2> QED BY <1>1, <1>3, <1>5, <1>9, <2>1, SetTopStep
  <1>10. CASE ~done.violated /\ frames' = SetTop(next) /\ row' = row
    <2>1. FrameOK(next)
      BY <1>1, <1>2, <1>6, <1>10 DEF FrameOK
    <2> QED BY <1>1, <1>3, <1>6, <1>10, <2>1, SetTopStep
  <1> QED BY <1>7, <1>8, <1>9, <1>10

\* Every unit is bound: the row carries the text's own verdict.
LEMMA FinishStep ==
  ASSUME IInv, Finish
  PROVE  IInv'
  <1> DEFINE out == Top.outcomes
             text == Top.text
             verdict == TextVerdict(Top.text)
             flag == IF Top.denial = "ok" THEN Top.violated ELSE TRUE
  <1>1. /\ frames # <<>> /\ Top \in FrameRecords /\ FrameOK(Top) /\ Top.stage = "units" /\ text.form # "policy"
        /\ Top.units = TextUnits(text) /\ Top.units \in Nat /\ out \in Seq({"ok"}) /\ Len(out) \in Nat
        /\ Len(out) <= Top.units /\ ~(Len(out) < Top.units) /\ ~Top.violated
        /\ active_scope' = Outer(Len(frames)) /\ asked' = asked
        /\ Top.denial = verdict
    BY UnderWay, StackShape DEF Finish, MoreToBind, FrameOK
  <1>2. verdict \in {"ok"} \union Denials
    BY <1>1 DEF FrameRecords
  <1>3. /\ frames' = Pop
        /\ row' = [text |-> text, outcomes |-> out, allowed |-> verdict = "ok", code |-> verdict, violated |-> flag]
    BY <1>1 DEF Finish, Return
  <1>4. Len(out) = TextUnits(text) /\ FirstRefused(out) = 0 /\ \A i \in DOMAIN out : out[i] = "ok"
    <2>1. FirstRefused(out) = 0
      BY <1>1, AllAdmitted
    <2>2. \A s \in Seq({"ok"}) : \A i \in DOMAIN s : s[i] = "ok"
      OBVIOUS
    <2>3. \A i \in DOMAIN out : out[i] = "ok"
      BY ONLY <1>1, <2>2
    <2> QED BY <1>1, <2>1, <2>3
  <1>5. EngineOrder(text, out) = verdict
    BY <1>4 DEF EngineOrder
  <1>6. (flag <=> verdict \in Denials) /\ (verdict = "ok" => ~flag)
    BY <1>1, <1>2 DEF Denials
  <1> HIDE DEF out, text, verdict, flag
  <1>7. FirstFailureDecides'
    BY <1>3, <1>4, <1>5 DEF FirstFailureDecides
  <1>8. CodesMatchViolations'
    BY <1>3, <1>4, <1>6 DEF CodesMatchViolations
  <1> QED BY <1>1, <1>3, <1>7, <1>8, PopStep
-----------------------------------------------------------------------------
(***************************************************************************)
(* The theorems.                                                           *)
(***************************************************************************)
LEMMA InitInv == Init => IInv
  <1> SUFFICES ASSUME Init PROVE IInv
    OBVIOUS
  <1>1. frames = <<>> /\ active_scope = None /\ asked = None /\ row = None
    BY DEF Init
  <1>2. frames \in Seq(FrameRecords) /\ DOMAIN frames = {}
    BY <1>1
  <1> QED BY <1>1, <1>2 DEF IInv, Nested, FirstFailureDecides, CodesMatchViolations, LookupsMeetTheirScope

LEMMA NextInv == IInv /\ [Next]_vars => IInv'
  <1> SUFFICES ASSUME IInv, [Next]_vars PROVE IInv'
    OBVIOUS
  <1>1. CASE UNCHANGED vars
    <2>1. Nested'
      BY <1>1 DEF vars, IInv, Nested, Outer, Top
    <2>2. FirstFailureDecides' /\ CodesMatchViolations' /\ LookupsMeetTheirScope'
      BY <1>1 DEF vars, IInv, FirstFailureDecides, CodesMatchViolations, LookupsMeetTheirScope
    <2> QED BY <1>1, <2>1, <2>2 DEF vars, IInv
  <1> QED BY <1>1, CallStep, ReplacementScanStep, CheckTextStep, BeginBindStep, NoteStep, BindRaisesStep,
             BindCompletesStep, FinishStep DEF Next

\* In every behaviour, for every set of texts and connections, calls are nested one inside another's bind, and each
\* holds what it has checked and bound so far.
THEOREM Invariant == Spec => []IInv
  BY InitInv, NextInv, PTL DEF Spec

\* The row gatekeeper_validate returns reports the first statement that fails in the engine's order, text before bind,
\* and an admitted text only after every statement of it was bound (check.cpp, Check).
THEOREM RowsFollowEngineOrder == Spec => []FirstFailureDecides
  <1>1. IInv => FirstFailureDecides
    BY DEF IInv
  <1> QED BY <1>1, Invariant, PTL

\* An allowed row carries no violation, and a row carries violations exactly when its code is that of a decision
\* (validator.hpp, GatekeeperResult; check.cpp, MarkDenied).
THEOREM CodesTellDecisionsFromErrors == Spec => []CodesMatchViolations
  <1>1. IInv => CodesMatchViolations
    BY DEF IInv
  <1> QED BY <1>1, Invariant, PTL

\* The replacement gate decides a lookup under a validation's scope exactly when the lookup is that validation's own,
\* however calls nest and whichever way they end (check.cpp, active_scope and ScopeGuard).
THEOREM LookupsAreDecidedByTheirOwn == Spec => []LookupsMeetTheirScope
  <1>1. IInv => LookupsMeetTheirScope
    BY DEF IInv
  <1> QED BY <1>1, Invariant, PTL

\* The thread's pointer names the innermost bind under way, and each guard holds the one outside it: no way out of a
\* nested validation loses the outer one's scope (check.cpp, ScopeGuard).
THEOREM GuardsRestoreTheScope == Spec => []ScopeIsInnermost
  <1>1. IInv => ScopeIsInnermost
    <2> SUFFICES ASSUME IInv PROVE ScopeIsInnermost
      OBVIOUS
    <2> DEFINE n == Len(frames)
               m == IF frames # <<>> /\ Top.stage # "binding" THEN n - 1 ELSE n
    <2>1. n \in Nat /\ DOMAIN frames = 1 .. n /\ (n = 0 <=> frames = <<>>)
      BY DEF IInv
    <2>2. Binding = 1 .. m /\ m \in Nat
      BY <2>1 DEF IInv, Nested, Binding, Top
    <2>3. \A i \in Binding : frames[i].previous = IF i = 1 THEN None ELSE frames[i - 1].conn
      BY DEF IInv, Nested, Outer, Binding
    <2>4. CASE m = 0
      <3>1. Binding = {}
        <4> HIDE DEF m
        <4> QED BY <2>2, <2>4
      <3>2. active_scope = None
        BY <2>1, <2>4 DEF IInv, Nested, Outer
      <3> QED BY <2>3, <3>1, <3>2 DEF ScopeIsInnermost, InnermostBinding
    <2>5. CASE m # 0
      <3>1. m \in Binding /\ \A j \in Binding : j <= m
        <4> HIDE DEF m
        <4> QED BY <2>2, <2>5
      <3>2. (CHOOSE i \in Binding : \A j \in Binding : j <= i) = m
        BY <2>2, <2>5, <3>1
      <3>3. InnermostBinding = frames[m].conn
        BY <3>1, <3>2 DEF InnermostBinding
      <3>4. active_scope = frames[m].conn
        BY <2>1, <2>5 DEF IInv, Nested, Outer, Top
      <3> QED BY <2>3, <3>3, <3>4 DEF ScopeIsInnermost
    <2> QED BY <2>4, <2>5
  <1> QED BY <1>1, Invariant, PTL
=============================================================================
