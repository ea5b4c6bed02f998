-------------------------- MODULE ResolutionProofs --------------------------
(***************************************************************************)
(* Theorems about Resolution, for any keys, any acyclic bindings and any   *)
(* number of requests and factory calls.                                   *)
(*                                                                         *)
(* The argument: what a frame's context is follows from the frame right    *)
(* below it (Linked), so the stack is described by what holds of each      *)
(* frame, of each two neighbours, of the bottom and of the top. Every      *)
(* action replaces the top, pushes a frame on it, or returns from it into  *)
(* the frame below, and each of these is argued once.                      *)
(***************************************************************************)
EXTENDS Resolution, TLAPS, SequenceTheorems, FiniteSetTheorems, WellFoundedInduction

Values ==
    [from : {"new"}, id : Nat] \cup [from : {"argument"}, call : Nat, key : Keys]
      \cup [from : {"bound"}, key : Keys] \cup [from : {"nowhere"}]

Contexts == [call : Nat, params : SUBSET Keys]

StackFrames ==
    [want : Wants, context : Contexts, step : Steps, got : Seq(Values), at : Nat,
     value : Values]

Objects ==
    [key : Keys, made : {"ctor", "provider", "factory"}, args : Seq(Values),
     holds : SUBSET Values]

\* The steps of a frame with others above it, and of the one on top.
Covered == {"args", "wait", "call", "body"}
Open == {"look", "args", "body", "invoked", "return"}

\* A value that is a new object is one that has been made.
Known(v) == v.from = "new" => v.id \in 1..Len(objects)

\* A frame, wherever it is on the stack.
FrameOK(f) ==
    /\ f.context.call <= calls
    /\ f.at <= Len(f.got)
    /\ f.at # 0 => f.step = "args"
    /\ f.step \in {"args", "body"} => entry[f.want.key].kind \in {"ctor", "provider"}
    /\ f.step = "args" => Len(f.got) = Len(entry[f.want.key].args)
    /\ Known(f.value) /\ \A i \in 1..Len(f.got) : Known(f.got[i])

\* A frame and the one it waits for: only a running body calls a factory, and a
\* request has the context of whoever makes it, or none if that is a singleton.
Linked(f, g) ==
    /\ f.step \in Covered
    /\ g.step = "call" <=> f.step = "body"
    /\ g.step # "call" =>
         g.context = IF AnswersSingleton(f) THEN EmptyContext ELSE f.context

BottomOK(f) == f.step = "call" \/ f.context = EmptyContext
TopOK(f) == f.step \in Open /\ f.at = 0

StackOK ==
    /\ stack \in Seq(StackFrames)
    /\ \A i \in 1..Len(stack) : FrameOK(stack[i])
    /\ \A i \in 1..Len(stack), j \in 1..Len(stack) :
         j = i + 1 => Linked(stack[i], stack[j])
    /\ stack # <<>> => BottomOK(stack[1]) /\ TopOK(TopFrame)

DataOK ==
    /\ entry \in Bindings
    /\ objects \in Seq(Objects)
    /\ \A n \in 1..Len(objects) :
         /\ objects[n].made = "factory" => entry[objects[n].key].kind = "factory"
         /\ \A i \in 1..Len(objects[n].args) : Known(objects[n].args[i])
    /\ single \in [Keys -> Values] /\ \A k \in Keys : Known(single[k])
    /\ handed \in Seq(Values) /\ \A i \in 1..Len(handed) : Known(handed[i])
    /\ calls \in 0..MaxCalls /\ requests \in 0..MaxRequests
    /\ status \in {"ok", "aborted", "corrupt"}

\* The bindings stay, and nothing made or called is forgotten.
Grows ==
    /\ entry' = entry
    /\ calls \in Nat /\ calls' \in Nat /\ calls <= calls'
    /\ Len(objects) \in Nat /\ Len(objects') \in Nat
    /\ Len(objects) <= Len(objects')

StackInv == DataOK /\ StackOK

-----------------------------------------------------------------------------
(* Values, entries and stacks. *)

LEMMA ValuesAre ==
    /\ NoValue \in Values
    /\ \A n \in Nat : New(n) \in Values
    /\ \A c \in Nat, k \in Keys : Argument(c, k) \in Values
    /\ \A k \in Keys : BoundInstance(k) \in Values
  BY DEF Values, NoValue, New, Argument, BoundInstance

\* Values of different kinds differ, and the number tells new ones apart.
LEMMA ValuesDiffer ==
    /\ \A n \in Nat : New(n).from = "new" /\ New(n).id = n
    /\ \A c, k : Argument(c, k).from = "argument"
    /\ \A k : BoundInstance(k).from = "bound"
    /\ NoValue.from = "nowhere"
    /\ \A v \in Values : v.from = "new" => v.id \in Nat /\ v = New(v.id)
  BY DEF Values, NoValue, New, Argument, BoundInstance

\* The fields an entry has, by its kind.
LEMMA EntryFields ==
    ASSUME DataOK, NEW k \in Keys
    PROVE  /\ entry[k].kind \in {"ctor", "provider"} => entry[k].args \in Seq(Wants)
           /\ entry[k].kind \in {"type", "singleton", "factory"} => entry[k].to \in Wants
           /\ entry[k].kind = "factory" => entry[k].params \in SUBSET Keys
  <1>1. entry[k] \in Entries
    BY ResolutionAssumption DEF DataOK
  <1> QED
    BY <1>1 DEF Entries, CtorEntries, ProviderEntries, TypeEntries, SingletonEntries,
                FactoryEntries, InstanceEntries, InvalidEntries

LEMMA EntryKinds ==
    ASSUME DataOK, NEW k \in Keys
    PROVE  entry[k].kind \in {"ctor", "provider", "type", "singleton", "factory",
                              "instance", "none"}
  <1>1. entry[k] \in Entries
    BY ResolutionAssumption DEF DataOK
  <1> QED
    BY <1>1 DEF Entries, CtorEntries, ProviderEntries, TypeEntries, SingletonEntries,
                FactoryEntries, InstanceEntries, InvalidEntries

\* The first n elements of a sequence.
LEMMA PrefixIs ==
    ASSUME NEW S, NEW s \in Seq(S), NEW n \in Nat, n <= Len(s)
    PROVE  /\ SubSeq(s, 1, n) \in Seq(S) /\ Len(SubSeq(s, 1, n)) = n
           /\ \A i \in 1..n : SubSeq(s, 1, n)[i] = s[i]
  <1>1. Len(s) \in Nat
    OBVIOUS
  <1> QED  BY <1>1

\* A stack whose top is replaced, pushed upon, returned from into the frame
\* below, or gone together with that.
LEMMA TopReplaced ==
    ASSUME NEW S, NEW s \in Seq(S), s # <<>>, NEW f \in S
    PROVE  /\ Append(Front(s), f) \in Seq(S) /\ Len(Append(Front(s), f)) = Len(s)
           /\ \A i \in 1..Len(s) :
                Append(Front(s), f)[i] = IF i = Len(s) THEN f ELSE s[i]
  <1>1. PICK n \in Nat : Len(s) = n + 1 /\ Len(s) - 1 = n
    OBVIOUS
  <1>2. /\ Front(s) \in Seq(S) /\ Len(Front(s)) = n
        /\ \A i \in 1..n : Front(s)[i] = s[i]
    BY <1>1, PrefixIs DEF Front
  <1> QED  BY <1>1, <1>2

LEMMA TopPushed ==
    ASSUME NEW S, NEW s \in Seq(S), s # <<>>, NEW f \in S, NEW g \in S
    PROVE  /\ Front(s) \o <<f, g>> \in Seq(S)
           /\ Len(Front(s) \o <<f, g>>) = Len(s) + 1
           /\ \A i \in 1..(Len(s) + 1) :
                (Front(s) \o <<f, g>>)[i] = IF i = Len(s) + 1 THEN g
                                            ELSE IF i = Len(s) THEN f ELSE s[i]
  <1>1. PICK n \in Nat : Len(s) = n + 1 /\ Len(s) - 1 = n
    OBVIOUS
  <1>2. /\ Front(s) \in Seq(S) /\ Len(Front(s)) = n
        /\ \A i \in 1..n : Front(s)[i] = s[i]
    BY <1>1, PrefixIs DEF Front
  <1> QED  BY <1>1, <1>2

LEMMA TopReturned ==
    ASSUME NEW S, NEW s \in Seq(S), Len(s) > 1, NEW f \in S
    PROVE  /\ Append(SubSeq(s, 1, Len(s) - 2), f) \in Seq(S)
           /\ Len(Append(SubSeq(s, 1, Len(s) - 2), f)) = Len(s) - 1
           /\ \A i \in 1..(Len(s) - 1) :
                Append(SubSeq(s, 1, Len(s) - 2), f)[i] =
                  IF i = Len(s) - 1 THEN f ELSE s[i]
  <1>1. PICK n \in Nat : Len(s) = n + 2 /\ Len(s) - 2 = n
    OBVIOUS
  <1>2. /\ SubSeq(s, 1, n) \in Seq(S) /\ Len(SubSeq(s, 1, n)) = n
        /\ \A i \in 1..n : SubSeq(s, 1, n)[i] = s[i]
    BY <1>1, PrefixIs
  <1> QED  BY <1>1, <1>2

LEMMA TwoGone ==
    ASSUME NEW S, NEW s \in Seq(S), Len(s) > 1
    PROVE  /\ SubSeq(s, 1, Len(s) - 2) \in Seq(S)
           /\ Len(SubSeq(s, 1, Len(s) - 2)) = Len(s) - 2
           /\ \A i \in 1..(Len(s) - 2) : SubSeq(s, 1, Len(s) - 2)[i] = s[i]
  <1>1. PICK n \in Nat : Len(s) = n + 2 /\ Len(s) - 2 = n
    OBVIOUS
  <1> QED  BY <1>1, PrefixIs

LEMMA TwoAdded ==
    ASSUME NEW S, NEW s \in Seq(S), NEW f \in S, NEW g \in S
    PROVE  /\ s \o <<f, g>> \in Seq(S) /\ Len(s \o <<f, g>>) = Len(s) + 2
           /\ \A i \in 1..(Len(s) + 2) :
                (s \o <<f, g>>)[i] = IF i = Len(s) + 2 THEN g
                                     ELSE IF i = Len(s) + 1 THEN f ELSE s[i]
  OBVIOUS

-----------------------------------------------------------------------------
(* What each way of changing the stack keeps of it. *)

\* The frames at hand are frames.
LEMMA TopIs ==
    ASSUME StackOK, stack # <<>>
    PROVE  /\ Len(stack) \in Nat /\ Len(stack) > 0
           /\ TopFrame \in StackFrames /\ TopFrame = stack[Len(stack)]
           /\ FrameOK(TopFrame) /\ TopOK(TopFrame)
           /\ Len(stack) > 1 => /\ Below \in StackFrames /\ FrameOK(Below)
                                /\ Below = stack[Len(stack) - 1]
                                /\ Linked(Below, TopFrame)
  BY DEF StackOK, TopFrame, Last, Below

\* What holds of a frame goes on to hold as long as it is left alone.
LEMMA FrameStays ==
    ASSUME Grows
    PROVE  /\ \A f \in StackFrames : FrameOK(f) => FrameOK(f)'
           /\ \A f, g : Linked(f, g) => Linked(f, g)'
  <1>1. \A v \in Values : Known(v) => Known(v)'
    BY DEF Known, Grows
  <1>2. ASSUME NEW f \in StackFrames, FrameOK(f)
        PROVE  FrameOK(f)'
    <2>1. /\ f.value \in Values /\ f.got \in Seq(Values)
          /\ f.context.call \in Nat
      BY DEF StackFrames, Contexts
    <2>2. f.context.call <= calls'
      BY <1>2, <2>1 DEF FrameOK, Grows
    <2>3. Known(f.value)' /\ \A i \in 1..Len(f.got) : Known(f.got[i])'
      BY <1>1, <1>2, <2>1 DEF FrameOK
    <2> QED  BY <1>2, <2>2, <2>3 DEF FrameOK, Grows
  <1>3. \A f, g : Linked(f, g) => Linked(f, g)'
    BY DEF Linked, AnswersSingleton, Grows
  <1> QED  BY <1>2, <1>3

\* The top frame goes on to another step.
LEMMA TopGoesOn ==
    ASSUME StackOK, stack # <<>>, Grows, NEW f \in StackFrames, ReplaceTop(f),
           f.context = TopFrame.context, TopOK(f), FrameOK(f)'
    PROVE  StackOK'
  <1> DEFINE n == Len(stack)
  <1>1. /\ n \in Nat /\ n > 0
        /\ stack' \in Seq(StackFrames) /\ Len(stack') = n
        /\ \A i \in 1..n : stack'[i] = IF i = n THEN f ELSE stack[i]
    BY TopReplaced DEF StackOK, ReplaceTop
  <1>2. TopFrame \in StackFrames /\ TopFrame = stack[n] /\ FrameOK(TopFrame)
    BY TopIs
  <1>3. \A i \in 1..n : FrameOK(stack[i])'
    <2> SUFFICES ASSUME NEW i \in 1..n  PROVE FrameOK(stack[i])'
      OBVIOUS
    <2>1. CASE i = n
      BY <1>1, <2>1 DEF FrameOK, Known
    <2>2. CASE i # n
      <3>1. stack'[i] = stack[i]
        BY <1>1, <2>2
      <3>2. stack[i] \in StackFrames /\ FrameOK(stack[i])
        BY DEF StackOK
      <3>3. PICK h \in StackFrames : h = stack[i] /\ FrameOK(h)'
        BY <3>2, FrameStays
      <3> QED  BY <3>1, <3>3 DEF FrameOK, Known
    <2> QED  BY <2>1, <2>2
  <1>4. ASSUME NEW i \in 1..n, NEW j \in 1..n, j = i + 1
        PROVE  Linked(stack[i], stack[j])'
    <2>1. Linked(stack[i], stack[j])
      BY <1>4 DEF StackOK
    <2>2. i # n /\ stack'[i] = stack[i]
      BY <1>1, <1>4
    <2>3. CASE j # n
      BY <1>1, <2>1, <2>2, <2>3 DEF Linked, AnswersSingleton, Grows
    <2>4. CASE j = n
      <3>1. stack'[j] = f /\ stack[j] = TopFrame
        BY <1>1, <1>2, <2>4
      <3>2. f.step # "call" /\ TopFrame.step # "call"
        BY TopIs DEF TopOK, Open
      <3> QED  BY <2>1, <2>2, <3>1, <3>2 DEF Linked, AnswersSingleton, Grows
    <2> QED  BY <2>3, <2>4
  <1>5. TopOK(TopFrame)'
    BY <1>1 DEF TopFrame, Last, TopOK
  <1>6. BottomOK(stack[1])'
    <2>1. CASE n = 1
      <3>1. TopFrame.step # "call" /\ BottomOK(TopFrame)
        BY <1>2, <2>1, TopIs DEF StackOK, TopOK, Open
      <3> QED  BY <1>1, <2>1, <3>1 DEF BottomOK
    <2>2. CASE n # 1
      BY <1>1, <2>2 DEF StackOK, BottomOK
    <2> QED  BY <2>1, <2>2
  <1> QED  BY <1>1, <1>3, <1>4, <1>5, <1>6 DEF StackOK

\* The top frame asks for something and waits.
LEMMA TopAsks ==
    ASSUME StackOK, stack # <<>>, Grows,
           NEW f \in StackFrames, NEW g \in StackFrames, Push(f, g),
           f.context = TopFrame.context, f.step \in {"args", "wait"},
           FrameOK(f)', FrameOK(g)', TopOK(g),
           g.context = IF AnswersSingleton(f) THEN EmptyContext ELSE f.context
    PROVE  StackOK'
  <1> DEFINE n == Len(stack)
  <1>1. /\ n \in Nat /\ n > 0
        /\ stack' \in Seq(StackFrames) /\ Len(stack') = n + 1
        /\ \A i \in 1..(n + 1) :
             stack'[i] = IF i = n + 1 THEN g ELSE IF i = n THEN f ELSE stack[i]
    BY TopPushed DEF StackOK, Push
  <1>2. TopFrame \in StackFrames /\ TopFrame = stack[n] /\ FrameOK(TopFrame)
        /\ TopFrame.step # "call" /\ f.step # "call" /\ g.step # "call"
    BY TopIs DEF TopOK, Open
  <1>4. \A i \in 1..(n + 1) : FrameOK(stack[i])'
    <2> SUFFICES ASSUME NEW i \in 1..(n + 1)  PROVE FrameOK(stack[i])'
      OBVIOUS
    <2>1. CASE i = n
      BY <1>1, <2>1 DEF FrameOK, Known
    <2>2. CASE i = n + 1
      BY <1>1, <2>2 DEF FrameOK, Known
    <2>3. CASE i \notin {n, n + 1}
      <3>1. i \in 1..n /\ stack'[i] = stack[i]
        BY <1>1, <2>3
      <3>2. stack[i] \in StackFrames /\ FrameOK(stack[i])
        BY <3>1 DEF StackOK
      <3>3. PICK h \in StackFrames : h = stack[i] /\ FrameOK(h)'
        BY <3>2, FrameStays
      <3> QED  BY <3>1, <3>3 DEF FrameOK, Known
    <2> QED  BY <2>1, <2>2, <2>3
  <1>5. ASSUME NEW i \in 1..(n + 1), NEW j \in 1..(n + 1), j = i + 1
        PROVE  Linked(stack[i], stack[j])'
    <2>1. CASE j = n + 1
      <3>1. stack'[i] = f /\ stack'[j] = g
        BY <1>1, <1>5, <2>1
      <3>2. Linked(f, g)'
        BY <1>2 DEF Linked, AnswersSingleton, Covered, Grows
      <3> QED  BY <3>1, <3>2
    <2>2. CASE j # n + 1
      <3>1. i \in 1..n /\ j \in 1..n /\ i # n /\ stack'[i] = stack[i]
        BY <1>1, <1>5, <2>2
      <3>2. Linked(stack[i], stack[j])
        BY <1>5, <3>1 DEF StackOK
      <3>3. CASE j = n
        BY <1>1, <1>2, <3>1, <3>2, <3>3 DEF Linked, AnswersSingleton, Grows
      <3>4. CASE j # n
        BY <1>1, <3>1, <3>2, <3>4 DEF Linked, AnswersSingleton, Grows
      <3> QED  BY <3>3, <3>4
    <2> QED  BY <2>1, <2>2
  <1>6. TopOK(TopFrame)'
    BY <1>1 DEF TopFrame, Last, TopOK
  <1>7. BottomOK(stack[1])'
    <2>1. CASE n = 1
      <3>1. BottomOK(TopFrame)
        BY <1>2, <2>1 DEF StackOK
      <3> QED  BY <1>1, <1>2, <2>1, <3>1 DEF BottomOK
    <2>2. CASE n # 1
      <3>1. stack'[1] = stack[1] /\ BottomOK(stack[1])
        <4>1. 1 \in 1..(n + 1) /\ 1 # n + 1
          BY <1>1
        <4>2. stack'[1] = stack[1]
          BY <1>1, <2>2, <4>1
        <4> QED  BY <4>2 DEF StackOK
      <3> QED  BY <3>1 DEF BottomOK
    <2> QED  BY <2>1, <2>2
  <1> QED  BY <1>1, <1>4, <1>5, <1>6, <1>7 DEF StackOK

\* The frame below takes the value of the top frame and goes on.
LEMMA TopAnswers ==
    ASSUME StackOK, Len(stack) > 1, Grows, NEW f \in StackFrames, ReplaceTwo(f),
           Below.step \in {"args", "wait"}, f.context = Below.context,
           TopOK(f), FrameOK(f)'
    PROVE  StackOK'
  <1> DEFINE n == Len(stack) - 1
  <1>1. /\ n \in Nat /\ n > 0 /\ Len(stack) = n + 1
        /\ stack' \in Seq(StackFrames) /\ Len(stack') = n
        /\ \A i \in 1..n : stack'[i] = IF i = n THEN f ELSE stack[i]
    BY TopReturned DEF StackOK, ReplaceTwo
  <1>2. /\ Below \in StackFrames /\ Below = stack[n] /\ FrameOK(Below)
        /\ Below.step # "call" /\ f.step # "call"
    <2>1. stack # <<>>
      OBVIOUS
    <2>2. Below \in StackFrames /\ Below = stack[n] /\ FrameOK(Below)
      BY <2>1, TopIs
    <2> QED  BY <2>2 DEF TopOK, Open
  <1> HIDE DEF n
  <1>4. \A i \in 1..n : FrameOK(stack[i])'
    <2> SUFFICES ASSUME NEW i \in 1..n  PROVE FrameOK(stack[i])'
      OBVIOUS
    <2>1. CASE i = n
      BY <1>1, <2>1 DEF FrameOK, Known
    <2>2. CASE i # n
      <3>1. stack'[i] = stack[i]
        BY <1>1, <2>2
      <3>2. stack[i] \in StackFrames /\ FrameOK(stack[i])
        BY <1>1 DEF StackOK
      <3>3. PICK h \in StackFrames : h = stack[i] /\ FrameOK(h)'
        BY <3>2, FrameStays
      <3> QED  BY <3>1, <3>3 DEF FrameOK, Known
    <2> QED  BY <2>1, <2>2
  <1>5. ASSUME NEW i \in 1..n, NEW j \in 1..n, j = i + 1
        PROVE  Linked(stack[i], stack[j])'
    <2>1. i # n /\ stack'[i] = stack[i] /\ Linked(stack[i], stack[j])
      BY <1>1, <1>5 DEF StackOK
    <2>2. CASE j = n
      BY <1>1, <1>2, <2>1, <2>2 DEF Linked, AnswersSingleton, Grows
    <2>3. CASE j # n
      BY <1>1, <2>1, <2>3 DEF Linked, AnswersSingleton, Grows
    <2> QED  BY <2>2, <2>3
  <1>6. TopOK(TopFrame)'
    BY <1>1 DEF TopFrame, Last, TopOK
  <1>7. BottomOK(stack[1])'
    <2>1. CASE n = 1
      <3>1. BottomOK(Below)
        BY <1>1, <1>2, <2>1 DEF StackOK
      <3> QED  BY <1>1, <1>2, <2>1, <3>1 DEF BottomOK
    <2>2. CASE n # 1
      BY <1>1, <2>2 DEF StackOK, BottomOK
    <2> QED  BY <2>1, <2>2
  <1> QED  BY <1>1, <1>4, <1>5, <1>6, <1>7 DEF StackOK

\* A factory's Get() returns to the body that called it, if there is one.
LEMMA CallAnswers ==
    ASSUME StackOK, Len(stack) > 1, Grows, Below.step = "call",
           stack' = SubSeq(stack, 1, Len(stack) - 2)
    PROVE  StackOK'
  <1> DEFINE n == Len(stack) - 2
  <1>1. /\ n \in Nat /\ Len(stack) = n + 2
        /\ stack' \in Seq(StackFrames) /\ Len(stack') = n
        /\ \A i \in 1..n : stack'[i] = stack[i]
    BY TwoGone DEF StackOK
  <1> HIDE DEF n
  <1>2. ASSUME NEW i \in 1..n
        PROVE  FrameOK(stack[i])'
    <2>1. stack'[i] = stack[i] /\ stack[i] \in StackFrames /\ FrameOK(stack[i])
      BY <1>1 DEF StackOK
    <2>2. PICK h \in StackFrames : h = stack[i] /\ FrameOK(h)'
      BY <2>1, FrameStays
    <2> QED  BY <2>1, <2>2 DEF FrameOK, Known
  <1>3. \A i \in 1..n, j \in 1..n : j = i + 1 => Linked(stack[i], stack[j])'
    BY <1>1 DEF StackOK, Linked, AnswersSingleton, Grows
  <1>4. ASSUME n > 0
        PROVE  BottomOK(stack[1])' /\ TopOK(TopFrame)'
    <2>1. BottomOK(stack[1])'
      BY <1>1, <1>4 DEF StackOK, BottomOK
    <2>2. /\ n \in 1..Len(stack) /\ n + 1 \in 1..Len(stack)
          /\ stack[n + 1].step = "call" /\ TopFrame' = stack[n]
          /\ stack[n] \in StackFrames
      BY <1>1, <1>4 DEF Below, TopFrame, Last, StackOK
    <2>3. Linked(stack[n], stack[n + 1]) /\ FrameOK(stack[n])
      BY <2>2 DEF StackOK
    <2>4. stack[n].step = "body" /\ stack[n].at = 0
      BY <2>2, <2>3 DEF Linked, FrameOK
    <2> QED  BY <2>1, <2>2, <2>4 DEF TopOK, Open
  <1>5. stack' # <<>> => n > 0
    BY <1>1
  <1> QED  BY <1>1, <1>2, <1>3, <1>4, <1>5 DEF StackOK

\* A factory is called, by the body on top or by the user.
LEMMA CallBegins ==
    ASSUME StackOK, Grows,
           NEW f \in StackFrames, NEW g \in StackFrames, stack' = stack \o <<f, g>>,
           stack = <<>> \/ TopFrame.step = "body",
           f.step = "call", FrameOK(f)', g.step = "look", TopOK(g), FrameOK(g)',
           g.context = f.context
    PROVE  StackOK'
  <1> DEFINE n == Len(stack)
  <1>1. /\ n \in Nat
        /\ stack' \in Seq(StackFrames) /\ Len(stack') = n + 2
        /\ \A i \in 1..(n + 2) :
             stack'[i] = IF i = n + 2 THEN g ELSE IF i = n + 1 THEN f ELSE stack[i]
    BY TwoAdded DEF StackOK
  <1>5. \A i \in 1..(n + 2) : FrameOK(stack[i])'
    <2> SUFFICES ASSUME NEW i \in 1..(n + 2)  PROVE FrameOK(stack[i])'
      OBVIOUS
    <2>1. CASE i = n + 1
      BY <1>1, <2>1 DEF FrameOK, Known
    <2>2. CASE i = n + 2
      BY <1>1, <2>2 DEF FrameOK, Known
    <2>3. CASE i \notin {n + 1, n + 2}
      <3>1. i \in 1..n /\ stack'[i] = stack[i]
        BY <1>1, <2>3
      <3>2. stack[i] \in StackFrames /\ FrameOK(stack[i])
        BY <3>1 DEF StackOK
      <3>3. PICK h \in StackFrames : h = stack[i] /\ FrameOK(h)'
        BY <3>2, FrameStays
      <3> QED  BY <3>1, <3>3 DEF FrameOK, Known
    <2> QED  BY <2>1, <2>2, <2>3
  <1>6. ASSUME NEW i \in 1..(n + 2), NEW j \in 1..(n + 2), j = i + 1
        PROVE  Linked(stack[i], stack[j])'
    <2>1. CASE j = n + 2
      <3>1. stack'[i] = f /\ stack'[j] = g
        BY <1>1, <1>6, <2>1
      <3> QED  BY <3>1 DEF Linked, AnswersSingleton, Covered, Grows
    <2>2. CASE j = n + 1
      <3>1. /\ i = n /\ n > 0 /\ stack'[i] = stack[n] /\ stack'[j] = f
            /\ stack[n] = TopFrame /\ TopFrame.step = "body"
        BY <1>1, <1>6, <2>2 DEF TopFrame, Last
      <3> QED  BY <3>1 DEF Linked, Covered
    <2>3. CASE j # n + 2 /\ j # n + 1
      <3>1. /\ i \in 1..n /\ j \in 1..n
            /\ stack'[i] = stack[i] /\ stack'[j] = stack[j]
        BY <1>1, <1>6, <2>3
      <3>2. Linked(stack[i], stack[j])
        BY <1>6, <3>1 DEF StackOK
      <3> QED  BY <3>1, <3>2 DEF Linked, AnswersSingleton, Grows
    <2> QED  BY <2>1, <2>2, <2>3
  <1>7. TopOK(TopFrame)'
    BY <1>1 DEF TopFrame, Last, TopOK, Open
  <1>8. BottomOK(stack[1])'
    <2>1. CASE n = 0
      BY <1>1, <2>1 DEF BottomOK
    <2>2. CASE n # 0
      BY <1>1, <2>2 DEF StackOK, BottomOK
    <2> QED  BY <2>1, <2>2
  <1> QED  BY <1>1, <1>5, <1>6, <1>7, <1>8 DEF StackOK

-----------------------------------------------------------------------------
(* Every action keeps the types and the stack. *)

\* Nothing has been requested yet.
LEMMA StackInitHolds == Init => StackInv
  <1> SUFFICES ASSUME Init  PROVE StackInv
    OBVIOUS
  <1>1. DataOK
    BY ResolutionAssumption, ValuesAre, ValuesDiffer DEF Init, DataOK, Known
  <1>2. StackOK
    BY DEF Init, StackOK
  <1> QED  BY <1>1, <1>2 DEF StackInv

\* A new frame that looks its request up.
LEMMA NewFrame ==
    ASSUME NEW w \in Wants, NEW c \in Contexts, NEW s \in Steps, s \notin {"args", "body"},
           c.call <= calls'
    PROVE  /\ Frame(w, c, s) \in StackFrames /\ FrameOK(Frame(w, c, s))'
           /\ Frame(w, c, s).context = c /\ Frame(w, c, s).step = s
           /\ Frame(w, c, s).at = 0 /\ Frame(w, c, s).want = w
           /\ Frame(w, c, s).got = <<>> /\ Frame(w, c, s).value = NoValue
  <1>1. Frame(w, c, s) \in StackFrames
    BY ValuesAre DEF Frame, StackFrames
  <1>2. Len(<<>>) = 0
    OBVIOUS
  <1> QED  BY <1>1, <1>2, ValuesDiffer DEF Frame, FrameOK, Known

\* The frame that is on top before the step, and the one below it.
LEMMA TopStays ==
    ASSUME StackInv, stack # <<>>, Grows
    PROVE  /\ \E t \in StackFrames :
                t = TopFrame /\ FrameOK(t) /\ FrameOK(t)' /\ TopOK(t)
           /\ Len(stack) > 1 =>
                \E b \in StackFrames :
                  b = Below /\ FrameOK(b) /\ FrameOK(b)' /\ Linked(b, TopFrame)
  BY TopIs, FrameStays DEF StackInv

\* A step of the top frame that only gives it a value and another step.
LEMMA TopTakesValue ==
    ASSUME StackInv, stack # <<>>, Grows,
           NEW v \in Values, Known(v)', NEW s \in {"invoked", "return"},
           ReplaceTop([TopFrame EXCEPT !.value = v, !.step = s])
    PROVE  StackOK'
  <1>1. PICK t \in StackFrames : t = TopFrame /\ FrameOK(t)' /\ TopOK(t)
    BY TopStays
  <1> DEFINE f == [t EXCEPT !.value = v, !.step = s]
  <1>2. /\ f \in StackFrames /\ f.context = t.context /\ f.want = t.want
        /\ f.at = t.at /\ f.got = t.got /\ f.value = v /\ f.step = s
    BY <1>1 DEF StackFrames, Steps
  <1> HIDE DEF f
  <1>3. TopOK(f) /\ FrameOK(f)'
    BY <1>1, <1>2 DEF TopOK, Open, FrameOK
  <1>4. ReplaceTop(f)
    BY <1>1 DEF f
  <1> QED  BY <1>1, <1>2, <1>3, <1>4, TopGoesOn DEF StackInv

\* The actions that make nothing, keep nothing and hand nothing out.
OnlyStack ==
    \/ LookupAssisted \/ BeginArguments \/ ReadInstance \/ FollowType
    \/ ReadSingleton \/ CreateSingleton \/ NextArgument \/ LeaveBody
    \/ InvokeGetReturns \/ ReturnAsArgument \/ ReturnThrough

\* Values of the frame on top.
LEMMA TopValues ==
    ASSUME StackInv, stack # <<>>
    PROVE  /\ TopFrame.value \in Values /\ Known(TopFrame.value)
           /\ TopFrame.got \in Seq(Values)
           /\ \A i \in 1..Len(TopFrame.got) : Known(TopFrame.got[i])
           /\ TopFrame.want \in Wants /\ TopFrame.want.key \in Keys
           /\ TopFrame.context \in Contexts /\ TopFrame.context.call \in Nat
           /\ TopFrame.context.call <= calls /\ TopFrame.context.params \in SUBSET Keys
  <1>1. TopFrame \in StackFrames /\ FrameOK(TopFrame)
    BY TopIs DEF StackInv
  <1> QED  BY <1>1 DEF StackFrames, FrameOK, Wants, Contexts

\* The data keeps its types, and what is in it has been made.
LEMMA DataHolds ==
    ASSUME StackInv, [Next]_vars
    PROVE  DataOK' /\ Grows
  <1>0. /\ DataOK /\ StackOK /\ calls \in Nat /\ requests \in Nat
        /\ Len(objects) \in Nat /\ MaxCalls \in Nat /\ MaxRequests \in Nat
    BY ResolutionAssumption DEF StackInv, DataOK
  <1>1. ASSUME UNCHANGED <<entry, objects, single, handed>>,
               calls' \in 0..MaxCalls, calls <= calls', requests' \in 0..MaxRequests,
               status' \in {"ok", "aborted", "corrupt"}
        PROVE  DataOK' /\ Grows
    BY <1>0, <1>1 DEF DataOK, Grows, Known
  <1>2. CASE OnlyStack \/ MissingBinding \/ InvokeGetRunsOff \/ UNCHANGED vars
    <2>1. /\ UNCHANGED <<entry, objects, single, handed, calls, requests>>
          /\ status' \in {status, "aborted", "corrupt"}
      BY <1>2 DEF OnlyStack, LookupAssisted, BeginArguments, ReadInstance, FollowType,
           ReadSingleton, CreateSingleton, NextArgument, LeaveBody, InvokeGetReturns,
           ReturnAsArgument, ReturnThrough, MissingBinding, InvokeGetRunsOff, vars
    <2> QED  BY <1>0, <1>1, <2>1 DEF DataOK
  <1>3. ASSUME NEW k \in Keys, Get(k)
        PROVE  DataOK' /\ Grows
    BY <1>0, <1>1, <1>3 DEF Get, DataOK
  <1>4. ASSUME NEW n \in 1..Len(objects), CallFactory(n)
        PROVE  DataOK' /\ Grows
    BY <1>0, <1>1, <1>4 DEF CallFactory, DataOK
  <1>5. ASSUME NEW o \in Objects, objects' = Append(objects, o),
               o.made = "factory" => entry[o.key].kind = "factory",
               \A i \in 1..Len(o.args) : Known(o.args[i]),
               UNCHANGED <<entry, single, handed, requests, calls, status>>
        PROVE  DataOK' /\ Grows
    <2> DEFINE n == Len(objects)
    <2>1. /\ objects' \in Seq(Objects) /\ Len(objects') = n + 1
          /\ \A i \in 1..(n + 1) : objects'[i] = IF i = n + 1 THEN o ELSE objects[i]
      BY <1>0, <1>5 DEF DataOK
    <2>2. Grows
      BY <1>0, <1>5, <2>1 DEF Grows
    <2>3. \A v \in Values : Known(v) => Known(v)'
      BY <2>2 DEF Known, Grows
    <2> HIDE DEF n
    <2>4. ASSUME NEW i \in 1..(n + 1)
          PROVE  /\ objects'[i].made = "factory" => entry[objects'[i].key].kind = "factory"
                 /\ \A j \in 1..Len(objects'[i].args) : Known(objects[i].args[j])'
      <3>1. CASE i = n + 1
        <4>1. objects'[i] = o /\ o.args \in Seq(Values)
          BY <2>1, <3>1 DEF Objects
        <4>2. \A j \in 1..Len(o.args) : Known(o.args[j])'
          BY <1>5, <2>3, <4>1
        <4> QED  BY <1>5, <4>1, <4>2 DEF Known
      <3>2. CASE i # n + 1
        <4>0. i \in 1..n /\ i \in 1..Len(objects)
          BY <1>0, <2>1, <3>2 DEF n
        <4>1. objects'[i] = objects[i] /\ objects[i].args \in Seq(Values)
          <5>1. objects[i] \in Objects
            BY <1>0, <4>0 DEF DataOK
          <5> QED  BY <2>1, <3>2, <5>1 DEF Objects
        <4>2. \A j \in 1..Len(objects[i].args) : Known(objects[i].args[j])
          BY <1>0, <4>0 DEF DataOK
        <4> QED  BY <1>0, <2>3, <4>0, <4>1, <4>2 DEF DataOK, Known
      <3> QED  BY <3>1, <3>2
    <2>5. \A k \in Keys : Known(single[k])'
      BY <1>0, <1>5, <2>3 DEF DataOK, Known
    <2>6. \A i \in 1..Len(handed) : Known(handed[i])'
      BY <1>0, <1>5, <2>3 DEF DataOK, Known
    <2> QED  BY <1>0, <1>5, <2>1, <2>2, <2>4, <2>5, <2>6 DEF DataOK
  <1>6. CASE MakeFactory
    <2> DEFINE o == [key |-> TopFrame.want.key, made |-> "factory", args |-> <<>>,
                     holds |-> {}]
    <2>1. stack # <<>> /\ entry[TopFrame.want.key].kind = "factory"
      BY <1>6 DEF MakeFactory, LookupNormal, Running, EntryOfTop
    <2>2. o \in Objects /\ Len(o.args) = 0 /\ o.key = TopFrame.want.key
      BY <2>1, TopValues DEF Objects
    <2> HIDE DEF o
    <2> QED  BY <1>5, <1>6, <2>1, <2>2 DEF MakeFactory, o
  <1>7. CASE EnterBody
    <2>1. stack # <<>> /\ TopFrame.step = "args"
      BY <1>7 DEF EnterBody, Running
    <2>2. EntryOfTop.kind \in {"ctor", "provider"}
      BY <1>0, <2>1, TopIs DEF FrameOK, EntryOfTop
    <2> DEFINE given == ToSet(TopFrame.got)
               through == UNION {objects[v.id].holds : v \in {g \in given : g.from = "new"}}
               h == through \cup {g \in given : g.from = "argument"}
               o == [key |-> TopFrame.want.key, made |-> EntryOfTop.kind,
                     args |-> TopFrame.got, holds |-> h]
    <2>3. \A g \in given : g \in Values /\ Known(g)
      BY <2>1, TopValues DEF ToSet
    <2>4. ASSUME NEW v \in given, v.from = "new"
          PROVE  objects[v.id].holds \in SUBSET Values
      <3>1. v.id \in 1..Len(objects)
        BY <2>3, <2>4 DEF Known
      <3>2. objects[v.id] \in Objects
        BY <1>0, <3>1 DEF DataOK
      <3> QED  BY <3>2 DEF Objects
    <2> HIDE DEF given
    <2>5. through \in SUBSET Values
      BY <2>4
    <2>6. h \in SUBSET Values
      BY <2>3, <2>5
    <2> HIDE DEF h, through
    <2>7. o \in Objects /\ o.made # "factory" /\ o.args = TopFrame.got
      BY <2>1, <2>2, <2>6, TopValues DEF Objects
    <2>8. objects' = Append(objects, o)
      BY <1>7 DEF EnterBody, h, through, given
    <2>9. \A i \in 1..Len(o.args) : Known(o.args[i])
      BY <2>1, TopValues
    <2> HIDE DEF o
    <2> QED  BY <1>5, <1>7, <2>7, <2>8, <2>9 DEF EnterBody
  <1>8. CASE ReturnToSingleton
    <2>1. /\ stack # <<>> /\ single' = [single EXCEPT ![Below.want.key] = TopFrame.value]
          /\ UNCHANGED <<entry, objects, handed, requests, calls, status>>
      BY <1>8 DEF ReturnToSingleton, ReturnsInto, Running
    <2>2. TopFrame.value \in Values /\ Known(TopFrame.value)
      BY <2>1, TopValues
    <2>3. single' \in [Keys -> Values] /\ \A k \in Keys : Known(single[k])'
      BY <1>0, <2>1, <2>2 DEF DataOK, Known
    <2> QED  BY <1>0, <2>1, <2>3 DEF DataOK, Grows, Known
  <1>9. CASE ReturnToUser \/ ReturnFromCall
    <2>1. /\ stack # <<>> /\ handed' \in {handed, Append(handed, TopFrame.value)}
          /\ UNCHANGED <<entry, objects, single, requests, calls, status>>
      BY <1>9 DEF ReturnToUser, ReturnFromCall, ReturnsInto, Running
    <2>2. TopFrame.value \in Values /\ Known(TopFrame.value)
      BY <2>1, TopValues
    <2>3. handed' \in Seq(Values) /\ \A i \in 1..Len(handed') : Known(handed[i])'
      <3>1. handed \in Seq(Values) /\ \A i \in 1..Len(handed) : Known(handed[i])'
        BY <1>0, <2>1 DEF DataOK, Known
      <3>2. CASE handed' = handed
        BY <3>1, <3>2 DEF Known
      <3>3. CASE handed' = Append(handed, TopFrame.value)
        <4>1. PICK v \in Values : v = TopFrame.value /\ Known(v)'
          BY <2>1, <2>2 DEF Known
        <4>2. /\ handed' \in Seq(Values) /\ Len(handed') = Len(handed) + 1
              /\ \A i \in 1..Len(handed') : handed'[i] = IF i = Len(handed) + 1 THEN v
                                                      ELSE handed[i]
          BY <3>1, <3>3, <4>1
        <4>3. ASSUME NEW i \in 1..Len(handed')
              PROVE  Known(handed[i])'
          <5>1. CASE i = Len(handed) + 1
            BY <4>1, <4>2, <5>1 DEF Known
          <5>2. CASE i # Len(handed) + 1
            <6>1. i \in 1..Len(handed) /\ handed'[i] = handed[i]
              BY <3>1, <4>2, <5>2
            <6> QED  BY <1>0, <2>1, <6>1 DEF DataOK, Known
          <5> QED  BY <5>1, <5>2
        <4> QED  BY <4>2, <4>3
      <3> QED  BY <2>1, <3>2, <3>3
    <2> QED  BY <1>0, <2>1, <2>3 DEF DataOK, Grows, Known
  <1> QED
    BY <1>2, <1>3, <1>4, <1>6, <1>7, <1>8, <1>9 DEF Next, Progress, OnlyStack

\* What is pushed is a request of the frame on top.
LEMMA TopRequests ==
    ASSUME StackInv, stack # <<>>, Grows, NEW w \in Wants,
           NEW a \in Nat, NEW s \in {"args", "wait"},
           s = "wait" => a = 0 /\ TopFrame.step = "look",
           s = "args" => TopFrame.step = "args" /\ a <= Len(TopFrame.got),
           NEW c, c = IF s = "wait" /\ TopFrame.want.how = "normal"
                           /\ entry[TopFrame.want.key].kind = "singleton"
                      THEN EmptyContext ELSE TopFrame.context,
           Push([TopFrame EXCEPT !.step = s, !.at = a], Frame(w, c, "look"))
    PROVE  StackOK'
  <1>1. PICK t \in StackFrames : t = TopFrame /\ FrameOK(t)' /\ TopOK(t)
    BY TopStays
  <1> DEFINE f == [t EXCEPT !.step = s, !.at = a]
             g == Frame(w, c, "look")
  <1>2. /\ f \in StackFrames /\ f.context = t.context /\ f.want = t.want
        /\ f.at = a /\ f.got = t.got /\ f.value = t.value /\ f.step = s
    BY <1>1 DEF StackFrames, Steps
  <1>3. c \in Contexts /\ c.call <= calls'
    <2>1. t.context \in Contexts /\ t.context.call <= calls'
      BY <1>1 DEF StackFrames, FrameOK
    <2>2. EmptyContext \in Contexts /\ EmptyContext.call <= calls'
      BY DEF EmptyContext, Contexts, Grows
    <2> QED  BY <1>1, <2>1, <2>2
  <1>4. /\ g \in StackFrames /\ FrameOK(g)' /\ g.context = c /\ g.step = "look"
        /\ g.at = 0
    BY <1>3, NewFrame DEF Steps
  <1>5. TopOK(g)
    BY <1>4 DEF TopOK, Open
  <1> HIDE DEF f, g
  <1>6. FrameOK(f)'
    BY <1>1, <1>2 DEF FrameOK
  <1>7. g.context = IF AnswersSingleton(f) THEN EmptyContext ELSE f.context
    BY <1>1, <1>2, <1>4 DEF AnswersSingleton
  <1>8. Push(f, g)
    BY <1>1 DEF f, g
  <1> QED
    BY <1>1, <1>2, <1>4, <1>5, <1>6, <1>7, <1>8, TopAsks DEF StackInv

\* The frame on top waits for no argument.
LEMMA TopAtIsZero ==
    ASSUME StackInv, stack # <<>>
    PROVE  /\ TopFrame \in StackFrames /\ TopFrame.at = 0
           /\ \A s : TopFrame.step = s =>
                \A a : [TopFrame EXCEPT !.at = a] = [TopFrame EXCEPT !.step = s, !.at = a]
           /\ \A s : [TopFrame EXCEPT !.step = s] = [TopFrame EXCEPT !.step = s, !.at = 0]
  <1>1. TopFrame \in StackFrames /\ TopFrame.at = 0
    BY TopIs DEF StackInv, TopOK
  <1> QED  BY <1>1 DEF StackFrames

\* The stack keeps its shape in every step.
LEMMA StackHolds ==
    ASSUME StackInv, [Next]_vars
    PROVE  StackOK'
  <1>0. DataOK /\ StackOK /\ DataOK' /\ Grows
    BY DataHolds DEF StackInv
  <1>1. CASE MissingBinding \/ InvokeGetRunsOff \/ UNCHANGED vars
    <2>1. UNCHANGED <<stack, entry, objects, calls>>
      BY <1>1 DEF MissingBinding, InvokeGetRunsOff, vars
    <2>2. \A i \in 1..Len(stack) : FrameOK(stack[i])'
      BY <1>0, <2>1 DEF StackOK, FrameOK, Known
    <2>3. \A i \in 1..Len(stack), j \in 1..Len(stack) :
            j = i + 1 => Linked(stack[i], stack[j])'
      BY <1>0, <2>1 DEF StackOK, Linked, AnswersSingleton
    <2>4. stack # <<>> => BottomOK(stack[1])' /\ TopOK(TopFrame)'
      BY <1>0, <2>1 DEF StackOK, BottomOK, TopOK, TopFrame
    <2> QED  BY <1>0, <2>1, <2>2, <2>3, <2>4 DEF StackOK
  <1>2. ASSUME NEW k \in Keys, Get(k)
        PROVE  StackOK'
    <2> DEFINE w == [how |-> "normal", key |-> k]
               f == Frame(w, EmptyContext, "look")
    <2>1. w \in Wants /\ EmptyContext \in Contexts /\ EmptyContext.call <= calls'
      BY <1>0 DEF Wants, EmptyContext, Contexts, Grows
    <2> HIDE DEF w
    <2>2. /\ f \in StackFrames /\ FrameOK(f)' /\ f.context = EmptyContext
          /\ f.step = "look" /\ f.at = 0
      BY <2>1, NewFrame DEF Steps
    <2>3. stack' = <<f>>
      BY <1>2 DEF Get, w
    <2> HIDE DEF f
    <2>4. /\ stack' \in Seq(StackFrames) /\ Len(stack') = 1 /\ stack'[1] = f
          /\ TopFrame' = f
      BY <2>2, <2>3 DEF TopFrame, Last
    <2>5. \A i \in 1..Len(stack') : FrameOK(stack[i])'
      BY <2>2, <2>4 DEF FrameOK, Known
    <2> QED  BY <2>2, <2>4, <2>5 DEF StackOK, BottomOK, TopOK, Open
  <1>3. ASSUME NEW n \in 1..Len(objects), CallFactory(n)
        PROVE  StackOK'
    <2>1. /\ stack = <<>> \/ TopFrame.step = "body"
          /\ objects[n].made = "factory" /\ calls' = calls + 1
      BY <1>3 DEF CallFactory, Running
    <2>2. PICK e : e = entry[objects[n].key]
      OBVIOUS
    <2>3. objects[n] \in Objects
      BY <1>0 DEF DataOK
    <2>4. objects[n].key \in Keys /\ e.kind = "factory"
      BY <1>0, <2>1, <2>2, <2>3 DEF DataOK, Objects
    <2>5. e.to \in Wants /\ e.params \in SUBSET Keys
      BY <1>0, <2>2, <2>4, EntryFields
    <2>6. PICK c \in Contexts :
            c = [call |-> calls + 1, params |-> e.params] /\ c.call <= calls'
      <3>1. calls + 1 \in Nat /\ calls' \in Nat /\ calls + 1 <= calls'
        BY <1>0, <2>1 DEF Grows
      <3>2. PICK c \in Contexts : c = [call |-> calls + 1, params |-> e.params]
        BY <2>5, <3>1 DEF Contexts
      <3> QED  BY <3>1, <3>2
    <2> DEFINE f == Frame(e.to, c, "call")
               g == Frame(e.to, c, "look")
    <2>7. stack' = stack \o <<f, g>>
      BY <1>3, <2>2, <2>6 DEF CallFactory
    <2>8. f \in StackFrames /\ FrameOK(f)' /\ f.step = "call" /\ f.context = c
      BY <2>5, <2>6, NewFrame DEF Steps
    <2>9. /\ g \in StackFrames /\ FrameOK(g)' /\ g.step = "look" /\ g.context = c
          /\ g.at = 0
      BY <2>5, <2>6, NewFrame DEF Steps
    <2> HIDE DEF f, g
    <2>10. TopOK(g)
      BY <2>9 DEF TopOK, Open
    <2> QED  BY <1>0, <2>1, <2>7, <2>8, <2>9, <2>10, CallBegins
  <1>4. CASE LookupAssisted
    <2>1. /\ stack # <<>> /\ TopFrame.want.key \in Keys
          /\ TopFrame.context.call \in Nat
      BY <1>4, TopValues DEF LookupAssisted, Running
    <2>2. PICK v \in Values : /\ v = Argument(TopFrame.context.call, TopFrame.want.key)
                              /\ v.from = "argument"
      BY <2>1, ValuesAre, ValuesDiffer
    <2> QED
      BY <1>0, <1>4, <2>1, <2>2, TopTakesValue DEF LookupAssisted, Answer, Known
  <1>5. CASE BeginArguments
    <2>1. /\ stack # <<>> /\ EntryOfTop.kind \in {"ctor", "provider"}
          /\ ReplaceTop([TopFrame EXCEPT !.step = "args",
                           !.got = [i \in DOMAIN EntryOfTop.args |-> NoValue]])
      BY <1>5 DEF BeginArguments, LookupNormal, Running
    <2>2. EntryOfTop.args \in Seq(Wants)
      BY <1>0, <2>1, TopValues, EntryFields DEF EntryOfTop
    <2> DEFINE got == [i \in DOMAIN EntryOfTop.args |-> NoValue]
    <2>3. /\ got \in Seq(Values) /\ Len(got) = Len(EntryOfTop.args)
          /\ \A i \in 1..Len(got) : got[i] = NoValue
      BY <2>2, ValuesAre
    <2>4. PICK h \in Seq(Values) : h = got
      BY <2>3
    <2> HIDE DEF got
    <2>5. PICK t \in StackFrames : t = TopFrame /\ FrameOK(t)' /\ TopOK(t)
      BY <1>0, <2>1, TopStays
    <2> DEFINE f == [t EXCEPT !.step = "args", !.got = h]
    <2>6. /\ f \in StackFrames /\ f.context = t.context /\ f.want = t.want
          /\ f.at = 0 /\ f.got = h /\ f.value = t.value /\ f.step = "args"
      BY <2>5 DEF StackFrames, Steps, TopOK
    <2>7. ReplaceTop(f)
      BY <2>1, <2>4, <2>5 DEF got
    <2> HIDE DEF f
    <2>8. /\ entry'[t.want.key].kind \in {"ctor", "provider"}
          /\ Len(h) = Len(entry'[t.want.key].args) /\ Len(h) \in Nat
          /\ \A i \in 1..Len(h) : h[i] = NoValue
      BY <1>0, <2>1, <2>3, <2>4, <2>5 DEF Grows, EntryOfTop
    <2>9. TopOK(f) /\ FrameOK(f)'
      BY <2>5, <2>6, <2>8, ValuesDiffer DEF TopOK, Open, FrameOK, Known
    <2> QED  BY <1>0, <2>1, <2>5, <2>6, <2>7, <2>9, TopGoesOn
  <1>6. CASE ReadInstance
    <2>1. stack # <<>> /\ TopFrame.want.key \in Keys
      BY <1>6, TopValues DEF ReadInstance, LookupNormal, Running
    <2>2. PICK v \in Values : v = BoundInstance(TopFrame.want.key) /\ v.from = "bound"
      BY <2>1, ValuesAre, ValuesDiffer
    <2> QED
      BY <1>0, <1>6, <2>1, <2>2, TopTakesValue DEF ReadInstance, Answer, Known
  <1>7. CASE ReadSingleton
    <2>1. stack # <<>> /\ TopFrame.want.key \in Keys
      BY <1>7, TopValues DEF ReadSingleton, LookupNormal, Running
    <2>2. PICK v \in Values : v = single[TopFrame.want.key] /\ Known(v)'
      BY <1>0, <1>7, <2>1 DEF DataOK, ReadSingleton, Known
    <2> QED
      BY <1>0, <1>7, <2>1, <2>2, TopTakesValue DEF ReadSingleton
  <1>8. CASE MakeFactory
    <2>1. stack # <<>> /\ Len(objects) \in Nat /\ Len(objects') = Len(objects) + 1
      BY <1>0, <1>8, AppendProperties DEF MakeFactory, LookupNormal, Running, DataOK
    <2>2. PICK v \in Values : v = New(Len(objects) + 1) /\ v.id = Len(objects) + 1
      BY <2>1, ValuesAre, ValuesDiffer
    <2>3. Known(v)'
      BY <2>1, <2>2 DEF Known
    <2> QED
      BY <1>0, <1>8, <2>1, <2>2, <2>3, TopTakesValue DEF MakeFactory, Answer
  <1>9. CASE EnterBody
    <2>1. /\ stack # <<>> /\ TopFrame.step = "args"
          /\ Len(objects) \in Nat /\ Len(objects') = Len(objects) + 1
          /\ ReplaceTop([TopFrame EXCEPT !.step = "body", !.value = New(Len(objects) + 1)])
      BY <1>0, <1>9, AppendProperties DEF EnterBody, Running, DataOK
    <2>2. PICK v \in Values : v = New(Len(objects) + 1) /\ v.id = Len(objects) + 1
      BY <2>1, ValuesAre, ValuesDiffer
    <2>3. Known(v)'
      BY <2>1, <2>2 DEF Known
    <2>4. PICK t \in StackFrames : t = TopFrame /\ FrameOK(t)' /\ TopOK(t)
      BY <1>0, <2>1, TopStays
    <2> DEFINE f == [t EXCEPT !.step = "body", !.value = v]
    <2>5. /\ f \in StackFrames /\ f.context = t.context /\ f.want = t.want
          /\ f.at = t.at /\ f.got = t.got /\ f.value = v /\ f.step = "body"
      BY <2>4 DEF StackFrames, Steps
    <2>6. ReplaceTop(f)
      BY <2>1, <2>2, <2>4
    <2> HIDE DEF f
    <2>7. TopOK(f) /\ FrameOK(f)'
      BY <2>1, <2>3, <2>4, <2>5 DEF TopOK, Open, FrameOK
    <2> QED  BY <1>0, <2>1, <2>4, <2>5, <2>6, <2>7, TopGoesOn
  <1>10. CASE LeaveBody
    <2>1. /\ stack # <<>> /\ TopFrame.step = "body"
          /\ \E s \in {"invoked", "return"} :
               ReplaceTop([TopFrame EXCEPT !.got = <<>>, !.at = 0, !.step = s])
      BY <1>10 DEF LeaveBody, Running
    <2>2. PICK s \in {"invoked", "return"} :
               ReplaceTop([TopFrame EXCEPT !.got = <<>>, !.at = 0, !.step = s])
      BY <2>1
    <2>3. PICK t \in StackFrames : t = TopFrame /\ FrameOK(t)' /\ TopOK(t)
      BY <1>0, <2>1, TopStays
    <2> DEFINE f == [t EXCEPT !.got = <<>>, !.at = 0, !.step = s]
    <2>4. /\ f \in StackFrames /\ f.context = t.context /\ f.want = t.want
          /\ f.at = 0 /\ f.got = <<>> /\ f.value = t.value /\ f.step = s
      <3>1. <<>> \in Seq(Values) /\ s \in Steps
        BY DEF Steps
      <3> QED  BY <2>3, <3>1 DEF StackFrames
    <2>5. ReplaceTop(f)
      BY <2>2, <2>3
    <2> HIDE DEF f
    <2>6. TopOK(f) /\ FrameOK(f)'
      <3>1. Len(<<>>) = 0
        OBVIOUS
      <3> QED  BY <2>3, <2>4, <3>1 DEF TopOK, Open, FrameOK
    <2> QED  BY <1>0, <2>1, <2>3, <2>4, <2>5, <2>6, TopGoesOn
  <1>11. CASE FollowType
    <2>1. /\ stack # <<>> /\ TopFrame.step = "look" /\ TopFrame.want.how = "normal"
          /\ EntryOfTop.kind = "type" /\ TopFrame.want.key \in Keys
          /\ Push([TopFrame EXCEPT !.step = "wait"],
                  Frame(EntryOfTop.to, TopFrame.context, "look"))
      BY <1>11, TopValues DEF FollowType, LookupNormal, Running
    <2>2. EntryOfTop.to \in Wants /\ entry[TopFrame.want.key].kind # "singleton"
      BY <1>0, <2>1, EntryFields DEF EntryOfTop
    <2>3. [TopFrame EXCEPT !.step = "wait"] = [TopFrame EXCEPT !.step = "wait", !.at = 0]
      BY <2>1, TopAtIsZero
    <2>4. Push([TopFrame EXCEPT !.step = "wait", !.at = 0],
               Frame(EntryOfTop.to, TopFrame.context, "look"))
      BY <2>1, <2>3
    <2> QED  BY <1>0, <2>1, <2>2, <2>4, TopRequests
  <1>12. CASE CreateSingleton
    <2>1. /\ stack # <<>> /\ TopFrame.step = "look" /\ TopFrame.want.how = "normal"
          /\ EntryOfTop.kind = "singleton" /\ TopFrame.want.key \in Keys
          /\ Push([TopFrame EXCEPT !.step = "wait"],
                  Frame(EntryOfTop.to, EmptyContext, "look"))
      BY <1>12, TopValues DEF CreateSingleton, LookupNormal, Running
    <2>2. EntryOfTop.to \in Wants /\ entry[TopFrame.want.key].kind = "singleton"
      BY <1>0, <2>1, EntryFields DEF EntryOfTop
    <2>3. [TopFrame EXCEPT !.step = "wait"] = [TopFrame EXCEPT !.step = "wait", !.at = 0]
      BY <2>1, TopAtIsZero
    <2>4. Push([TopFrame EXCEPT !.step = "wait", !.at = 0],
               Frame(EntryOfTop.to, EmptyContext, "look"))
      BY <2>1, <2>3
    <2> QED  BY <1>0, <2>1, <2>2, <2>4, TopRequests
  <1>13. CASE NextArgument
    <2>1. /\ stack # <<>> /\ TopFrame.step = "args" /\ TopFrame.want.key \in Keys
          /\ TopFrame.got \in Seq(Values)
          /\ EntryOfTop.kind \in {"ctor", "provider"}
          /\ Len(TopFrame.got) = Len(EntryOfTop.args)
      <3>1. stack # <<>> /\ TopFrame.step = "args"
        BY <1>13 DEF NextArgument, Running
      <3>2. FrameOK(TopFrame)
        BY <1>0, <3>1, TopIs
      <3> QED  BY <3>1, <3>2, TopValues DEF FrameOK, EntryOfTop
    <2>2. EntryOfTop.args \in Seq(Wants)
      BY <1>0, <2>1, EntryFields DEF EntryOfTop
    <2>3. PICK i \in 1..Len(TopFrame.got) :
            Push([TopFrame EXCEPT !.at = i],
                 Frame(EntryOfTop.args[i], TopFrame.context, "look"))
      <3>1. DOMAIN TopFrame.got = 1..Len(TopFrame.got)
        BY <2>1
      <3> QED  BY <1>13, <3>1 DEF NextArgument
    <2>4. PICK w \in Wants : w = EntryOfTop.args[i]
      BY <2>1, <2>2
    <2>5. [TopFrame EXCEPT !.at = i] = [TopFrame EXCEPT !.step = "args", !.at = i]
      BY <2>1, TopAtIsZero
    <2>6. Push([TopFrame EXCEPT !.step = "args", !.at = i],
               Frame(w, TopFrame.context, "look"))
      BY <2>3, <2>4, <2>5
    <2>7. i \in Nat /\ i <= Len(TopFrame.got)
      BY <2>1
    <2> QED  BY <1>0, <2>1, <2>4, <2>6, <2>7, TopRequests
  <1>14. CASE InvokeGetReturns
    <2>1. /\ stack # <<>>
          /\ ReplaceTop([TopFrame EXCEPT !.step = "return"])
      BY <1>14 DEF InvokeGetReturns, Running
    <2>2. PICK v \in Values : v = TopFrame.value /\ Known(v)
      BY <2>1, TopValues
    <2>3. Known(v)'
      BY <1>0, <2>2, ValuesDiffer DEF Known, Grows
    <2>4. TopFrame \in StackFrames
      BY <1>0, <2>1, TopIs
    <2>5. [TopFrame EXCEPT !.step = "return"]
            = [TopFrame EXCEPT !.value = v, !.step = "return"]
      BY <2>2, <2>4 DEF StackFrames
    <2>6. ReplaceTop([TopFrame EXCEPT !.value = v, !.step = "return"])
      BY <2>1, <2>5
    <2> QED  BY <1>0, <2>1, <2>3, <2>6, TopTakesValue
  <1>15. CASE ReturnToUser
    <2>1. stack' = <<>>
      BY <1>15 DEF ReturnToUser
    <2> QED  BY <2>1 DEF StackOK
  <1>16. CASE ReturnAsArgument
    <2>1. /\ stack # <<>> /\ Len(stack) > 1 /\ Below.step = "args"
          /\ ReplaceTwo([Below EXCEPT !.got[Below.at] = TopFrame.value, !.at = 0])
      BY <1>16 DEF ReturnAsArgument, ReturnsInto, Running
    <2>2. PICK v \in Values : v = TopFrame.value /\ Known(v)
      BY <2>1, TopValues
    <2>3. Known(v)'
      BY <1>0, <2>2, ValuesDiffer DEF Known, Grows
    <2>4. PICK b \in StackFrames : b = Below /\ FrameOK(b) /\ FrameOK(b)'
      BY <1>0, <2>1, TopStays
    <2>5. b.got \in Seq(Values)
      BY <2>4 DEF StackFrames
    <2>6. PICK h \in Seq(Values) : /\ h = [b.got EXCEPT ![b.at] = v] /\ Len(h) = Len(b.got)
                                   /\ \A i \in 1..Len(h) : h[i] = v \/ h[i] = b.got[i]
      <3>1. PICK s \in Seq(Values) : s = b.got
        BY <2>5
      <3>2. PICK a : a = b.at
        OBVIOUS
      <3> DEFINE h == [i \in 1..Len(s) |-> IF i = a THEN v ELSE s[i]]
      <3>3. h \in Seq(Values) /\ Len(h) = Len(s)
        BY <3>1
      <3>4. h = [s EXCEPT ![a] = v]
        BY <3>1
      <3> QED  BY <3>1, <3>2, <3>3, <3>4
    <2> DEFINE f == [b EXCEPT !.got = h, !.at = 0]
    <2>7. /\ f \in StackFrames /\ f.context = b.context /\ f.want = b.want
          /\ f.at = 0 /\ f.got = h /\ f.value = b.value /\ f.step = "args"
      BY <2>1, <2>4, <2>6 DEF StackFrames, Steps
    <2>8. f = [b EXCEPT !.got[b.at] = v, !.at = 0]
      BY <2>4, <2>6 DEF StackFrames
    <2>9. ReplaceTwo(f)
      BY <2>1, <2>2, <2>4, <2>8
    <2> HIDE DEF f
    <2>10. \A i \in 1..Len(h) : Known(h[i])'
      <3> SUFFICES ASSUME NEW i \in 1..Len(h)  PROVE Known(h[i])'
        OBVIOUS
      <3>1. \A j \in 1..Len(b.got) : Known(b.got[j])'
        BY <2>4 DEF FrameOK
      <3>2. h[i] = v \/ (h[i] = b.got[i] /\ i \in 1..Len(b.got))
        BY <2>6
      <3>3. CASE h[i] = v
        BY <2>3, <3>3 DEF Known
      <3>4. CASE h[i] = b.got[i] /\ i \in 1..Len(b.got)
        BY <3>1, <3>4 DEF Known
      <3> QED  BY <3>2, <3>3, <3>4
    <2>11. TopOK(f) /\ FrameOK(f)'
      <3>1. Len(h) \in Nat
        BY <2>6
      <3> QED
        BY <2>1, <2>4, <2>6, <2>7, <2>10, <3>1 DEF TopOK, Open, FrameOK
    <2> QED  BY <1>0, <2>1, <2>4, <2>7, <2>9, <2>11, TopAnswers
  <1>17. CASE ReturnThrough \/ ReturnToSingleton
    <2>1. /\ stack # <<>> /\ Len(stack) > 1 /\ Below.step = "wait"
          /\ \E s \in {"return", "invoked"} :
               ReplaceTwo([Below EXCEPT !.value = TopFrame.value, !.step = s])
      BY <1>17 DEF ReturnThrough, ReturnToSingleton, ReturnsInto, Running
    <2>2. PICK s \in {"return", "invoked"} :
            ReplaceTwo([Below EXCEPT !.value = TopFrame.value, !.step = s])
      BY <2>1
    <2>3. PICK v \in Values : v = TopFrame.value /\ Known(v)
      BY <2>1, TopValues
    <2>4. Known(v)'
      BY <1>0, <2>3, ValuesDiffer DEF Known, Grows
    <2>5. PICK b \in StackFrames : b = Below /\ FrameOK(b) /\ FrameOK(b)'
      BY <1>0, <2>1, TopStays
    <2> DEFINE f == [b EXCEPT !.value = v, !.step = s]
    <2>6. /\ f \in StackFrames /\ f.context = b.context /\ f.want = b.want
          /\ f.at = 0 /\ f.got = b.got /\ f.value = v /\ f.step = s
      BY <2>1, <2>5 DEF StackFrames, Steps, FrameOK
    <2>7. ReplaceTwo(f)
      BY <2>2, <2>3, <2>5
    <2> HIDE DEF f
    <2>8. TopOK(f) /\ FrameOK(f)'
      <3>1. Len(f.got) \in Nat
        BY <2>6 DEF StackFrames
      <3> QED  BY <2>4, <2>5, <2>6, <3>1 DEF TopOK, Open, FrameOK
    <2> QED  BY <1>0, <2>1, <2>5, <2>6, <2>7, <2>8, TopAnswers
  <1>18. CASE ReturnFromCall
    BY <1>0, <1>18, CallAnswers DEF ReturnFromCall, ReturnsInto
  <1> QED
    BY <1>1, <1>2, <1>3, <1>4, <1>5, <1>6, <1>7, <1>8, <1>9, <1>10, <1>11, <1>12,
       <1>13, <1>14, <1>15, <1>16, <1>17, <1>18 DEF Next, Progress

\* The shape of the stack is an invariant.
THEOREM StackInvariant == Spec => []StackInv
  <1>1. StackInv /\ [Next]_vars => StackInv'
    BY DataHolds, StackHolds DEF StackInv
  <1> QED  BY StackInitHolds, <1>1, PTL DEF Spec

-----------------------------------------------------------------------------
(* Types and contexts *)

\* A frame waits for an argument only of its own, and with a frame above it that
\* resolves it: what CreateHelpers::Create() and GetInvoker() count on. Every
\* context is that of a factory call made so far, or the empty one.
THEOREM ResolutionTypeCorrect == Spec => []TypeOK
  <1>1. StackInv => TypeOK
    <2> SUFFICES ASSUME StackInv  PROVE TypeOK
      OBVIOUS
    <2>1. DataOK /\ StackOK
      BY DEF StackInv
    <2>2. ASSUME NEW i \in 1..Len(stack)
          PROVE  /\ stack[i].want \in Wants /\ stack[i].step \in Steps
                 /\ stack[i].context.call \in 0..calls
                 /\ stack[i].context.params \subseteq Keys
                 /\ stack[i].at \in 0..Len(stack[i].got)
                 /\ stack[i].at # 0 => i < Len(stack)
      <3>1. PICK f \in StackFrames : f = stack[i] /\ FrameOK(f)
        BY <2>1 DEF StackOK
      <3>2. f.at \in 0..Len(f.got)
        BY <3>1 DEF StackFrames, FrameOK
      <3>3. f.context.call \in 0..calls
        BY <2>1, <3>1 DEF StackFrames, Contexts, FrameOK, DataOK
      <3>4. f.at # 0 => i < Len(stack)
        <4>1. Len(stack) \in Nat /\ stack # <<>>
          BY <2>1 DEF StackOK
        <4>2. i = Len(stack) => f.at = 0
          BY <2>1, <3>1, <4>1 DEF StackOK, TopOK, TopFrame, Last
        <4> QED  BY <4>1, <4>2
      <3> QED  BY <3>1, <3>2, <3>3, <3>4 DEF StackFrames, Contexts
    <2> QED  BY <2>1, <2>2 DEF TypeOK, DataOK
  <1> QED  BY StackInvariant, <1>1, PTL

\* A set of numbers has a least one.
LEMMA LeastOf ==
    ASSUME NEW I \in SUBSET Nat, I # {}
    PROVE  \E x \in I : \A y \in I : x <= y
  <1>1. PICK x \in I : \A y \in I : ~(<<y, x>> \in OpToRel(<, Nat))
    BY WFMin, NatLessThanWellFounded, Zenon
  <1>2. \A y \in I : ~(y < x)
    <2> SUFFICES ASSUME NEW y \in I, y < x  PROVE FALSE
      OBVIOUS
    <2>1. <<y, x>> \in Nat \X Nat /\ <<y, x>>[1] = y /\ <<y, x>>[2] = x
      OBVIOUS
    <2>2. <<y, x>> \in OpToRel(<, Nat)
      BY <2>1, Zenon DEF OpToRel
    <2> QED  BY <1>1, <2>2
  <1> QED  BY <1>2

\* Where the frame at i may have its context from: a call of a factory, or the
\* creation of a singleton it is part of. ContextIsInnermostCall says of every
\* frame that it is the innermost of these that counts.
Borders(i) == {j \in 1..i : stack[j].step = "call" \/ (j < i /\ AnswersSingleton(stack[j]))}
Border(i) == CHOOSE j \in Borders(i) : \A k \in Borders(i) : k <= j
FromBorder(i) ==
    stack[i].context.call =
      IF Borders(i) = {} \/ AnswersSingleton(stack[Border(i)]) THEN 0
      ELSE stack[Border(i)].context.call

\* The context of a frame is that of the border, if the frame below has its own
\* from there.
LEMMA ContextPassedOn ==
    ASSUME StackOK, NEW i \in 1..Len(stack), i > 1 => FromBorder(i - 1)
    PROVE  FromBorder(i)
  <1>0. i \in Nat /\ i > 0 /\ stack # <<>>
    OBVIOUS
  <1>1. CASE stack[i].step = "call"
    <2>1. i \in Borders(i) /\ \A k \in Borders(i) : k <= i
      BY <1>0, <1>1 DEF Borders
    <2>2. \A j \in Borders(i) : (\A k \in Borders(i) : k <= j) => j = i
      BY <2>1, <1>0 DEF Borders
    <2>3. Border(i) = i
      BY <2>1, <2>2 DEF Border
    <2> QED  BY <1>1, <2>1, <2>3 DEF FromBorder, AnswersSingleton
  <1>2. CASE stack[i].step # "call" /\ i = 1
    <2>1. Borders(i) = {}
      BY <1>2 DEF Borders
    <2>2. stack[i].context = EmptyContext
      BY <1>0, <1>2 DEF StackOK, BottomOK
    <2> QED  BY <2>1, <2>2 DEF FromBorder, EmptyContext
  <1>3. CASE stack[i].step # "call" /\ i > 1
    <2>1. PICK h \in 1..Len(stack) : i = h + 1
      <3>1. i - 1 \in 1..Len(stack) /\ i = (i - 1) + 1
        BY <1>0, <1>3
      <3> QED  BY <3>1
    <2>2. /\ h \in Nat /\ h < i /\ h > 0 /\ \A k \in 1..i : k <= h \/ k = i
          /\ i - 1 = h
      BY <2>1
    <2>3. stack[i].context = IF AnswersSingleton(stack[h]) THEN EmptyContext
                             ELSE stack[h].context
      BY <1>3, <2>1 DEF StackOK, Linked
    <2>4. CASE AnswersSingleton(stack[h])
      <3>1. h \in Borders(i) /\ \A k \in Borders(i) : k <= h
        BY <1>3, <2>2, <2>4 DEF Borders
      <3>2. \A j \in Borders(i) : (\A k \in Borders(i) : k <= j) => j = h
        BY <3>1, <2>2 DEF Borders
      <3>3. Border(i) = h
        BY <3>1, <3>2 DEF Border
      <3> QED  BY <2>3, <2>4, <3>1, <3>3 DEF FromBorder, EmptyContext
    <2>5. CASE ~AnswersSingleton(stack[h])
      <3>1. Borders(i) = Borders(h)
        <4>1. ASSUME NEW j \in 1..i
              PROVE  j \in Borders(i) <=> j \in Borders(h)
          <5>1. CASE j = i
            BY <1>3, <2>2, <5>1 DEF Borders
          <5>2. CASE j = h
            BY <2>2, <2>5, <5>2 DEF Borders
          <5>3. CASE j # i /\ j # h
            <6>1. j < i /\ j < h
              BY <2>2, <5>3
            <6> QED  BY <2>2, <6>1 DEF Borders
          <5> QED  BY <5>1, <5>2, <5>3
        <4>2. Borders(i) \subseteq 1..i /\ Borders(h) \subseteq 1..i
          BY <2>2 DEF Borders
        <4> QED  BY <4>1, <4>2
      <3>2. Border(i) = Border(h)
        BY <3>1 DEF Border
      <3>3. FromBorder(h)
        BY <1>3, <2>2
      <3> QED  BY <2>3, <2>5, <3>1, <3>2, <3>3 DEF FromBorder
    <2> QED  BY <2>4, <2>5
  <1> QED  BY <1>0, <1>1, <1>2, <1>3

\* The reference that a FactoryArgumentEntry keeps is good for as long as it may
\* be read: a frame has the parameters of the innermost factory call on the
\* stack, which has not returned, and none under the creation of a singleton,
\* which outlives the call.
THEOREM ContextOfInnermostCall == Spec => []ContextIsInnermostCall
  <1>1. StackInv => ContextIsInnermostCall
    <2> SUFFICES ASSUME StackInv  PROVE ContextIsInnermostCall
      OBVIOUS
    <2>1. StackOK
      BY DEF StackInv
    <2>2. SUFFICES \A i \in 1..Len(stack) : FromBorder(i)
      BY DEF ContextIsInnermostCall, FromBorder, Border, Borders
    <2> DEFINE wrong == {i \in 1..Len(stack) : ~FromBorder(i)}
    <2>3. SUFFICES ASSUME wrong # {}  PROVE FALSE
      OBVIOUS
    <2>4. PICK i \in wrong : \A j \in wrong : i <= j
      <3>1. wrong \in SUBSET Nat
        OBVIOUS
      <3> QED  BY <2>3, <3>1, LeastOf
    <2>5. i > 1 => FromBorder(i - 1)
      <3> SUFFICES ASSUME i > 1  PROVE FromBorder(i - 1)
        OBVIOUS
      <3>1. i - 1 \in 1..Len(stack) /\ ~(i <= i - 1)
        OBVIOUS
      <3> QED  BY <2>4, <3>1
    <2> QED  BY <2>1, <2>5, ContextPassedOn
  <1> QED  BY StackInvariant, <1>1, PTL

-----------------------------------------------------------------------------
(* Factory arguments *)

\* A value that holds no factory argument.
Clean(v) ==
    /\ v.from # "argument"
    /\ v.from = "new" => objects[v.id].holds = {}

\* Without factory parameters there is nothing else to build from.
FrameClean(f) ==
    f.context.params = {} => Clean(f.value) /\ \A i \in 1..Len(f.got) : Clean(f.got[i])

CleanInv ==
    /\ \A k \in Keys : Clean(single[k])
    /\ \A i \in 1..Len(stack) : FrameClean(stack[i])

\* What has been made does not change.
LEMMA CleanStays ==
    ASSUME StackInv, \/ objects' = objects
                     \/ \E o \in Objects : objects' = Append(objects, o)
    PROVE  /\ \A v \in Values : Known(v) /\ Clean(v) => Clean(v)'
           /\ \A f \in StackFrames : FrameOK(f) /\ FrameClean(f) => FrameClean(f)'
  <1>1. objects \in Seq(Objects)
    BY DEF StackInv, DataOK
  <1>2. \A n \in 1..Len(objects) : objects'[n] = objects[n]
    BY <1>1
  <1>3. \A v : Known(v) /\ Clean(v) => Clean(v)'
    BY <1>2 DEF Known, Clean
  <1>4. ASSUME NEW f \in StackFrames, FrameOK(f), FrameClean(f)
        PROVE  FrameClean(f)'
    BY <1>3, <1>4 DEF FrameOK, FrameClean
  <1> QED  BY <1>3, <1>4

\* Frames that are pushed are clean.
LEMMA NewFrameClean ==
    ASSUME NEW w, NEW c, NEW s
    PROVE  FrameClean(Frame(w, c, s))'
  <1>1. /\ Frame(w, c, s).value = NoValue /\ Frame(w, c, s).got = <<>>
        /\ Len(<<>>) = 0
    BY DEF Frame
  <1> QED  BY <1>1, ValuesDiffer DEF FrameClean, Clean

\* What a step may make of the stack s, with f and g new on it.
Moved(s, f, g, t) ==
    \/ s # <<>> /\ t = Append(Front(s), f)
    \/ s # <<>> /\ t = Front(s) \o <<f, g>>
    \/ Len(s) > 1 /\ t = Append(SubSeq(s, 1, Len(s) - 2), f)
    \/ Len(s) > 1 /\ t = SubSeq(s, 1, Len(s) - 2)
    \/ t = s \o <<f, g>>
    \/ t = <<>>
    \/ t = <<f>>

\* The stack stays as it is below the frames f and g.
LEMMA StackFrom ==
    ASSUME NEW S, NEW s \in Seq(S), NEW f, NEW g, NEW t, Moved(s, f, g, t)
    PROVE  \A i \in 1..Len(t) : t[i] \in {f, g} \/ (i \in 1..Len(s) /\ t[i] = s[i])
  <1> DEFINE T == S \cup {f, g}
  <1>0. s \in Seq(T) /\ f \in T /\ g \in T /\ Len(s) \in Nat
    <2>1. S \subseteq T
      OBVIOUS
    <2> QED  BY <2>1
  <1> HIDE DEF T
  <1>1. CASE s # <<>> /\ t = Append(Front(s), f)
    <2>1. \A i \in 1..Len(s) : t[i] = IF i = Len(s) THEN f ELSE s[i]
      BY <1>0, <1>1, TopReplaced
    <2>2. Len(t) = Len(s)
      BY <1>0, <1>1, TopReplaced
    <2> QED  BY <2>1, <2>2
  <1>2. CASE s # <<>> /\ t = Front(s) \o <<f, g>>
    <2>1. /\ Len(t) = Len(s) + 1
          /\ \A i \in 1..(Len(s) + 1) :
               t[i] = IF i = Len(s) + 1 THEN g ELSE IF i = Len(s) THEN f ELSE s[i]
      BY <1>0, <1>2, TopPushed
    <2> QED  BY <1>0, <2>1
  <1>3. CASE Len(s) > 1 /\ t = Append(SubSeq(s, 1, Len(s) - 2), f)
    <2>1. /\ Len(t) = Len(s) - 1
          /\ \A i \in 1..(Len(s) - 1) : t[i] = IF i = Len(s) - 1 THEN f ELSE s[i]
      BY <1>0, <1>3, TopReturned
    <2> QED  BY <1>0, <2>1
  <1>4. CASE Len(s) > 1 /\ t = SubSeq(s, 1, Len(s) - 2)
    <2>1. Len(t) = Len(s) - 2 /\ \A i \in 1..(Len(s) - 2) : t[i] = s[i]
      BY <1>0, <1>4, TwoGone
    <2> QED  BY <1>0, <2>1
  <1>5. CASE t = s \o <<f, g>>
    <2>1. /\ Len(t) = Len(s) + 2
          /\ \A i \in 1..(Len(s) + 2) :
               t[i] = IF i = Len(s) + 2 THEN g ELSE IF i = Len(s) + 1 THEN f ELSE s[i]
      BY <1>0, <1>5, TwoAdded
    <2> QED  BY <1>0, <2>1
  <1>6. CASE t = <<f>>
    BY <1>6
  <1>7. CASE t = <<>>
    BY <1>7
  <1> QED  BY <1>1, <1>2, <1>3, <1>4, <1>5, <1>6, <1>7 DEF Moved

\* The stack is clean if what is new on it is.
LEMMA CleanStack ==
    ASSUME StackInv, CleanInv, \/ objects' = objects
                               \/ \E o \in Objects : objects' = Append(objects, o),
           NEW f, NEW g, FrameClean(f)', FrameClean(g)',
           \/ stack # <<>> /\ ReplaceTop(f)
           \/ stack # <<>> /\ Push(f, g)
           \/ Len(stack) > 1 /\ ReplaceTwo(f)
           \/ Len(stack) > 1 /\ stack' = SubSeq(stack, 1, Len(stack) - 2)
           \/ stack' = stack \o <<f, g>>
           \/ stack' = <<>>
           \/ stack' = <<f>>
    PROVE  \A i \in 1..Len(stack') : FrameClean(stack[i])'
  <1> SUFFICES ASSUME NEW i \in 1..Len(stack')  PROVE FrameClean(stack[i])'
    OBVIOUS
  <1>1. stack'[i] \in {f, g} \/ (i \in 1..Len(stack) /\ stack'[i] = stack[i])
    <2>1. stack \in Seq(StackFrames)
      BY DEF StackInv, StackOK
    <2>2. PICK t : t = stack'
      OBVIOUS
    <2>3. Moved(stack, f, g, t)
      BY <2>2 DEF Moved, ReplaceTop, Push, ReplaceTwo
    <2> QED  BY <2>1, <2>2, <2>3, StackFrom
  <1>2. CASE stack'[i] = f \/ stack'[i] = g
    BY <1>2 DEF FrameClean, Clean
  <1>3. CASE i \in 1..Len(stack) /\ stack'[i] = stack[i]
    <2>1. PICK h \in StackFrames : h = stack[i] /\ FrameOK(h) /\ FrameClean(h)
      BY <1>3 DEF StackInv, StackOK, CleanInv
    <2>2. FrameClean(h)'
      BY <2>1, CleanStays
    <2> QED  BY <1>3, <2>1, <2>2 DEF FrameClean, Clean
  <1> QED  BY <1>1, <1>2, <1>3

\* The two frames on top, before the step, are clean after it.
LEMMA TopsClean ==
    ASSUME StackInv, CleanInv, Grows, stack # <<>>,
           \/ objects' = objects
           \/ \E o \in Objects : objects' = Append(objects, o)
    PROVE  /\ \E t \in StackFrames :
                /\ t = TopFrame /\ FrameOK(t) /\ FrameClean(t) /\ FrameClean(t)'
                /\ t.context.params = {} => Clean(t.value)'
           /\ Len(stack) > 1 =>
                \E b \in StackFrames :
                  /\ b = Below /\ FrameOK(b) /\ FrameClean(b) /\ FrameClean(b)'
                  /\ b.step \in {"args", "wait"} =>
                       TopFrame.context = IF AnswersSingleton(b) THEN EmptyContext
                                          ELSE b.context
  <1>1. PICK t \in StackFrames : t = TopFrame /\ FrameOK(t)
    BY TopStays
  <1>2. FrameClean(t) /\ FrameClean(t)'
    <2>1. FrameClean(TopFrame)
      <3>1. Len(stack) \in 1..Len(stack)
        BY DEF StackInv, StackOK
      <3> QED  BY <3>1 DEF CleanInv, TopFrame, Last
    <2> QED  BY <1>1, <2>1, CleanStays
  <1>3. t.context.params = {} => Clean(t.value)'
    BY <1>2 DEF FrameClean
  <1>4. ASSUME Len(stack) > 1
        PROVE  \E b \in StackFrames :
                 /\ b = Below /\ FrameOK(b) /\ FrameClean(b) /\ FrameClean(b)'
                 /\ b.step \in {"args", "wait"} =>
                      TopFrame.context = IF AnswersSingleton(b) THEN EmptyContext
                                         ELSE b.context
    <2>1. PICK b \in StackFrames : b = Below /\ FrameOK(b) /\ Linked(b, TopFrame)
      BY <1>4, TopStays
    <2>2. FrameClean(b)
      <3>1. Len(stack) - 1 \in 1..Len(stack)
        BY <1>4 DEF StackInv, StackOK
      <3> QED  BY <2>1, <3>1 DEF CleanInv, Below
    <2>3. FrameClean(b)'
      BY <2>1, <2>2, CleanStays
    <2> QED  BY <2>1, <2>2, <2>3 DEF Linked
  <1> QED  BY <1>1, <1>2, <1>3, <1>4

\* A clean value on a frame, and a frame that only asks for something.
LEMMA CleanTakes ==
    ASSUME NEW t \in StackFrames, FrameClean(t)', NEW v, Clean(v)' \/ t.context.params # {},
           NEW s, NEW a
    PROVE  /\ FrameClean([t EXCEPT !.value = v, !.step = s])'
           /\ FrameClean([t EXCEPT !.step = s])'
           /\ FrameClean([t EXCEPT !.at = a])'
           /\ FrameClean([t EXCEPT !.got = <<>>, !.at = 0, !.step = s])'
  <1>1. Len(<<>>) = 0
    OBVIOUS
  <1> QED  BY <1>1 DEF StackFrames, FrameClean

\* No action puts a factory argument where there are no factory parameters.
LEMMA CleanHolds ==
    ASSUME StackInv, CleanInv, [Next]_vars
    PROVE  CleanInv'
  <1>0. Grows /\ DataOK /\ StackOK
    BY DataHolds DEF StackInv
  <1>1. CASE MissingBinding \/ InvokeGetRunsOff \/ UNCHANGED vars
    BY <1>1 DEF MissingBinding, InvokeGetRunsOff, vars, CleanInv, Clean, FrameClean
  <1>2. ASSUME single' = single,
               objects' = objects \/ \E o \in Objects : objects' = Append(objects, o)
        PROVE  \A k \in Keys : Clean(single[k])'
    <2> SUFFICES ASSUME NEW k \in Keys  PROVE Clean(single[k])'
      OBVIOUS
    <2>1. PICK v \in Values : v = single[k] /\ Known(v) /\ Clean(v)
      BY <1>0 DEF DataOK, CleanInv
    <2>2. Clean(v)'
      BY <1>2, <2>1, CleanStays
    <2> QED  BY <1>2, <2>1, <2>2 DEF Clean
  <1>3. ASSUME NEW k \in Keys, Get(k)
        PROVE  CleanInv'
    <2>1. PICK f : f = Frame([how |-> "normal", key |-> k], EmptyContext, "look")
      OBVIOUS
    <2>2. stack' = <<f>> /\ UNCHANGED <<objects, single>> /\ FrameClean(f)'
      BY <1>3, <2>1, NewFrameClean DEF Get
    <2> QED  BY <1>2, <2>2, CleanStack DEF CleanInv
  <1>4. ASSUME NEW n \in 1..Len(objects), CallFactory(n)
        PROVE  CleanInv'
    <2>1. PICK w, c : /\ stack' = stack \o <<Frame(w, c, "call"), Frame(w, c, "look")>>
                      /\ UNCHANGED <<objects, single>>
      BY <1>4 DEF CallFactory
    <2>2. FrameClean(Frame(w, c, "call"))' /\ FrameClean(Frame(w, c, "look"))'
      BY NewFrameClean
    <2> QED  BY <1>2, <2>1, <2>2, CleanStack DEF CleanInv
  <1>5. CASE LookupAssisted
    <2>1. /\ stack # <<>> /\ UNCHANGED <<objects, single>>
          /\ TopFrame.context.params # {}
      BY <1>5 DEF LookupAssisted, Running
    <2>2. PICK t \in StackFrames : t = TopFrame /\ FrameClean(t)'
      BY <1>0, <2>1, TopsClean
    <2>3. PICK v : v = Argument(TopFrame.context.call, TopFrame.want.key)
      OBVIOUS
    <2>4. ReplaceTop([t EXCEPT !.value = v, !.step = "return"])
      BY <1>5, <2>2, <2>3 DEF LookupAssisted, Answer
    <2>5. FrameClean([t EXCEPT !.value = v, !.step = "return"])'
      BY <2>1, <2>2, CleanTakes
    <2> QED  BY <1>2, <2>1, <2>4, <2>5, CleanStack DEF CleanInv
  <1>6. CASE BeginArguments
    <2>1. stack # <<>> /\ UNCHANGED <<objects, single>>
      BY <1>6 DEF BeginArguments, LookupNormal, Running
    <2>2. PICK t \in StackFrames : t = TopFrame /\ FrameClean(t)'
      BY <1>0, <2>1, TopsClean
    <2>3. EntryOfTop.args \in Seq(Wants)
      BY <1>0, <1>6, <2>1, TopValues, EntryFields DEF BeginArguments, LookupNormal, EntryOfTop
    <2>4. PICK h : /\ h = [i \in DOMAIN EntryOfTop.args |-> NoValue]
                   /\ \A i \in 1..Len(h) : h[i] = NoValue
      <3>1. PICK n \in Nat : DOMAIN EntryOfTop.args = 1..n
        BY <2>3
      <3>2. \A h : h = [i \in 1..n |-> NoValue] =>
              Len(h) = n /\ \A i \in 1..Len(h) : h[i] = NoValue
        OBVIOUS
      <3> QED  BY <3>1, <3>2
    <2>5. ReplaceTop([t EXCEPT !.step = "args", !.got = h])
      BY <1>6, <2>2, <2>4 DEF BeginArguments
    <2>6. FrameClean([t EXCEPT !.step = "args", !.got = h])'
      BY <2>2, <2>4, ValuesDiffer DEF StackFrames, FrameClean, Clean
    <2> QED  BY <1>2, <2>1, <2>5, <2>6, CleanStack DEF CleanInv
  <1>7. CASE ReadInstance \/ ReadSingleton \/ InvokeGetReturns
    <2>1. stack # <<>> /\ UNCHANGED <<objects, single>>
      BY <1>7 DEF ReadInstance, ReadSingleton, InvokeGetReturns, LookupNormal, Running
    <2>2. PICK t \in StackFrames :
            t = TopFrame /\ FrameClean(t)' /\ (t.context.params = {} => Clean(t.value)')
      BY <1>0, <2>1, TopsClean
    <2>3. CASE ReadInstance
      <3>1. PICK v : v = BoundInstance(TopFrame.want.key) /\ Clean(v)'
        BY ValuesDiffer DEF Clean
      <3>2. ReplaceTop([t EXCEPT !.value = v, !.step = "return"])
        BY <2>2, <2>3, <3>1 DEF ReadInstance, Answer
      <3>3. FrameClean([t EXCEPT !.value = v, !.step = "return"])'
        BY <2>2, <3>1, CleanTakes
      <3> QED  BY <1>2, <2>1, <3>2, <3>3, CleanStack DEF CleanInv
    <2>4. CASE ReadSingleton
      <3>1. PICK v : v = single[TopFrame.want.key] /\ Clean(v)'
        BY <2>1, TopValues DEF CleanInv, Clean
      <3>2. ReplaceTop([t EXCEPT !.value = v, !.step = "invoked"])
        BY <2>2, <2>4, <3>1 DEF ReadSingleton
      <3>3. FrameClean([t EXCEPT !.value = v, !.step = "invoked"])'
        BY <2>2, <3>1, CleanTakes
      <3> QED  BY <1>2, <2>1, <3>2, <3>3, CleanStack DEF CleanInv
    <2>5. CASE InvokeGetReturns
      <3>1. ReplaceTop([t EXCEPT !.step = "return"])
        BY <2>2, <2>5 DEF InvokeGetReturns
      <3>2. FrameClean([t EXCEPT !.step = "return"])'
        BY <2>2, CleanTakes
      <3> QED  BY <1>2, <2>1, <3>1, <3>2, CleanStack DEF CleanInv
    <2> QED  BY <1>7, <2>3, <2>4, <2>5
  <1>8. CASE FollowType \/ CreateSingleton \/ NextArgument
    <2>1. stack # <<>> /\ UNCHANGED <<objects, single>>
      BY <1>8 DEF FollowType, CreateSingleton, NextArgument, LookupNormal, Running
    <2>2. PICK t \in StackFrames :
            t = TopFrame /\ FrameClean(t)' /\ (t.context.params = {} => Clean(t.value)')
      BY <1>0, <2>1, TopsClean
    <2>3. PICK w, c : \/ Push([t EXCEPT !.step = "wait"], Frame(w, c, "look"))
                      \/ \E i : Push([t EXCEPT !.at = i], Frame(w, c, "look"))
      BY <1>8, <2>2 DEF FollowType, CreateSingleton, NextArgument
    <2>4. PICK f : Push(f, Frame(w, c, "look")) /\ FrameClean(f)'
      BY <2>2, <2>3, CleanTakes
    <2>5. FrameClean(Frame(w, c, "look"))'
      BY NewFrameClean
    <2> QED  BY <1>2, <2>1, <2>4, <2>5, CleanStack DEF CleanInv
  <1>9. CASE MakeFactory
    <2>1. PICK o : /\ o = [key |-> TopFrame.want.key, made |-> "factory",
                           args |-> <<>>, holds |-> {}]
                   /\ objects' = Append(objects, o)
      BY <1>9 DEF MakeFactory
    <2>2. stack # <<>> /\ single' = single /\ o \in Objects
      <3>1. stack # <<>> /\ single' = single
        BY <1>9 DEF MakeFactory, LookupNormal, Running
      <3>2. TopFrame.want.key \in Keys
        BY <3>1, TopValues
      <3> QED  BY <2>1, <3>1, <3>2 DEF Objects
    <2>3. PICK t \in StackFrames : t = TopFrame /\ FrameClean(t)'
      BY <1>0, <2>1, <2>2, TopsClean
    <2>4. PICK v : v = New(Len(objects) + 1) /\ Clean(v)'
      <3>1. Len(objects) \in Nat /\ objects'[Len(objects) + 1] = o
        BY <1>0, <2>1, <2>2 DEF DataOK
      <3> QED  BY <2>1, <3>1, ValuesDiffer DEF Clean
    <2>5. ReplaceTop([t EXCEPT !.value = v, !.step = "return"])
      BY <1>9, <2>3, <2>4 DEF MakeFactory, Answer
    <2>6. FrameClean([t EXCEPT !.value = v, !.step = "return"])'
      BY <2>3, <2>4, CleanTakes
    <2> QED  BY <1>2, <2>1, <2>2, <2>5, <2>6, CleanStack DEF CleanInv
  <1>10. CASE EnterBody
    <2> DEFINE given == ToSet(TopFrame.got)
               through == UNION {objects[v.id].holds : v \in {g \in given : g.from = "new"}}
    <2>1. PICK o : /\ o = [key |-> TopFrame.want.key, made |-> EntryOfTop.kind,
                           args |-> TopFrame.got,
                           holds |-> through \cup {g \in given : g.from = "argument"}]
                   /\ objects' = Append(objects, o)
      BY <1>10 DEF EnterBody
    <2>2. /\ stack # <<>> /\ single' = single /\ o \in Objects
      <3>1. stack # <<>> /\ TopFrame.step = "args" /\ single' = single
        BY <1>10 DEF EnterBody, Running
      <3>2. /\ TopFrame.want.key \in Keys /\ TopFrame.got \in Seq(Values)
            /\ EntryOfTop.kind \in {"ctor", "provider"}
            /\ \A v \in given : Known(v) /\ v \in Values
        <4>1. FrameOK(TopFrame) /\ TopFrame.got \in Seq(Values)
          BY <1>0, <3>1, TopIs, TopValues
        <4>2. \A v \in given : \E i \in 1..Len(TopFrame.got) : v = TopFrame.got[i]
          BY <4>1 DEF ToSet
        <4> QED  BY <3>1, <4>1, <4>2, TopValues DEF FrameOK, EntryOfTop
      <3>3. \A v \in given : v.from = "new" => objects[v.id].holds \in SUBSET Values
        <4>1. \A n \in 1..Len(objects) : objects[n].holds \in SUBSET Values
          <5>1. \A n \in 1..Len(objects) : objects[n] \in Objects
            BY <1>0 DEF DataOK
          <5> QED  BY <5>1 DEF Objects
        <4> QED  BY <3>2, <4>1 DEF Known
      <3>4. through \in SUBSET Values
        BY <3>3
      <3> QED  BY <2>1, <3>1, <3>2, <3>4 DEF Objects
    <2>3. PICK t \in StackFrames :
            t = TopFrame /\ FrameOK(t) /\ FrameClean(t) /\ FrameClean(t)'
      BY <1>0, <2>1, <2>2, TopsClean
    <2>4. PICK v : /\ v = New(Len(objects) + 1)
                   /\ v.from = "new" /\ v.id = Len(objects) + 1
      BY <1>0, ValuesDiffer DEF DataOK
    <2>5. objects'[v.id] = o
      BY <1>0, <2>1, <2>2, <2>4 DEF DataOK
    <2>6. t.context.params = {} => o.holds = {}
      <3> SUFFICES ASSUME t.context.params = {}  PROVE o.holds = {}
        OBVIOUS
      <3>1. \A g \in given : Clean(g)
        <4>1. t.got \in Seq(Values)
          BY <2>3 DEF StackFrames
        <4>2. \A g \in given : \E i \in 1..Len(t.got) : g = t.got[i]
          BY <2>3, <4>1 DEF ToSet
        <4> QED  BY <2>3, <4>2 DEF FrameClean
      <3>2. through = {} /\ {g \in given : g.from = "argument"} = {}
        BY <3>1 DEF Clean
      <3> QED  BY <2>1, <3>2
    <2>7. t.context.params = {} => Clean(v)'
      BY <2>4, <2>5, <2>6 DEF Clean
    <2>8. ReplaceTop([t EXCEPT !.value = v, !.step = "body"])
      <3>1. [t EXCEPT !.step = "body", !.value = v] = [t EXCEPT !.value = v, !.step = "body"]
        BY DEF StackFrames
      <3> QED  BY <1>10, <2>3, <2>4, <3>1 DEF EnterBody
    <2>9. FrameClean([t EXCEPT !.value = v, !.step = "body"])'
      BY <2>3, <2>7, CleanTakes
    <2> QED  BY <1>2, <2>1, <2>2, <2>8, <2>9, CleanStack DEF CleanInv
  <1>11. CASE LeaveBody
    <2>1. stack # <<>> /\ UNCHANGED <<objects, single>>
      BY <1>11 DEF LeaveBody, Running
    <2>2. PICK t \in StackFrames :
            t = TopFrame /\ FrameClean(t)' /\ (t.context.params = {} => Clean(t.value)')
      BY <1>0, <2>1, TopsClean
    <2>3. PICK s : ReplaceTop([t EXCEPT !.got = <<>>, !.at = 0, !.step = s])
      BY <1>11, <2>2 DEF LeaveBody
    <2>4. FrameClean([t EXCEPT !.got = <<>>, !.at = 0, !.step = s])'
      BY <2>2, CleanTakes
    <2> QED  BY <1>2, <2>1, <2>3, <2>4, CleanStack DEF CleanInv
  <1>12. CASE ReturnToUser \/ ReturnFromCall
    <2>1. /\ UNCHANGED <<objects, single>>
          /\ stack' = <<>> \/ (Len(stack) > 1 /\ stack' = SubSeq(stack, 1, Len(stack) - 2))
      BY <1>12 DEF ReturnToUser, ReturnFromCall, ReturnsInto
    <2>2. PICK f : FrameClean(f)'
      BY NewFrameClean
    <2> QED  BY <1>2, <2>1, <2>2, CleanStack DEF CleanInv
  <1>13. CASE ReturnAsArgument \/ ReturnThrough \/ ReturnToSingleton
    <2>1. /\ stack # <<>> /\ Len(stack) > 1 /\ objects' = objects
          /\ Below.step \in {"args", "wait"}
      BY <1>13 DEF ReturnAsArgument, ReturnThrough, ReturnToSingleton, ReturnsInto, Running
    <2>2. PICK t \in StackFrames :
            t = TopFrame /\ FrameClean(t)' /\ (t.context.params = {} => Clean(t.value)')
      BY <1>0, <2>1, TopsClean
    <2>3. PICK b \in StackFrames :
            /\ b = Below /\ FrameClean(b)'
            /\ t.context = IF AnswersSingleton(b) THEN EmptyContext ELSE b.context
      BY <1>0, <2>1, <2>2, TopsClean
    <2>4. AnswersSingleton(b) \/ b.context.params = {} => Clean(t.value)'
      BY <2>2, <2>3 DEF EmptyContext
    <2>5. CASE ReturnAsArgument
      <3>1. PICK h : /\ h = [b.got EXCEPT ![b.at] = t.value] /\ Len(h) = Len(b.got)
                     /\ \A i \in 1..Len(h) : h[i] = t.value \/ h[i] = b.got[i]
        <4>1. PICK s \in Seq(Values) : s = b.got
          BY <2>3 DEF StackFrames
        <4>2. PICK a : a = b.at
          OBVIOUS
        <4>3. PICK v \in Values : v = t.value
          BY <2>2 DEF StackFrames
        <4> DEFINE h == [i \in 1..Len(s) |-> IF i = a THEN v ELSE s[i]]
        <4>4. h \in Seq(Values) /\ Len(h) = Len(s)
          BY <4>1
        <4>5. h = [s EXCEPT ![a] = v]
          BY <4>1
        <4> QED  BY <4>1, <4>2, <4>3, <4>4, <4>5
      <3>2. ReplaceTwo([b EXCEPT !.got = h, !.at = 0])
        <4>1. [b EXCEPT !.got = h, !.at = 0] = [b EXCEPT !.got[b.at] = t.value, !.at = 0]
          BY <3>1 DEF StackFrames
        <4> QED  BY <2>2, <2>3, <2>5, <4>1 DEF ReturnAsArgument
      <3>3. FrameClean([b EXCEPT !.got = h, !.at = 0])'
        <4>1. b.context.params = {} =>
                Clean(t.value)' /\ Clean(b.value)' /\ \A i \in 1..Len(h) : Clean(b.got[i])'
          BY <2>3, <2>4, <3>1 DEF FrameClean
        <4>2. b.context.params = {} => \A i \in 1..Len(h) : Clean(h[i])'
          BY <3>1, <4>1 DEF Clean
        <4> QED  BY <4>1, <4>2 DEF StackFrames, FrameClean
      <3>4. single' = single
        BY <2>5 DEF ReturnAsArgument
      <3> QED  BY <1>2, <2>1, <3>2, <3>3, <3>4, CleanStack DEF CleanInv
    <2>6. CASE ReturnThrough \/ ReturnToSingleton
      <3>1. PICK s : ReplaceTwo([b EXCEPT !.value = t.value, !.step = s])
        BY <2>2, <2>3, <2>6 DEF ReturnThrough, ReturnToSingleton
      <3>2. FrameClean([b EXCEPT !.value = t.value, !.step = s])'
        BY <2>3, <2>4, CleanTakes
      <3>3. \A i \in 1..Len(stack') : FrameClean(stack[i])'
        BY <2>1, <3>1, <3>2, CleanStack
      <3>4. \A k \in Keys : Clean(single[k])'
        <4>1. CASE ReturnThrough
          BY <1>2, <2>1, <4>1 DEF ReturnThrough
        <4>2. CASE ReturnToSingleton
          <5>1. Clean(t.value)'
            BY <2>3, <2>4, <4>2 DEF ReturnToSingleton
          <5>2. single' = [single EXCEPT ![b.want.key] = t.value]
            BY <2>2, <2>3, <4>2 DEF ReturnToSingleton
          <5>3. \A k \in Keys : single'[k] = t.value \/ single'[k] = single[k]
            BY <1>0, <5>2 DEF DataOK
          <5> QED  BY <2>1, <5>1, <5>3 DEF CleanInv, Clean
        <4> QED  BY <2>6, <4>1, <4>2
      <3> QED  BY <3>3, <3>4 DEF CleanInv
    <2> QED  BY <1>13, <2>5, <2>6
  <1> QED
    BY <1>1, <1>3, <1>4, <1>5, <1>6, <1>7, <1>8, <1>9, <1>10, <1>11, <1>12, <1>13
    DEF Next, Progress

\* A factory call may create a singleton on its way, and its arguments are gone
\* when it returns: the singleton is built without them, and so is everything it
\* is built from.
THEOREM SingletonsKeepNoArguments == Spec => []SingletonsHoldNoArguments
  <1>1. Init => CleanInv
    BY ValuesDiffer DEF Init, CleanInv, Clean
  <1>2. StackInv /\ CleanInv /\ [Next]_vars => CleanInv'
    BY CleanHolds
  <1>3. CleanInv => SingletonsHoldNoArguments
    BY DEF CleanInv, Clean, SingletonsHoldNoArguments
  <1> QED  BY StackInvariant, <1>1, <1>2, <1>3, PTL DEF Spec
=============================================================================
