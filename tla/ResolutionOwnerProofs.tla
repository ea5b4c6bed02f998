------------------------ MODULE ResolutionOwnerProofs ------------------------
(***************************************************************************)
(* That the instance of a singleton is never replaced, that the recursion  *)
(* is no deeper than there are keys, that whatever Guic++ constructs has   *)
(* one owner, and that a request ends as the bindings say, for any keys    *)
(* and any acyclic bindings.                                               *)
(*                                                                         *)
(* The argument: the keys of the requests on the stack go down in the      *)
(* graph of the bindings, from a frame to those above it, and past the     *)
(* call of a factory too, since what the factory makes is needed by the    *)
(* body that calls it (Chain). A singleton that is being created is thus   *)
(* not asked for again, and no factory is called twice. An object          *)
(* is in one place at a time: every action moves it or leaves it. A value  *)
(* comes down the stack from requests that resolve, and a failed check     *)
(* from one that does not (OutcomeInv).                                    *)
(***************************************************************************)
EXTENDS ResolutionProofs

-----------------------------------------------------------------------------
(* What the bindings lead to. *)

Closed(b, group) ==
    \A k \in group : \A w \in NeededBy(b, k) : w.how = "normal" => w.key \in group

\* j is k or needed for it, directly or not.
Reaches(b, k, j) == \A group \in SUBSET Keys : k \in group /\ Closed(b, group) => j \in group

\* j is needed for k.
Needs(b, k, j) == \E w \in NeededBy(b, k) : w.how = "normal" /\ Reaches(b, w.key, j)

LEMMA NeededAre ==
    ASSUME NEW b \in Bindings, NEW k \in Keys
    PROVE  /\ \A w \in NeededBy(b, k) : w \in Wants /\ w.key \in Keys
           /\ b[k].kind \in {"ctor", "provider"} =>
                \A i \in 1..Len(b[k].args) : b[k].args[i] \in NeededBy(b, k)
           /\ b[k].kind \in {"ctor", "provider"} =>
                \A f \in b[k].calls : b[f].to \in NeededBy(b, k)
           /\ b[k].kind \in {"type", "singleton"} => b[k].to \in NeededBy(b, k)
  <1>1. b[k] \in Entries
    BY ResolutionAssumption
  <1>2. CASE b[k].kind \in {"ctor", "provider"}
    <2>1. b[k].args \in Seq(Wants) /\ b[k].calls \in SUBSET Keys
      BY <1>1, <1>2 DEF Entries, CtorEntries, ProviderEntries, TypeEntries,
           SingletonEntries, FactoryEntries, InstanceEntries, InvalidEntries
    <2>2. NeededBy(b, k) = {b[k].args[i] : i \in 1..Len(b[k].args)} \cup {b[f].to : f \in b[k].calls}
      BY <1>2, <2>1 DEF NeededBy, ToSet
    <2>3. \A i \in 1..Len(b[k].args) : b[k].args[i] \in Wants /\ b[k].args[i] \in NeededBy(b, k)
      BY <2>1, <2>2
    <2>4. \A f \in b[k].calls : b[f].to \in Wants /\ b[f].to \in NeededBy(b, k)
      <3> SUFFICES ASSUME NEW f \in b[k].calls  PROVE b[f].to \in Wants
        BY <2>2
      <3>1. CallsFactories(b)
        BY ResolutionAssumption, Zenon
      <3>2. b[f].kind = "factory" /\ b[f] \in Entries
        BY <1>2, <2>1, <3>1, ResolutionAssumption DEF CallsFactories
      <3> QED  BY <3>2 DEF Entries, CtorEntries, ProviderEntries, TypeEntries,
                 SingletonEntries, FactoryEntries, InstanceEntries, InvalidEntries
    <2>5. \A w \in NeededBy(b, k) : w \in Wants
      BY <2>2, <2>3, <2>4
    <2> QED  BY <1>2, <2>3, <2>4, <2>5 DEF Wants
  <1>3. CASE b[k].kind \in {"type", "singleton"}
    <2>1. b[k].to \in Wants
      BY <1>1, <1>3 DEF Entries, CtorEntries, ProviderEntries, TypeEntries,
           SingletonEntries, FactoryEntries, InstanceEntries, InvalidEntries
    <2>2. NeededBy(b, k) = {b[k].to}
      BY <1>3 DEF NeededBy
    <2> QED  BY <1>3, <2>1, <2>2 DEF Wants
  <1>4. CASE b[k].kind \in {"factory", "instance", "none"}
    <2>1. NeededBy(b, k) = {}
      BY <1>4 DEF NeededBy
    <2> QED  BY <1>4, <2>1
  <1>5. b[k].kind \in {"ctor", "provider", "type", "singleton", "factory", "instance", "none"}
    BY <1>1 DEF Entries, CtorEntries, ProviderEntries, TypeEntries, SingletonEntries,
                FactoryEntries, InstanceEntries, InvalidEntries
  <1> QED  BY <1>2, <1>3, <1>4, <1>5

LEMMA ReachesOn ==
    ASSUME NEW b, NEW k
    PROVE  /\ Reaches(b, k, k)
           /\ \A j, l : Reaches(b, k, j) /\ Reaches(b, j, l) => Reaches(b, k, l)
           /\ \A j : Needs(b, k, j) => Reaches(b, k, j)
           /\ \A j, l : Needs(b, k, j) /\ Reaches(b, j, l) => Needs(b, k, l)
           /\ \A j, l : Needs(b, k, j) /\ Needs(b, j, l) => Needs(b, k, l)
  <1>1. Reaches(b, k, k)
    BY DEF Reaches
  <1>2. \A i, j, l : Reaches(b, i, j) /\ Reaches(b, j, l) => Reaches(b, i, l)
    BY Zenon DEF Reaches
  <1>3. \A i, j : Needs(b, i, j) => Reaches(b, i, j)
    <2> SUFFICES ASSUME NEW i, NEW j, Needs(b, i, j)  PROVE Reaches(b, i, j)
      OBVIOUS
    <2>1. PICK w \in NeededBy(b, i) : w.how = "normal" /\ Reaches(b, w.key, j)
      BY DEF Needs
    <2>2. \A group \in SUBSET Keys : i \in group /\ Closed(b, group) => w.key \in group
      BY <2>1 DEF Closed
    <2> QED  BY <2>1, <2>2 DEF Reaches
  <1>4. \A i, j, l : Needs(b, i, j) /\ Reaches(b, j, l) => Needs(b, i, l)
    BY <1>2 DEF Needs
  <1> QED  BY <1>1, <1>2, <1>3, <1>4

\* Bindings that are acyclic lead away from every key.
LEMMA NothingNeedsItself ==
    ASSUME NEW b \in Bindings, NEW k \in Keys
    PROVE  ~Needs(b, k, k)
  <1> SUFFICES ASSUME Needs(b, k, k)  PROVE FALSE
    OBVIOUS
  <1> DEFINE cycle == {j \in Keys : Reaches(b, k, j) /\ Reaches(b, j, k)}
  <1>1. k \in cycle
    BY ReachesOn
  <1>2. PICK x \in cycle : \A w \in NeededBy(b, x) : w.how = "normal" => w.key \notin cycle
    <2>1. Acyclic(b) /\ cycle \in (SUBSET Keys) \ {{}}
      <3>1. Acyclic(b)
        BY ResolutionAssumption, Zenon
      <3>2. cycle \subseteq Keys
        OBVIOUS
      <3>3. cycle # {}
        BY <1>1
      <3> HIDE DEF cycle
      <3> QED  BY <3>1, <3>2, <3>3
    <2> QED  BY <2>1 DEF Acyclic
  <1>3. \A w \in NeededBy(b, x) : w.how = "normal" => ~Reaches(b, w.key, k)
    <2> SUFFICES ASSUME NEW w \in NeededBy(b, x), w.how = "normal", Reaches(b, w.key, k)
                 PROVE  FALSE
      OBVIOUS
    <2>1. w.key \in Keys
      BY NeededAre
    <2>2. Needs(b, x, w.key)
      BY ReachesOn DEF Needs
    <2>3. Reaches(b, k, w.key)
      BY <2>2, ReachesOn
    <2> QED  BY <1>2, <2>1, <2>3
  <1>4. x # k
    BY <1>3 DEF Needs
  <1> DEFINE below == {x} \cup {j \in Keys :
                        \E w \in NeededBy(b, x) : w.how = "normal" /\ Reaches(b, w.key, j)}
  <1>5. Closed(b, below)
    <2> SUFFICES ASSUME NEW j \in below, NEW w \in NeededBy(b, j), w.how = "normal"
                 PROVE  w.key \in below
      BY DEF Closed
    <2>1. w.key \in Keys
      BY NeededAre
    <2>2. CASE j = x
      BY <2>1, <2>2, ReachesOn
    <2>3. CASE j # x
      <3>1. PICK v \in NeededBy(b, x) : v.how = "normal" /\ Reaches(b, v.key, j)
        BY <2>3
      <3>2. Needs(b, j, w.key)
        BY ReachesOn DEF Needs
      <3>3. Reaches(b, v.key, w.key)
        BY <3>1, <3>2, ReachesOn
      <3> QED  BY <2>1, <3>1, <3>3
    <2> QED  BY <2>2, <2>3
  <1>6. below \in SUBSET Keys /\ x \in below /\ k \notin below
    BY <1>3, <1>4
  <1> QED  BY <1>5, <1>6 DEF Reaches

-----------------------------------------------------------------------------
(* How the frames of a stack follow from each other. *)

\* What the frame g above f is for.
WaitsFor(b, f, g) ==
    /\ f.step = "args" => f.at # 0 /\ g.want = b[f.want.key].args[f.at]
    /\ f.step = "wait" => g.want = b[f.want.key].to
    /\ f.step = "call" => g.want = f.want

\* A request is for something that the requests below it need. (The frame of a
\* factory's Get() stands for the request above it.)
Descends(b, f, g) ==
    f.step # "call" /\ g.want.how = "normal" =>
      f.want.how = "normal" /\ Needs(b, f.want.key, g.want.key)

Chain(b, s) ==
    \A i \in 1..Len(s), j \in 1..Len(s) :
      i < j => Descends(b, s[i], s[j]) /\ (j = i + 1 => WaitsFor(b, s[i], s[j]))

LEMMA ChainTop ==
    ASSUME NEW b, NEW S, NEW s \in Seq(S), s # <<>>, Chain(b, s),
           NEW f \in S, f.want = s[Len(s)].want, NEW t, t = Append(Front(s), f)
    PROVE  Chain(b, t)
  <1>1. /\ Len(t) = Len(s) /\ Len(s) \in Nat
        /\ \A i \in 1..Len(s) : t[i] = IF i = Len(s) THEN f ELSE s[i]
    BY TopReplaced
  <1> SUFFICES ASSUME NEW i \in 1..Len(s), NEW j \in 1..Len(s), i < j
               PROVE  Descends(b, t[i], t[j]) /\ (j = i + 1 => WaitsFor(b, t[i], t[j]))
    BY <1>1 DEF Chain
  <1>2. t[i] = s[i] /\ t[j].want = s[j].want
    BY <1>1
  <1>3. Descends(b, s[i], s[j]) /\ (j = i + 1 => WaitsFor(b, s[i], s[j]))
    BY DEF Chain
  <1> QED  BY <1>2, <1>3 DEF Descends, WaitsFor

LEMMA ChainPush ==
    ASSUME NEW b, NEW S, NEW s \in Seq(S), s # <<>>, Chain(b, s),
           NEW f \in S, NEW g \in S, f.want = s[Len(s)].want, f.want.how = "normal",
           WaitsFor(b, f, g), Descends(b, f, g), f.step # "call",
           NEW t, t = Front(s) \o <<f, g>>
    PROVE  Chain(b, t)
  <1>1. PICK n \in Nat : n = Len(s) /\ n > 0
    OBVIOUS
  <1>2. /\ Len(t) = n + 1
        /\ \A i \in 1..(n + 1) : t[i] = IF i = n + 1 THEN g ELSE IF i = n THEN f ELSE s[i]
    BY <1>1, TopPushed
  <1> SUFFICES ASSUME NEW i \in 1..(n + 1), NEW j \in 1..(n + 1), i < j
               PROVE  Descends(b, t[i], t[j]) /\ (j = i + 1 => WaitsFor(b, t[i], t[j]))
    BY <1>2 DEF Chain
  <1>3. CASE j = n + 1 /\ i = n
    <2>1. t[i] = f
      BY <1>1, <1>2, <1>3
    <2>2. t[j] = g
      BY <1>1, <1>2, <1>3
    <2> QED  BY <2>1, <2>2
  <1>4. CASE j = n + 1 /\ i # n
    <2>1. i < n /\ i \in 1..n /\ n \in 1..n /\ t[i] = s[i] /\ t[j] = g /\ j # i + 1
      BY <1>1, <1>2, <1>4
    <2>2. Descends(b, s[i], s[n])
      BY <1>1, <2>1 DEF Chain
    <2>3. Descends(b, s[i], g)
      <3> SUFFICES ASSUME s[i].step # "call", g.want.how = "normal"
                   PROVE  s[i].want.how = "normal" /\ Needs(b, s[i].want.key, g.want.key)
        BY DEF Descends
      <3>1. s[i].want.how = "normal" /\ Needs(b, s[i].want.key, f.want.key)
        BY <1>1, <2>2 DEF Descends
      <3>2. Needs(b, f.want.key, g.want.key)
        BY DEF Descends
      <3> QED  BY <3>1, <3>2, ReachesOn
    <2> QED  BY <2>1, <2>3
  <1>5. CASE j # n + 1
    <2>1. i \in 1..n /\ j \in 1..n /\ t[i] = s[i] /\ t[j].want = s[j].want
      BY <1>1, <1>2, <1>5
    <2>2. Descends(b, s[i], s[j]) /\ (j = i + 1 => WaitsFor(b, s[i], s[j]))
      BY <1>1, <2>1 DEF Chain
    <2> QED  BY <2>1, <2>2 DEF Descends, WaitsFor
  <1> QED  BY <1>3, <1>4, <1>5

LEMMA ChainReturn ==
    ASSUME NEW b, NEW S, NEW s \in Seq(S), Len(s) > 1, Chain(b, s),
           NEW f \in S, f.want = s[Len(s) - 1].want,
           NEW t, t = Append(SubSeq(s, 1, Len(s) - 2), f)
    PROVE  Chain(b, t)
  <1>1. PICK n \in Nat : n = Len(s) - 1 /\ n > 0 /\ Len(s) = n + 1
    OBVIOUS
  <1>2. Len(t) = n /\ \A i \in 1..n : t[i] = IF i = n THEN f ELSE s[i]
    BY <1>1, TopReturned
  <1> SUFFICES ASSUME NEW i \in 1..n, NEW j \in 1..n, i < j
               PROVE  Descends(b, t[i], t[j]) /\ (j = i + 1 => WaitsFor(b, t[i], t[j]))
    BY <1>2 DEF Chain
  <1>3. t[i] = s[i] /\ t[j].want = s[j].want
    <2>1. i # n /\ t[i] = s[i]
      BY <1>2
    <2>2. t[j] = IF j = n THEN f ELSE s[j]
      BY <1>2
    <2>3. f.want = s[n].want
      BY <1>1
    <2> QED  BY <2>1, <2>2, <2>3
  <1>4. Descends(b, s[i], s[j]) /\ (j = i + 1 => WaitsFor(b, s[i], s[j]))
    BY <1>1 DEF Chain
  <1> QED  BY <1>3, <1>4 DEF Descends, WaitsFor

LEMMA ChainTwoGone ==
    ASSUME NEW b, NEW S, NEW s \in Seq(S), Len(s) > 1, Chain(b, s),
           NEW t, t = SubSeq(s, 1, Len(s) - 2)
    PROVE  Chain(b, t)
  <1>1. PICK n \in Nat : n = Len(s) - 2 /\ Len(s) = n + 2
    OBVIOUS
  <1>2. Len(t) = n /\ \A i \in 1..n : t[i] = s[i] /\ i \in 1..Len(s)
    BY <1>1, TwoGone
  <1> QED  BY <1>2 DEF Chain

\* t is the stack s of n frames with two more on top.
Longer(t, s, n, f, g) ==
    /\ Len(s) = n /\ Len(t) = n + 2
    /\ t[n + 1] = f /\ t[n + 2] = g /\ \A i \in 1..n : t[i] = s[i]

\* A factory is called by what is above the others.
LEMMA ChainLonger ==
    ASSUME NEW b, NEW n \in Nat, NEW s, NEW t, NEW f, NEW g, Longer(t, s, n, f, g),
           Chain(b, s), f.step = "call", g.want = f.want,
           n # 0 => s[n].step = "body" /\ s[n].want.how = "normal" /\ Descends(b, s[n], f)
    PROVE  Chain(b, t)
  <1>0. /\ Len(s) = n /\ Len(t) = n + 2
        /\ t[n + 1] = f /\ t[n + 2] = g /\ \A i \in 1..n : t[i] = s[i]
    BY DEF Longer
  <1>1. ASSUME NEW i \in 1..n
        PROVE  Descends(b, s[i], f)
    <2>1. n # 0 /\ n \in 1..n
      OBVIOUS
    <2>2. CASE i = n
      BY <2>1, <2>2
    <2>3. CASE i # n
      <3>1. i < n
        BY <2>3
      <3>2. Descends(b, s[i], s[n])
        BY <1>0, <2>1, <3>1 DEF Chain
      <3> SUFFICES ASSUME s[i].step # "call", g.want.how = "normal"
                   PROVE  s[i].want.how = "normal" /\ Needs(b, s[i].want.key, g.want.key)
        BY DEF Descends
      <3>3. s[n].want.how = "normal" /\ s[n].step # "call"
        BY <2>1
      <3>4. s[i].want.how = "normal" /\ Needs(b, s[i].want.key, s[n].want.key)
        BY <3>2, <3>3 DEF Descends
      <3>5. Needs(b, s[n].want.key, g.want.key)
        BY <2>1, <3>3 DEF Descends
      <3>6. Reaches(b, s[n].want.key, g.want.key)
        BY <3>5, ReachesOn
      <3> QED  BY <3>4, <3>6, ReachesOn
    <2> QED  BY <2>2, <2>3
  <1> SUFFICES ASSUME NEW i \in 1..(n + 2), NEW j \in 1..(n + 2), i < j
               PROVE  Descends(b, t[i], t[j]) /\ (j = i + 1 => WaitsFor(b, t[i], t[j]))
    <2>1. 1..Len(t) = 1..(n + 2)
      BY <1>0
    <2> QED  BY <2>1, Zenon DEF Chain
  <1>2. CASE j = n + 2 /\ i = n + 1
    BY <1>0, <1>2 DEF Descends, WaitsFor
  <1>3. CASE j = n + 2 /\ i # n + 1
    <2>1. i \in 1..n /\ j # i + 1
      BY <1>3
    <2>2. t[i] = s[i] /\ t[j] = g /\ Descends(b, s[i], f)
      BY <1>0, <1>1, <1>3, <2>1
    <2> QED  BY <2>1, <2>2 DEF Descends
  <1>4. CASE j = n + 1
    <2>1. i \in 1..n /\ (j = i + 1 => i = n /\ n # 0)
      BY <1>4
    <2>2. t[i] = s[i] /\ t[j] = f /\ Descends(b, s[i], f)
      BY <1>0, <1>1, <1>4, <2>1
    <2> QED  BY <2>1, <2>2 DEF WaitsFor
  <1>5. CASE j \notin {n + 1, n + 2}
    <2>1. i \in 1..n /\ j \in 1..n
      BY <1>5
    <2>2. Descends(b, s[i], s[j]) /\ (j = i + 1 => WaitsFor(b, s[i], s[j]))
      BY <1>0, <2>1 DEF Chain
    <2> QED  BY <1>0, <2>1, <2>2
  <1> QED  BY <1>2, <1>3, <1>4, <1>5

LEMMA ChainCall ==
    ASSUME NEW b, NEW S, NEW s \in Seq(S), Chain(b, s),
           NEW f \in S, NEW g \in S, f.step = "call", g.want = f.want,
           s # <<>> => s[Len(s)].step = "body" /\ s[Len(s)].want.how = "normal"
                       /\ Descends(b, s[Len(s)], f),
           NEW t, t = s \o <<f, g>>
    PROVE  Chain(b, t)
  <1>1. PICK n \in Nat : n = Len(s)
    OBVIOUS
  <1>2. /\ Len(t) = n + 2
        /\ \A i \in 1..(n + 2) :
             t[i] = IF i = n + 2 THEN g ELSE IF i = n + 1 THEN f ELSE s[i]
    BY <1>1, TwoAdded
  <1>3. t[n + 1] = f /\ t[n + 2] = g /\ \A i \in 1..n : t[i] = s[i]
    <2>1. n + 1 \in 1..(n + 2) /\ n + 2 \in 1..(n + 2) /\ n + 1 # n + 2
      OBVIOUS
    <2>2. \A i \in 1..n : i \in 1..(n + 2) /\ i # n + 1 /\ i # n + 2
      OBVIOUS
    <2> QED  BY <1>2, <2>1, <2>2, Zenon
  <1>4. n # 0 => s[n].step = "body" /\ s[n].want.how = "normal" /\ Descends(b, s[n], f)
    <2>1. n # 0 => s # <<>>
      BY <1>1
    <2> QED  BY <1>1, <2>1, Zenon
  <1>5. Longer(t, s, n, f, g)
    BY <1>1, <1>2, <1>3 DEF Longer
  <1> QED  BY <1>4, <1>5, ChainLonger

-----------------------------------------------------------------------------
(* What the frames on the stack are for. *)

\* A frame that waits, or runs a body, is one of its entry; the frame of a
\* factory's Get() is for what some factory makes.
FrameBuilt(f) ==
    /\ f.step \in {"wait", "args", "body", "invoked"} => f.want.how = "normal"
    /\ f.step = "wait" => entry[f.want.key].kind \in {"type", "singleton"}
    /\ f.step \in {"args", "body"} => Len(f.got) = Len(entry[f.want.key].args)
    /\ f.step = "call" =>
         \E k \in Keys : entry[k].kind = "factory" /\ entry[k].to = f.want

\* The instance that a frame is to create does not exist.
Waiting(f) == AnswersSingleton(f) => single[f.want.key] = NoValue

BuiltInv ==
    /\ \A i \in 1..Len(stack) : FrameBuilt(stack[i]) /\ Waiting(stack[i])
    /\ Chain(entry, stack)

\* The bindings are fixed, and a frame is what it is by them.
LEMMA BuiltStays ==
    ASSUME entry' = entry, NEW f
    PROVE  FrameBuilt(f)' <=> FrameBuilt(f)
  BY DEF FrameBuilt

\* The frames of the stack are as they should be if those new on it are.
LEMMA BuiltStack ==
    ASSUME StackInv, BuiltInv, Grows,
           NEW f, NEW g, FrameBuilt(f)', FrameBuilt(g)',
           NEW t, t = stack', Moved(stack, f, g, t)
    PROVE  \A i \in 1..Len(stack') :
             /\ FrameBuilt(stack[i])'
             /\ single' = single /\ Waiting(f)' /\ Waiting(g)' => Waiting(stack[i])'
  <1> SUFFICES ASSUME NEW i \in 1..Len(stack')
               PROVE  /\ FrameBuilt(stack[i])'
                      /\ single' = single /\ Waiting(f)' /\ Waiting(g)' => Waiting(stack[i])'
    OBVIOUS
  <1>1. stack'[i] \in {f, g} \/ (i \in 1..Len(stack) /\ stack'[i] = stack[i])
    BY StackFrom DEF StackInv, StackOK
  <1>2. CASE stack'[i] \in {f, g}
    <2>1. PICK h : h = stack'[i] /\ FrameBuilt(h)' /\ (Waiting(f)' /\ Waiting(g)' => Waiting(h)')
      BY <1>2
    <2> QED  BY <2>1 DEF FrameBuilt, Waiting, AnswersSingleton
  <1>3. CASE i \in 1..Len(stack) /\ stack'[i] = stack[i]
    <2>1. PICK h : h = stack[i] /\ FrameBuilt(h) /\ Waiting(h)
      BY <1>3 DEF BuiltInv
    <2>2. FrameBuilt(h)'
      BY <2>1, BuiltStays DEF Grows
    <2>3. single' = single => Waiting(h)'
      BY <2>1 DEF Waiting, AnswersSingleton, Grows
    <2>4. stack'[i] = h
      BY <1>3, <2>1
    <2>5. FrameBuilt(stack[i])'
      BY <2>2, <2>4 DEF FrameBuilt
    <2>6. single' = single => Waiting(stack[i])'
      BY <2>3, <2>4 DEF Waiting, AnswersSingleton
    <2> QED  BY <2>5, <2>6
  <1> QED  BY <1>1, <1>2, <1>3

\* The frame on top and the one below it, before the step.
LEMMA TopsBuilt ==
    ASSUME StackInv, BuiltInv, Grows, stack # <<>>
    PROVE  /\ \E t \in StackFrames :
                /\ t = TopFrame /\ t = stack[Len(stack)] /\ FrameOK(t)
                /\ FrameBuilt(t) /\ FrameBuilt(t)'
                /\ t.want \in Wants /\ t.want.key \in Keys /\ t.value \in Values
           /\ Len(stack) > 1 =>
                \E b \in StackFrames :
                  /\ b = Below /\ b = stack[Len(stack) - 1] /\ FrameOK(b)
                  /\ FrameBuilt(b) /\ FrameBuilt(b)' /\ WaitsFor(entry, b, TopFrame)
                  /\ b.want \in Wants /\ b.want.key \in Keys
  <1>0. PICK n \in Nat : n = Len(stack) /\ n > 0 /\ n \in 1..Len(stack) /\ TopFrame = stack[n]
    BY DEF StackInv, StackOK, TopFrame, Last
  <1>1. PICK t \in StackFrames : t = TopFrame /\ FrameOK(t)
    BY TopStays
  <1>2. FrameBuilt(t) /\ FrameBuilt(t)'
    <2>1. FrameBuilt(t)
      BY <1>0, <1>1 DEF BuiltInv
    <2> QED  BY <2>1, BuiltStays DEF Grows
  <1>3. t.want \in Wants /\ t.want.key \in Keys /\ t.value \in Values
    BY DEF StackFrames, Wants
  <1>4. ASSUME Len(stack) > 1
        PROVE  \E b \in StackFrames :
                  /\ b = Below /\ b = stack[Len(stack) - 1] /\ FrameOK(b)
                  /\ FrameBuilt(b) /\ FrameBuilt(b)' /\ WaitsFor(entry, b, TopFrame)
                  /\ b.want \in Wants /\ b.want.key \in Keys
    <2>1. PICK b \in StackFrames : b = Below /\ FrameOK(b)
      BY <1>4, TopStays
    <2>2. PICK m \in Nat : /\ m = Len(stack) - 1 /\ m \in 1..Len(stack)
                           /\ n = m + 1 /\ m < n /\ stack[m] = b
      BY <1>0, <1>4, <2>1 DEF Below
    <2>3. FrameBuilt(b) /\ WaitsFor(entry, b, TopFrame)
      BY <1>0, <2>2 DEF BuiltInv, Chain
    <2>4. FrameBuilt(b)'
      BY <2>3, BuiltStays DEF Grows
    <2>5. b.want \in Wants /\ b.want.key \in Keys
      BY DEF StackFrames, Wants
    <2> QED  BY <2>1, <2>2, <2>3, <2>4, <2>5
  <1> QED  BY <1>0, <1>1, <1>2, <1>3, <1>4

\* A step that is not the creation of a singleton only has to care for the
\* frames that it puts on the stack.
LEMMA BuiltStep ==
    ASSUME StackInv, BuiltInv, Grows, single' = single,
           NEW f, NEW g, FrameBuilt(f)', FrameBuilt(g)', Waiting(f)', Waiting(g)',
           NEW t, t = stack', Moved(stack, f, g, t), Chain(entry, t)
    PROVE  BuiltInv'
  <1>1. \A i \in 1..Len(stack') : FrameBuilt(stack[i])' /\ Waiting(stack[i])'
    BY BuiltStack
  <1>2. Chain(entry, stack)'
    BY DEF Grows
  <1> QED  BY <1>1, <1>2 DEF BuiltInv

\* A frame that is pushed for a request.
LEMMA NewFrameBuilt ==
    ASSUME NEW w, NEW c
    PROVE  FrameBuilt(Frame(w, c, "look"))' /\ Waiting(Frame(w, c, "look"))'
  BY DEF Frame, FrameBuilt, Waiting, AnswersSingleton

\* The top frame is done with what it waited for.
LEMMA BuiltGoesOn ==
    ASSUME StackInv, BuiltInv, Grows, stack # <<>>, single' = single,
           NEW v \in Values, NEW s \in {"invoked", "return"},
           TopFrame.want.how = "normal" \/ s = "return",
           ReplaceTop([TopFrame EXCEPT !.value = v, !.step = s])
    PROVE  BuiltInv'
  <1>1. PICK t \in StackFrames : t = TopFrame /\ t = stack[Len(stack)]
    BY TopsBuilt
  <1> DEFINE f == [t EXCEPT !.value = v, !.step = s]
  <1>2. f \in StackFrames /\ f.want = t.want /\ f.step = s
    BY DEF StackFrames, Steps
  <1>3. ReplaceTop(f)
    BY <1>1
  <1> HIDE DEF f
  <1>5. FrameBuilt(f)' /\ Waiting(f)'
    BY <1>1, <1>2 DEF FrameBuilt, Waiting, AnswersSingleton
  <1>6. PICK u : u = stack' /\ u = Append(Front(stack), f) /\ Moved(stack, f, f, u)
    BY <1>3 DEF ReplaceTop, Moved
  <1>7. Chain(entry, u)
    <2>1. stack \in Seq(StackFrames) /\ Chain(entry, stack)
      BY DEF StackInv, StackOK, BuiltInv
    <2> QED  BY <1>1, <1>2, <1>6, <2>1, ChainTop
  <1> QED  BY <1>5, <1>6, <1>7, BuiltStep

\* The top frame requests something that its entry needs.
LEMMA BuiltAsks ==
    ASSUME StackInv, BuiltInv, Grows, stack # <<>>, single' = single,
           TopFrame.want.how = "normal",
           NEW f \in StackFrames, f.want = TopFrame.want, f.step \in {"args", "wait"},
           FrameBuilt(f)', Waiting(f)', NEW w \in NeededBy(entry, f.want.key), NEW c,
           Frame(w, c, "look") \in StackFrames,
           WaitsFor(entry, f, Frame(w, c, "look")), Push(f, Frame(w, c, "look"))
    PROVE  BuiltInv'
  <1> DEFINE g == Frame(w, c, "look")
  <1>1. g \in StackFrames /\ g.want = w /\ Push(f, g) /\ WaitsFor(entry, f, g)
        /\ FrameBuilt(g)' /\ Waiting(g)'
    BY NewFrameBuilt DEF Frame
  <1> HIDE DEF g
  <1>2. PICK u : u = stack' /\ u = Front(stack) \o <<f, g>> /\ Moved(stack, f, g, u)
    BY <1>1 DEF Push, Moved
  <1>3. Descends(entry, f, g)
    BY <1>1, ReachesOn DEF Descends, Needs
  <1>4. stack \in Seq(StackFrames) /\ Chain(entry, stack) /\ f.want = stack[Len(stack)].want
    BY TopsBuilt DEF StackInv, StackOK, BuiltInv
  <1>5. Chain(entry, u)
    BY <1>1, <1>2, <1>3, <1>4, ChainPush
  <1> QED  BY <1>1, <1>2, <1>5, BuiltStep

\* The frame below takes the value of the top frame and goes on.
LEMMA BuiltReturns ==
    ASSUME StackInv, BuiltInv, Grows, Len(stack) > 1,
           NEW f \in StackFrames, f.want = Below.want, f.step # "wait",
           FrameBuilt(f)', ReplaceTwo(f)
    PROVE  /\ Chain(entry, stack)'
           /\ \A i \in 1..Len(stack') : FrameBuilt(stack[i])'
           /\ single' = single => BuiltInv'
  <1>1. PICK u : /\ u = stack' /\ Moved(stack, f, f, u)
                 /\ u = Append(SubSeq(stack, 1, Len(stack) - 2), f)
    BY DEF ReplaceTwo, Moved
  <1>2. stack \in Seq(StackFrames) /\ Chain(entry, stack) /\ f.want = stack[Len(stack) - 1].want
    BY DEF StackInv, StackOK, BuiltInv, Below
  <1>3. Chain(entry, u)
    BY <1>1, <1>2, ChainReturn
  <1>4. Waiting(f)'
    BY DEF Waiting, AnswersSingleton
  <1>5. \A i \in 1..Len(stack') : FrameBuilt(stack[i])'
    BY <1>1, BuiltStack
  <1>6. single' = single => BuiltInv'
    BY <1>1, <1>3, <1>4, BuiltStep
  <1> QED  BY <1>1, <1>3, <1>5, <1>6 DEF Grows

-----------------------------------------------------------------------------
(* No action asks for what is being created. *)

\* A factory is called by the user, or by a body whose entry therefore needs what
\* the factory makes.
LEMMA CallDescends ==
    ASSUME StackInv, BuiltInv, Grows, NEW n \in 1..Len(objects), CallFactory(n)
    PROVE  BuiltInv'
  <1>1. PICK e, c : /\ e = entry[objects[n].key]
                    /\ stack' = stack \o <<Frame(e.to, c, "call"), Frame(e.to, c, "look")>>
                    /\ single' = single /\ objects[n].made = "factory"
    BY DEF CallFactory
  <1> DEFINE f == Frame(e.to, c, "call")
             g == Frame(e.to, c, "look")
  <1>2. /\ Waiting(f)' /\ FrameBuilt(g)' /\ Waiting(g)'
        /\ f.step = "call" /\ f.want = e.to /\ g.want = e.to
    BY NewFrameBuilt DEF Frame, Waiting, AnswersSingleton
  <1>3. stack' = stack \o <<f, g>>
    BY <1>1
  <1> HIDE DEF f, g
  <1>4. PICK u : u = stack' /\ u = stack \o <<f, g>> /\ Moved(stack, f, g, u)
    BY <1>3 DEF Moved
  <1>5. objects[n].key \in Keys /\ e.kind = "factory"
    <2>1. objects[n] \in Objects
      BY DEF StackInv, DataOK
    <2> QED  BY <1>1, <2>1 DEF StackInv, DataOK, Objects
  <1>6. FrameBuilt(f)'
    BY <1>1, <1>2, <1>5 DEF FrameBuilt, Grows
  <1>7. ASSUME stack # <<>>
        PROVE  /\ stack[Len(stack)].step = "body" /\ stack[Len(stack)].want.how = "normal"
               /\ Descends(entry, stack[Len(stack)], f)
    <2>1. PICK t \in StackFrames : /\ t = TopFrame /\ t = stack[Len(stack)] /\ FrameOK(t)
                                   /\ FrameBuilt(t) /\ t.want.key \in Keys
      BY <1>7, TopsBuilt
    <2>2. t.step = "body" /\ objects[n].key \in entry[t.want.key].calls
      BY <1>7, <2>1 DEF CallFactory, Running, EntryOfTop
    <2>3. t.want.how = "normal" /\ entry[t.want.key].kind \in {"ctor", "provider"}
      BY <2>1, <2>2 DEF FrameBuilt, FrameOK
    <2>4. e.to \in NeededBy(entry, t.want.key)
      BY <1>1, <2>1, <2>2, <2>3, NeededAre DEF StackInv, DataOK
    <2>5. e.to.how = "normal" => Needs(entry, t.want.key, e.to.key)
      BY <2>4, ReachesOn DEF Needs
    <2> QED  BY <1>2, <2>1, <2>2, <2>3, <2>5 DEF Descends
  <1>8. Chain(entry, u)
    <2>1. stack \in Seq(StackFrames) /\ Chain(entry, stack)
      BY DEF StackInv, StackOK, BuiltInv
    <2>2. f \in StackFrames \cup {f, g} /\ g \in StackFrames \cup {f, g}
          /\ stack \in Seq(StackFrames \cup {f, g})
      BY <2>1
    <2> QED  BY <1>2, <1>4, <1>7, <2>1, <2>2, ChainCall
  <1> QED  BY <1>1, <1>2, <1>4, <1>6, <1>8, BuiltStep

\* Nor does a frame that returns a value to the one below it.
LEMMA ReturnsBuilt ==
    ASSUME StackInv, BuiltInv, Grows, ReturnAsArgument \/ ReturnThrough \/ ReturnToSingleton
    PROVE  /\ Chain(entry, stack)'
           /\ \A i \in 1..Len(stack') : FrameBuilt(stack[i])'
           /\ single' = single => BuiltInv'
  <1>1. stack # <<>> /\ Len(stack) > 1 /\ entry' = entry
    BY DEF ReturnAsArgument, ReturnThrough, ReturnToSingleton, ReturnsInto, Running, Grows
  <1>2. PICK t \in StackFrames : t = TopFrame /\ t.value \in Values
    BY <1>1, TopsBuilt
  <1>3. PICK b \in StackFrames : b = Below /\ FrameOK(b) /\ FrameBuilt(b)
    BY <1>1, TopsBuilt
  <1>4. CASE ReturnAsArgument
    <2> DEFINE h == [i \in 1..Len(b.got) |-> IF i = b.at THEN t.value ELSE b.got[i]]
               f == [b EXCEPT !.got = h, !.at = 0]
    <2>1. b.got \in Seq(Values) /\ Len(b.got) \in Nat /\ b.step = "args"
      BY <1>3, <1>4 DEF StackFrames, ReturnAsArgument, ReturnsInto
    <2>2. h \in Seq(Values) /\ Len(h) = Len(b.got)
      BY <1>2, <2>1
    <2>3. h = [b.got EXCEPT ![b.at] = t.value]
      BY <2>1
    <2>4. f = [b EXCEPT !.got[b.at] = t.value, !.at = 0]
      BY <2>3 DEF StackFrames
    <2>5. ReplaceTwo(f)
      BY <1>2, <1>3, <1>4, <2>4 DEF ReturnAsArgument
    <2>7. PICK d \in Seq(Values) : d = h
      BY <2>2
    <2>8. f \in StackFrames /\ f.want = b.want /\ f.step = "args" /\ f.got = d
      BY <2>1, <2>7 DEF StackFrames
    <2> HIDE DEF f, h
    <2>9. FrameBuilt(f)
      BY <1>3, <2>1, <2>2, <2>7, <2>8 DEF FrameBuilt
    <2>10. FrameBuilt(f)'
      BY <1>1, <2>9, BuiltStays
    <2> QED  BY <1>1, <1>3, <2>5, <2>8, <2>10, BuiltReturns
  <1>5. CASE ReturnThrough \/ ReturnToSingleton
    <2>1. b.step = "wait" /\ b.want.how = "normal"
      BY <1>3, <1>5 DEF ReturnThrough, ReturnToSingleton, ReturnsInto, FrameBuilt
    <2>2. PICK s \in {"return", "invoked"} : ReplaceTwo([b EXCEPT !.value = t.value, !.step = s])
      BY <1>2, <1>3, <1>5 DEF ReturnThrough, ReturnToSingleton
    <2> DEFINE f == [b EXCEPT !.value = t.value, !.step = s]
    <2>3. f \in StackFrames /\ f.want = b.want /\ f.step = s /\ ReplaceTwo(f)
      BY <1>2, <2>1, <2>2 DEF StackFrames, Steps
    <2> HIDE DEF f
    <2>4. FrameBuilt(f)'
      BY <2>1, <2>3 DEF FrameBuilt
    <2> QED  BY <1>1, <1>3, <2>3, <2>4, BuiltReturns
  <1> QED  BY <1>4, <1>5

\* What MakeFactory and EnterBody add to the objects is one.
LEMMA ObjectAdded ==
    ASSUME StackInv
    PROVE  MakeFactory \/ EnterBody => \E o \in Objects : objects' = Append(objects, o)
  <1>1. ASSUME MakeFactory
        PROVE  \E o \in Objects : objects' = Append(objects, o)
    <2>1. TopFrame.want.key \in Keys
      BY <1>1, TopValues DEF MakeFactory, LookupNormal, Running
    <2>2. [key |-> TopFrame.want.key, made |-> "factory", args |-> <<>>, holds |-> {}]
            \in Objects
      BY <2>1 DEF Objects
    <2> QED  BY <1>1, <2>2 DEF MakeFactory
  <1>2. ASSUME EnterBody
        PROVE  \E o \in Objects : objects' = Append(objects, o)
    <2> DEFINE given == ToSet(TopFrame.got)
               through == UNION {objects[v.id].holds : v \in {g \in given : g.from = "new"}}
    <2>1. PICK o : /\ o = [key |-> TopFrame.want.key, made |-> EntryOfTop.kind,
                           args |-> TopFrame.got,
                           holds |-> through \cup {g \in given : g.from = "argument"}]
                   /\ objects' = Append(objects, o)
      BY <1>2 DEF EnterBody
    <2>2. stack # <<>> /\ TopFrame.step = "args"
      BY <1>2 DEF EnterBody, Running
    <2>3. TopFrame.want.key \in Keys /\ TopFrame.got \in Seq(Values) /\ FrameOK(TopFrame)
      BY <2>2, TopIs, TopValues DEF StackInv
    <2>4. EntryOfTop.kind \in {"ctor", "provider"}
      BY <2>2, <2>3 DEF FrameOK, EntryOfTop
    <2>5. \A v \in given : Known(v) /\ v \in Values
      <3>1. \A v \in given : \E i \in 1..Len(TopFrame.got) : v = TopFrame.got[i]
        BY <2>3 DEF ToSet
      <3> QED  BY <2>3, <3>1 DEF FrameOK
    <2>6. \A n \in 1..Len(objects) : objects[n].holds \in SUBSET Values
      <3>1. \A n \in 1..Len(objects) : objects[n] \in Objects
        BY DEF StackInv, DataOK
      <3> QED  BY <3>1 DEF Objects
    <2>7. \A v \in given : v.from = "new" => objects[v.id].holds \in SUBSET Values
      BY <2>5, <2>6 DEF Known
    <2>8. through \in SUBSET Values
      BY <2>7
    <2> QED  BY <2>1, <2>3, <2>4, <2>5, <2>8 DEF Objects
  <1> QED  BY <1>1, <1>2

\* What becomes of a frame of Create() or GetInvoker() on its own.
LEMMA BodyBuilt ==
    ASSUME StackInv, BuiltInv, Grows, BeginArguments \/ EnterBody \/ LeaveBody, stack # <<>>,
           NEW t \in StackFrames, t = TopFrame, FrameOK(t), FrameBuilt(t),
           t.want.key \in Keys
    PROVE  \E f \in StackFrames :
             f.want = t.want /\ FrameBuilt(f)' /\ Waiting(f)' /\ ReplaceTop(f)
  <1>0. entry' = entry /\ DataOK
    BY DEF Grows, StackInv
  <1>1. CASE BeginArguments
    <2>1. /\ EntryOfTop.kind \in {"ctor", "provider"} /\ t.want.how = "normal"
          /\ ReplaceTop([t EXCEPT !.step = "args",
                                  !.got = [i \in DOMAIN EntryOfTop.args |-> NoValue]])
      BY <1>1 DEF BeginArguments, LookupNormal
    <2>2. EntryOfTop.args \in Seq(Wants)
      BY <1>0, <2>1, EntryFields DEF EntryOfTop
    <2>3. PICK n \in Nat : DOMAIN EntryOfTop.args = 1..n /\ n = Len(entry[t.want.key].args)
      BY <2>2 DEF EntryOfTop
    <2> DEFINE h == [i \in 1..n |-> NoValue]
               f == [t EXCEPT !.step = "args", !.got = h]
    <2>4. h \in Seq(Values) /\ Len(h) = n
      BY ValuesAre
    <2>5. PICK d \in Seq(Values) : d = h /\ Len(d) = n
      BY <2>4
    <2>6. f \in StackFrames /\ f.want = t.want /\ f.got = d /\ f.step = "args"
      BY <2>5 DEF StackFrames, Steps
    <2>7. ReplaceTop(f)
      BY <2>1, <2>3
    <2> HIDE DEF f, h
    <2>8. FrameBuilt(f) /\ Waiting(f)'
      BY <2>1, <2>3, <2>5, <2>6 DEF FrameBuilt, Waiting, AnswersSingleton
    <2> QED  BY <1>0, <2>6, <2>7, <2>8, BuiltStays
  <1>2. CASE EnterBody
    <2>1. PICK d \in Values : d = New(Len(objects) + 1)
      BY <1>0, ValuesAre DEF DataOK
    <2> DEFINE f == [t EXCEPT !.step = "body", !.value = d]
    <2>2. t.step = "args" /\ ReplaceTop(f)
      BY <1>2, <2>1 DEF EnterBody, Running
    <2>3. f \in StackFrames /\ f.want = t.want /\ f.got = t.got /\ f.step = "body"
      BY <2>1 DEF StackFrames, Steps
    <2> HIDE DEF f
    <2>4. FrameBuilt(f) /\ Waiting(f)'
      BY <2>2, <2>3 DEF FrameBuilt, Waiting, AnswersSingleton
    <2> QED  BY <1>0, <2>2, <2>3, <2>4, BuiltStays
  <1>3. CASE LeaveBody
    <2>1. t.step = "body"
      BY <1>3 DEF LeaveBody, Running
    <2>2. PICK s \in {"invoked", "return"} :
            ReplaceTop([t EXCEPT !.got = <<>>, !.at = 0, !.step = s])
      BY <1>3 DEF LeaveBody
    <2> DEFINE f == [t EXCEPT !.got = <<>>, !.at = 0, !.step = s]
    <2>3. f \in StackFrames /\ f.want = t.want /\ f.step = s
      <3>1. <<>> \in Seq(Values) /\ s \in Steps
        BY DEF Steps
      <3> QED  BY <3>1 DEF StackFrames
    <2>4. ReplaceTop(f)
      BY <2>2
    <2> HIDE DEF f
    <2>5. FrameBuilt(f)' /\ Waiting(f)'
      BY <2>1, <2>3 DEF FrameBuilt, Waiting, AnswersSingleton
    <2> QED  BY <2>3, <2>4, <2>5
  <1> QED  BY <1>1, <1>2, <1>3

\* A frame that asks for what its entry needs.
LEMMA AsksBuilt ==
    ASSUME StackInv, BuiltInv, Grows, stack # <<>>, single' = single,
           FollowType \/ CreateSingleton \/ NextArgument
    PROVE  BuiltInv'
  <1>0. entry' = entry /\ DataOK /\ entry \in Bindings /\ EmptyContext \in Contexts
    BY DEF Grows, StackInv, DataOK, EmptyContext, Contexts
  <1>1. PICK t \in StackFrames :
          /\ t = TopFrame /\ FrameOK(t) /\ FrameBuilt(t) /\ FrameBuilt(t)'
          /\ t.want \in Wants /\ t.want.key \in Keys
    BY TopsBuilt
  <1>2. t.context \in Contexts
    BY DEF StackFrames
  <1>3. \A w \in Wants, c \in Contexts : Frame(w, c, "look") \in StackFrames
                                         /\ Frame(w, c, "look").want = w
    BY ValuesAre DEF Frame, StackFrames, Steps
  <1>4. CASE FollowType \/ CreateSingleton
    <2> DEFINE f == [t EXCEPT !.step = "wait"]
               w == entry[t.want.key].to
    <2>1. /\ t.want.how = "normal" /\ entry[t.want.key].kind \in {"type", "singleton"}
          /\ entry[t.want.key].kind = "singleton" => single[t.want.key] = NoValue
      BY <1>1, <1>4 DEF FollowType, CreateSingleton, LookupNormal, EntryOfTop
    <2>2. PICK c \in Contexts : Push(f, Frame(w, c, "look"))
      BY <1>0, <1>1, <1>2, <1>4 DEF FollowType, CreateSingleton, EntryOfTop
    <2>3. w \in Wants /\ w \in NeededBy(entry, t.want.key)
      BY <1>0, <1>1, <2>1, NeededAre
    <2>4. f \in StackFrames /\ f.want = t.want /\ f.step = "wait" /\ f.value = t.value
      BY DEF StackFrames, Steps
    <2> HIDE DEF f
    <2>5. FrameBuilt(f)' /\ Waiting(f)'
      BY <1>0, <1>1, <2>1, <2>4 DEF FrameBuilt, Waiting, AnswersSingleton
    <2>6. WaitsFor(entry, f, Frame(w, c, "look"))
      BY <1>3, <2>3, <2>4 DEF WaitsFor
    <2>7. PICK d : d = w /\ d \in NeededBy(entry, f.want.key) /\ Frame(d, c, "look") \in StackFrames
      BY <1>3, <2>3, <2>4
    <2> HIDE DEF w
    <2> QED  BY <1>1, <2>1, <2>2, <2>4, <2>5, <2>6, <2>7, BuiltAsks
  <1>5. CASE NextArgument
    <2>1. t.step = "args" /\ t.want.how = "normal"
      BY <1>1, <1>5 DEF NextArgument, Running, FrameBuilt
    <2>2. /\ entry[t.want.key].kind \in {"ctor", "provider"} /\ t.got \in Seq(Values)
          /\ Len(t.got) = Len(entry[t.want.key].args)
      BY <1>1, <2>1 DEF FrameOK, StackFrames
    <2>3. PICK i \in 1..Len(t.got) :
            Push([t EXCEPT !.at = i], Frame(entry[t.want.key].args[i], t.context, "look"))
      <3>1. DOMAIN t.got = 1..Len(t.got)
        BY <2>2
      <3> QED  BY <1>1, <1>5, <3>1 DEF NextArgument, EntryOfTop
    <2> DEFINE f == [t EXCEPT !.at = i]
               w == entry[t.want.key].args[i]
    <2>4. w \in Wants /\ w \in NeededBy(entry, t.want.key)
      BY <1>0, <1>1, <2>2, <2>3, NeededAre
    <2>5. /\ f \in StackFrames /\ f.want = t.want /\ f.step = "args" /\ f.value = t.value
          /\ f.got = t.got /\ f.at = i /\ f.at # 0
      BY <2>1 DEF StackFrames, Steps
    <2>6. Push(f, Frame(w, t.context, "look"))
      BY <2>3
    <2> HIDE DEF f
    <2>7. FrameBuilt(f)' /\ Waiting(f)'
      BY <1>0, <1>1, <2>1, <2>5 DEF FrameBuilt, Waiting, AnswersSingleton
    <2>8. WaitsFor(entry, f, Frame(w, t.context, "look"))
      BY <1>2, <1>3, <2>4, <2>5 DEF WaitsFor
    <2>9. PICK d, c : /\ d = w /\ c = t.context
                      /\ d \in NeededBy(entry, f.want.key) /\ Frame(d, c, "look") \in StackFrames
      BY <1>2, <1>3, <2>4, <2>5
    <2> HIDE DEF w
    <2> QED  BY <1>1, <2>1, <2>5, <2>6, <2>7, <2>8, <2>9, BuiltAsks
  <1> QED  BY <1>4, <1>5

\* The instance that comes into being was awaited by no other frame.
LEMMA CreatedOnce ==
    ASSUME StackInv, BuiltInv, Grows, ReturnToSingleton
    PROVE  /\ BuiltInv'
           /\ single[Below.want.key] = NoValue /\ Below.want.key \in Keys
           /\ single' = [single EXCEPT ![Below.want.key] = TopFrame.value]
  <1>0. /\ stack # <<>> /\ Len(stack) > 1 /\ entry' = entry
        /\ entry \in Bindings /\ AnswersSingleton(Below)
        /\ single' = [single EXCEPT ![Below.want.key] = TopFrame.value]
    BY DEF ReturnToSingleton, ReturnsInto, Running, Grows, StackInv, DataOK
  <1>1. PICK b \in StackFrames : b = Below /\ b.want.key \in Keys /\ b.want.how = "normal"
    BY <1>0, TopsBuilt DEF AnswersSingleton
  <1>2. PICK n \in Nat : Len(stack) = n + 1 /\ n > 0 /\ stack[n] = b
    <2>1. PICK n \in Nat : Len(stack) = n + 1 /\ n = Len(stack) - 1 /\ n > 0
      <3>1. Len(stack) \in Nat
        BY DEF StackInv, StackOK
      <3>2. Len(stack) - 1 \in Nat /\ Len(stack) - 1 > 0 /\ Len(stack) = (Len(stack) - 1) + 1
        BY <1>0, <3>1
      <3> QED  BY <3>2
    <2> QED  BY <1>1, <2>1 DEF Below
  <1>3. single[b.want.key] = NoValue
    <2>1. n \in 1..Len(stack)
      BY <1>2
    <2> QED  BY <1>0, <1>1, <1>2, <2>1 DEF BuiltInv, Waiting
  <1>4. Chain(entry, stack)' /\ \A i \in 1..Len(stack') : FrameBuilt(stack[i])'
    BY ReturnsBuilt
  <1>5. \A k \in Keys : /\ k = b.want.key => single'[k] = TopFrame.value
                        /\ k # b.want.key => single'[k] = single[k]
    BY <1>0, <1>1 DEF StackInv, DataOK
  <1>7. ASSUME NEW i \in 1..Len(stack')
        PROVE  Waiting(stack[i])'
    <2>1. PICK f : /\ f = [b EXCEPT !.value = TopFrame.value, !.step = "invoked"]
                   /\ f.step = "invoked"
                   /\ stack' = Append(SubSeq(stack, 1, Len(stack) - 2), f)
      BY <1>1 DEF StackFrames, ReturnToSingleton, ReplaceTwo
    <2>2. Len(stack') = n /\ \A j \in 1..n : stack'[j] = IF j = n THEN f ELSE stack[j]
      <3>1. f \in StackFrames
        BY <2>1, <1>0, TopsBuilt DEF StackFrames, Steps
      <3>2. n = Len(stack) - 1 /\ stack \in Seq(StackFrames)
        BY <1>2 DEF StackInv, StackOK
      <3> QED  BY <1>0, <2>1, <3>1, <3>2, TopReturned
    <2>3. CASE i = n
      BY <2>1, <2>2, <2>3 DEF Waiting, AnswersSingleton
    <2>4. CASE i # n
      <3>1. PICK h \in StackFrames :
              /\ h = stack[i] /\ h = stack'[i] /\ Waiting(h) /\ h.want.key \in Keys
              /\ Descends(entry, h, b)
        <4>1. i \in 1..Len(stack) /\ i < n /\ n \in 1..Len(stack) /\ stack'[i] = stack[i]
          BY <1>2, <2>2, <2>4
        <4>2. stack[i] \in StackFrames
          BY <4>1 DEF StackInv, StackOK
        <4>3. stack[i].want.key \in Keys
          BY <4>2 DEF StackFrames, Wants
        <4> QED  BY <1>2, <4>1, <4>2, <4>3 DEF BuiltInv, Chain
      <3>2. AnswersSingleton(h) => h.want.key # b.want.key
        <4> SUFFICES ASSUME AnswersSingleton(h), h.want.key = b.want.key  PROVE FALSE
          OBVIOUS
        <4>1. Needs(entry, b.want.key, b.want.key)
          BY <1>1, <3>1 DEF Descends, AnswersSingleton
        <4> QED  BY <1>0, <1>1, <4>1, NothingNeedsItself
      <3>3. AnswersSingleton(h)' <=> AnswersSingleton(h)
        BY <1>0 DEF AnswersSingleton
      <3>4. Waiting(h)'
        BY <1>5, <3>1, <3>2, <3>3 DEF Waiting
      <3> QED  BY <3>1, <3>4 DEF Waiting, AnswersSingleton
    <2> QED  BY <2>3, <2>4
  <1> QED  BY <1>0, <1>1, <1>3, <1>4, <1>7 DEF BuiltInv

LEMMA BuiltHolds ==
    ASSUME StackInv, BuiltInv, [Next]_vars
    PROVE  BuiltInv'
  <1>0. Grows /\ DataOK /\ StackOK /\ entry' = entry /\ entry \in Bindings
    BY DataHolds DEF StackInv, Grows, DataOK
  <1>1. CASE MissingBinding \/ InvokeGetRunsOff \/ UNCHANGED vars
    <2>1. UNCHANGED <<stack, entry, single>>
      BY <1>1 DEF MissingBinding, InvokeGetRunsOff, vars
    <2>2. \A i \in 1..Len(stack) : FrameBuilt(stack[i])' /\ Waiting(stack[i])'
      BY <2>1 DEF BuiltInv, FrameBuilt, Waiting, AnswersSingleton
    <2>3. Chain(entry, stack)'
      BY <2>1 DEF BuiltInv
    <2> QED  BY <2>1, <2>2, <2>3 DEF BuiltInv
  <1>2. ASSUME NEW k \in Keys, Get(k)
        PROVE  BuiltInv'
    <2>1. PICK f : /\ f = Frame([how |-> "normal", key |-> k], EmptyContext, "look")
                   /\ FrameBuilt(f)' /\ Waiting(f)'
      BY NewFrameBuilt
    <2>2. PICK u : u = stack' /\ u = <<f>> /\ Moved(stack, f, f, u)
      BY <1>2, <2>1 DEF Get, Moved
    <2>3. Chain(entry, u)
      BY <2>2 DEF Chain
    <2>4. single' = single
      BY <1>2 DEF Get
    <2> QED  BY <1>0, <2>1, <2>2, <2>3, <2>4, BuiltStep
  <1>3. ASSUME NEW n \in 1..Len(objects), CallFactory(n)
        PROVE  BuiltInv'
    BY <1>0, <1>3, CallDescends
  <1>4. CASE LookupAssisted \/ ReadInstance \/ MakeFactory
    <2>1. stack # <<>> /\ single' = single
      BY <1>4 DEF LookupAssisted, ReadInstance, MakeFactory, LookupNormal, Running
    <2>2. TopFrame.want.key \in Keys /\ TopFrame.context.call \in Nat
          /\ Len(objects) + 1 \in Nat
      BY <1>0, <2>1, TopValues DEF DataOK, Contexts
    <2>3. \E v \in Values : ReplaceTop([TopFrame EXCEPT !.value = v, !.step = "return"])
      BY <1>4, <2>2, ValuesAre DEF LookupAssisted, ReadInstance, MakeFactory, Answer
    <2> QED  BY <1>0, <2>1, <2>3, BuiltGoesOn
  <1>5. CASE ReadSingleton
    <2>1. /\ stack # <<>> /\ single' = single /\ TopFrame.want.how = "normal"
          /\ TopFrame.want.key \in Keys
      BY <1>5, TopValues DEF ReadSingleton, LookupNormal, Running
    <2>2. PICK v \in Values : v = single[TopFrame.want.key]
      BY <1>0, <2>1 DEF DataOK
    <2>3. ReplaceTop([TopFrame EXCEPT !.value = v, !.step = "invoked"])
      BY <1>5, <2>2 DEF ReadSingleton
    <2> QED  BY <1>0, <2>1, <2>3, BuiltGoesOn
  <1>7. CASE InvokeGetReturns
    <2>1. /\ stack # <<>> /\ single' = single
          /\ ReplaceTop([TopFrame EXCEPT !.step = "return"])
      BY <1>7 DEF InvokeGetReturns, Running
    <2>2. PICK t \in StackFrames : t = TopFrame /\ t.value \in Values
      BY <1>0, <2>1, TopsBuilt
    <2>3. [t EXCEPT !.step = "return"] = [t EXCEPT !.value = t.value, !.step = "return"]
      BY DEF StackFrames
    <2>4. PICK v \in Values : v = t.value
      BY <2>2
    <2>5. ReplaceTop([TopFrame EXCEPT !.value = v, !.step = "return"])
      BY <2>1, <2>2, <2>3, <2>4
    <2> QED  BY <1>0, <2>1, <2>5, BuiltGoesOn
  <1>8. CASE BeginArguments \/ EnterBody \/ LeaveBody
    <2>1. stack # <<>> /\ single' = single
      BY <1>8 DEF BeginArguments, EnterBody, LeaveBody, LookupNormal, Running
    <2>2. PICK t \in StackFrames :
            /\ t = TopFrame /\ t = stack[Len(stack)] /\ FrameOK(t) /\ FrameBuilt(t)
            /\ t.want \in Wants /\ t.want.key \in Keys
      BY <1>0, <2>1, TopsBuilt
    <2>3. PICK f \in StackFrames : f.want = t.want /\ FrameBuilt(f)' /\ Waiting(f)' /\ ReplaceTop(f)
      BY <1>0, <1>8, <2>1, <2>2, BodyBuilt
    <2>4. PICK u : u = stack' /\ u = Append(Front(stack), f) /\ Moved(stack, f, f, u)
      BY <2>1, <2>3 DEF ReplaceTop, Moved
    <2>5. Chain(entry, u)
      <3>1. stack \in Seq(StackFrames) /\ Chain(entry, stack)
        BY <1>0 DEF StackOK, BuiltInv
      <3> QED  BY <2>1, <2>2, <2>3, <2>4, <3>1, ChainTop
    <2> QED  BY <1>0, <2>1, <2>3, <2>4, <2>5, BuiltStep
  <1>9. CASE FollowType \/ CreateSingleton \/ NextArgument
    <2>1. stack # <<>> /\ single' = single
      BY <1>9 DEF FollowType, CreateSingleton, NextArgument, LookupNormal, Running
    <2> QED  BY <1>0, <1>9, <2>1, AsksBuilt
  <1>10. CASE ReturnToUser \/ ReturnFromCall
    <2>1. PICK f : FrameBuilt(f)' /\ Waiting(f)'
      BY NewFrameBuilt
    <2>2. PICK u : u = stack'
      OBVIOUS
    <2>3. single' = single /\ Moved(stack, f, f, u)
      BY <1>10, <2>2 DEF ReturnToUser, ReturnFromCall, ReturnsInto, Moved
    <2>4. Chain(entry, u)
      <3>1. CASE ReturnToUser
        BY <2>2, <3>1 DEF ReturnToUser, Chain
      <3>2. CASE ReturnFromCall
        BY <1>0, <2>2, <3>2, ChainTwoGone DEF ReturnFromCall, ReturnsInto, StackOK, BuiltInv
      <3> QED  BY <1>10, <3>1, <3>2
    <2> QED  BY <1>0, <2>1, <2>2, <2>3, <2>4, BuiltStep
  <1>11. CASE ReturnAsArgument \/ ReturnThrough
    <2>1. single' = single
      BY <1>11 DEF ReturnAsArgument, ReturnThrough
    <2> QED  BY <1>0, <1>11, <2>1, ReturnsBuilt
  <1>12. CASE ReturnToSingleton
    BY <1>0, <1>12, CreatedOnce
  <1> QED
    BY <1>1, <1>2, <1>3, <1>4, <1>5, <1>7, <1>8, <1>9, <1>10, <1>11, <1>12
    DEF Next, Progress

LEMMA OnlyReturnCreates ==
    ASSUME [Next]_vars, ~ReturnToSingleton
    PROVE  single' = single
  BY DEF Next, Progress, Get, CallFactory, LookupAssisted, BeginArguments,
     ReadInstance, FollowType, ReadSingleton, CreateSingleton, MakeFactory,
     MissingBinding, NextArgument, EnterBody, LeaveBody, InvokeGetReturns,
     InvokeGetRunsOff, ReturnToUser, ReturnAsArgument, ReturnThrough,
     ReturnFromCall, vars

\* LazySingletonProvider::Create() runs once for every singleton: its requests,
\* and the factories called on the way, do not come back to it as long as the
\* bindings do not, and so what Get() has handed out stays the instance.
THEOREM SingletonsCreatedOnce == Spec => SingletonsAreCreatedOnce
  <1>1. Init => BuiltInv
    BY DEF Init, BuiltInv, Chain
  <1>2. StackInv /\ BuiltInv /\ [Next]_vars => BuiltInv'
    BY BuiltHolds
  <1>3. StackInv /\ BuiltInv /\ [Next]_vars
          => [\A k \in Keys : single[k] # NoValue => single'[k] = single[k]]_vars
    <2> SUFFICES ASSUME StackInv, BuiltInv, [Next]_vars
                 PROVE  \A k \in Keys : single[k] # NoValue => single'[k] = single[k]
      OBVIOUS
    <2>1. CASE ReturnToSingleton
      <3>1. Grows
        BY DataHolds
      <3> QED  BY <2>1, <3>1, CreatedOnce DEF StackInv, DataOK
    <2>2. CASE ~ReturnToSingleton
      <3>1. single' = single
        BY <2>2, OnlyReturnCreates
      <3> QED  BY <3>1
    <2> QED  BY <2>1, <2>2
  <1> QED
    BY StackInvariant, <1>1, <1>2, <1>3, PTL DEF Spec, SingletonsAreCreatedOnce

-----------------------------------------------------------------------------
(* How deep the recursion goes: no deeper than there are keys. Each frame    *)
(* below the top stands for a key of its own: that of its request or, if it   *)
(* is a factory's Get(), that of a factory that makes what it requests.       *)

FactoriesFor(b, w) == {k \in Keys : b[k].kind = "factory" /\ b[k].to = w}

KeyOf(f) ==
    IF f.step = "call" THEN CHOOSE k : k \in FactoriesFor(entry, f.want) ELSE f.want.key

\* What a frame below the top stands for.
LEMMA KeyStands ==
    ASSUME StackInv, BuiltInv, NEW i \in 1..Len(stack), i < Len(stack)
    PROVE  /\ KeyOf(stack[i]) \in Keys
           /\ stack[i].step = "call" <=> entry[KeyOf(stack[i])].kind = "factory"
           /\ stack[i].step = "call" =>
                /\ entry[KeyOf(stack[i])].to = stack[i].want
                /\ stack[i + 1].want = stack[i].want /\ stack[i + 1].step # "call"
           /\ stack[i].step # "call" => stack[i].want.how = "normal"
  <1>1. PICK f \in StackFrames : f = stack[i] /\ FrameOK(f) /\ FrameBuilt(f) /\ f.want.key \in Keys
    <2>1. stack[i] \in StackFrames /\ FrameOK(stack[i]) /\ FrameBuilt(stack[i])
      BY DEF StackInv, StackOK, BuiltInv
    <2> QED  BY <2>1 DEF StackFrames, Wants
  <1>2. i + 1 \in 1..Len(stack)
    BY DEF StackInv, StackOK
  <1>3. PICK g : g = stack[i + 1] /\ Linked(f, g) /\ WaitsFor(entry, f, g)
    BY <1>1, <1>2 DEF StackInv, StackOK, BuiltInv, Chain
  <1>4. f.step \in {"args", "wait", "call", "body"}
    BY <1>3 DEF Linked, Covered
  <1>5. CASE f.step = "call"
    <2>1. FactoriesFor(entry, f.want) # {}
      BY <1>1, <1>5 DEF FrameBuilt, FactoriesFor
    <2>2. KeyOf(f) \in FactoriesFor(entry, f.want)
      BY <1>5, <2>1 DEF KeyOf
    <2>3. g.want = f.want /\ g.step # "call"
      BY <1>3, <1>5 DEF WaitsFor, Linked
    <2> QED  BY <1>1, <1>3, <1>5, <2>2, <2>3 DEF FactoriesFor
  <1>6. CASE f.step # "call"
    <2>1. f.want.how = "normal" /\ entry[f.want.key].kind # "factory"
      BY <1>1, <1>4, <1>6 DEF FrameBuilt, FrameOK
    <2> QED  BY <1>1, <1>6, <2>1 DEF KeyOf
  <1> QED  BY <1>5, <1>6

\* No two frames below the top stand for the same key: the lower one would be
\* for something that needs itself.
LEMMA KeysDiffer ==
    ASSUME StackInv, BuiltInv,
           NEW i \in 1..Len(stack), NEW j \in 1..Len(stack), i < j, j < Len(stack)
    PROVE  KeyOf(stack[i]) # KeyOf(stack[j])
  <1> SUFFICES ASSUME KeyOf(stack[i]) = KeyOf(stack[j])  PROVE FALSE
    OBVIOUS
  <1>0. /\ Len(stack) \in Nat /\ i < Len(stack) /\ entry \in Bindings
        /\ \A k \in 1..Len(stack) : stack[k].want.key \in Keys
    <2>1. Len(stack) \in Nat /\ entry \in Bindings /\ \A k \in 1..Len(stack) : stack[k] \in StackFrames
      BY DEF StackInv, StackOK, DataOK
    <2>2. \A f \in StackFrames : f.want.key \in Keys
      BY DEF StackFrames, Wants
    <2> QED  BY <2>1, <2>2
  <1>1. \A k, l \in 1..Len(stack) :
          k < l /\ stack[k].step # "call" /\ stack[l].want.how = "normal" =>
            Needs(entry, stack[k].want.key, stack[l].want.key)
    BY DEF BuiltInv, Chain, Descends
  <1>2. CASE stack[i].step # "call"
    <2>1. stack[j].step # "call"
      BY <1>0, <1>2, KeyStands
    <2>2. stack[j].want.how = "normal" /\ stack[i].want.key = stack[j].want.key
      BY <1>2, <2>1, KeyStands DEF KeyOf
    <2>3. Needs(entry, stack[i].want.key, stack[j].want.key)
      BY <1>1, <1>2, <2>2
    <2> QED  BY <1>0, <2>2, <2>3, NothingNeedsItself
  <1>3. CASE stack[i].step = "call"
    <2>1. stack[j].step = "call" /\ stack[j].want = stack[i].want
      BY <1>0, <1>3, KeyStands
    <2>2. /\ i + 1 \in 1..Len(stack) /\ stack[i + 1].want = stack[i].want
          /\ stack[i + 1].step # "call"
      BY <1>0, <1>3, KeyStands
    <2>3. i + 1 < j
      <3>1. i + 1 # j
        BY <2>1, <2>2
      <3> QED  BY <1>0, <3>1
    <2>4. stack[i + 1].want.how = "normal"
      BY <1>0, <2>2, <2>3, KeyStands
    <2>5. Needs(entry, stack[i + 1].want.key, stack[j].want.key)
      BY <1>1, <2>1, <2>2, <2>3, <2>4
    <2> QED  BY <1>0, <2>1, <2>2, <2>5, NothingNeedsItself
  <1> QED  BY <1>2, <1>3

\* The C++ call stack holds at most one frame per key below the one on top, for
\* any keys and any bindings that do not lead back to themselves.
THEOREM RecursionBounded == Spec => []RecursionIsBounded
  <1>1. Init => BuiltInv
    BY DEF Init, BuiltInv, Chain
  <1>2. StackInv /\ BuiltInv /\ [Next]_vars => BuiltInv'
    BY BuiltHolds
  <1>3. ASSUME StackInv, BuiltInv
        PROVE  Len(stack) <= Cardinality(Keys) + 1
    <2>0. Len(stack) \in Nat /\ Cardinality(Keys) \in Nat /\ IsFiniteSet(Keys)
      BY <1>3, FS_CardinalityType, ResolutionAssumption DEF StackInv, StackOK
    <2>1. CASE Len(stack) <= 1
      BY <2>0, <2>1
    <2>2. CASE Len(stack) > 1
      <3>1. PICK n \in Nat : n + 1 = Len(stack)
        <4>1. Len(stack) - 1 \in Nat /\ (Len(stack) - 1) + 1 = Len(stack)
          BY <2>0, <2>2
        <4> QED  BY <4>1
      <3>2. \A i \in 1..n : i \in 1..Len(stack) /\ i < Len(stack)
        BY <3>1
      <3> DEFINE F == [i \in 1..n |-> KeyOf(stack[i])]
      <3>3. \A i \in 1..n : KeyOf(stack[i]) \in Keys
        BY <1>3, <3>2, KeyStands
      <3>4. \A i, j \in 1..n : KeyOf(stack[i]) = KeyOf(stack[j]) => i = j
        <4> SUFFICES ASSUME NEW i \in 1..n, NEW j \in 1..n, i # j
                     PROVE  KeyOf(stack[i]) # KeyOf(stack[j])
          OBVIOUS
        <4>1. i < j \/ j < i
          BY <3>1
        <4> QED  BY <1>3, <3>2, <4>1, KeysDiffer
      <3>5. F \in Injection(1..n, Keys)
        <4>1. F \in [1..n -> Keys] /\ \A i, j \in 1..n : F[i] = F[j] => i = j
          BY <3>3, <3>4
        <4> HIDE DEF F
        <4> QED  BY <4>1 DEF Injection, IsInjective
      <3>6. Cardinality(1..n) <= Cardinality(Keys)
        BY <2>0, <3>5, FS_Injection
      <3>7. Cardinality(1..n) = n
        BY <3>1, FS_Interval
      <3> QED  BY <2>0, <3>1, <3>6, <3>7
    <2> QED  BY <2>0, <2>1, <2>2
  <1> QED
    BY StackInvariant, <1>1, <1>2, <1>3, PTL DEF Spec, RecursionIsBounded

-----------------------------------------------------------------------------
(* One owner. *)

\* The places that a value is in: returned by a frame, among the arguments of a
\* frame, given to an object, or handed to the program's own code.
IsAt(place, i, j, v) ==
    \/ /\ place = "value" /\ i \in 1..Len(stack) /\ j = 0
       /\ stack[i].value = v
    \/ /\ place = "got" /\ i \in 1..Len(stack) /\ stack[i].step = "args"
       /\ j \in 1..Len(stack[i].got) /\ stack[i].got[j] = v
    \/ /\ place = "args" /\ i \in 1..Len(objects)
       /\ j \in 1..Len(objects[i].args) /\ objects[i].args[j] = v
    \/ /\ place = "handed" /\ i \in 1..Len(handed) /\ j = 0
       /\ handed[i] = v

OneOwner(v) ==
    \A p1, i1, j1, p2, i2, j2 :
      IsAt(p1, i1, j1, v) /\ IsAt(p2, i2, j2, v) => p1 = p2 /\ i1 = i2 /\ j1 = j2

Fresh(v) == v.from = "new" /\ \A k \in Keys : single[k] # v

OwnerInv == \A v \in Values : Fresh(v) => OneOwner(v)

\* A value that goes from one place to another, with no other place to be in.
Goes(v, p, i, j, p0, i0, j0) ==
    \A p1, i1, j1 : IsAt(p1, i1, j1, v)' =>
      \/ p1 = p /\ i1 = i /\ j1 = j /\ IsAt(p0, i0, j0, v)
      \/ ~(p1 = p0 /\ i1 = i0 /\ j1 = j0) /\ IsAt(p1, i1, j1, v)

LEMMA OneMoves ==
    ASSUME NEW v, OneOwner(v), NEW p, NEW i, NEW j, NEW p0, NEW i0, NEW j0,
           Goes(v, p, i, j, p0, i0, j0)
    PROVE  OneOwner(v)'
  <1> SUFFICES ASSUME NEW p1, NEW i1, NEW j1, NEW p2, NEW i2, NEW j2,
                      IsAt(p1, i1, j1, v)', IsAt(p2, i2, j2, v)'
               PROVE  p1 = p2 /\ i1 = i2 /\ j1 = j2
    BY Zenon DEF OneOwner
  <1>1. \/ p1 = p /\ i1 = i /\ j1 = j /\ IsAt(p0, i0, j0, v)
        \/ ~(p1 = p0 /\ i1 = i0 /\ j1 = j0) /\ IsAt(p1, i1, j1, v)
    BY DEF Goes
  <1>2. \/ p2 = p /\ i2 = i /\ j2 = j /\ IsAt(p0, i0, j0, v)
        \/ ~(p2 = p0 /\ i2 = i0 /\ j2 = j0) /\ IsAt(p2, i2, j2, v)
    BY DEF Goes
  <1> QED  BY <1>1, <1>2 DEF OneOwner

\* A value that goes nowhere.
LEMMA OneStays ==
    ASSUME NEW v, OneOwner(v),
           \A p1, i1, j1 : IsAt(p1, i1, j1, v)' => IsAt(p1, i1, j1, v)
    PROVE  OneOwner(v)'
  <1> SUFFICES ASSUME NEW p1, NEW i1, NEW j1, NEW p2, NEW i2, NEW j2,
                      IsAt(p1, i1, j1, v)', IsAt(p2, i2, j2, v)'
               PROVE  p1 = p2 /\ i1 = i2 /\ j1 = j2
    BY Zenon DEF OneOwner
  <1>1. IsAt(p1, i1, j1, v) /\ IsAt(p2, i2, j2, v)
    OBVIOUS
  <1> QED  BY <1>1 DEF OneOwner

\* The frame f does not hold v, or only where the frame h does.
Without(v, f) ==
    f.value # v /\ (f.step = "args" => \A j \in 1..Len(f.got) : f.got[j] # v)
NoMore(v, f, h) ==
    /\ f.value = v => h.value = v
    /\ f.step = "args" =>
         \A j \in 1..Len(f.got) :
           f.got[j] = v => h.step = "args" /\ j \in 1..Len(h.got) /\ h.got[j] = v

LEMMA StaysWhereItIs ==
    ASSUME NEW v, OneOwner(v), handed' = handed,
           objects' = objects \/
             (objects \in Seq(Objects) /\ \E o \in Objects :
                objects' = Append(objects, o) /\ \A j \in 1..Len(o.args) : o.args[j] # v),
           NEW s, s = stack',
           \A i \in 1..Len(s) :
             Without(v, s[i]) \/ (i \in 1..Len(stack) /\ NoMore(v, s[i], stack[i]))
    PROVE  OneOwner(v)'
  <1> SUFFICES ASSUME NEW p, NEW i, NEW j, IsAt(p, i, j, v)'
               PROVE  IsAt(p, i, j, v)
    BY OneStays
  <1>1. CASE p = "value"
    <2>1. j = 0 /\ i \in 1..Len(s) /\ s[i].value = v
      BY <1>1 DEF IsAt
    <2>2. i \in 1..Len(stack) /\ stack[i].value = v
      BY <2>1 DEF Without, NoMore
    <2> QED  BY <1>1, <2>1, <2>2 DEF IsAt
  <1>2. CASE p = "got"
    <2>1. i \in 1..Len(s) /\ s[i].step = "args" /\ j \in 1..Len(s[i].got) /\ s[i].got[j] = v
      BY <1>2 DEF IsAt
    <2>2. /\ i \in 1..Len(stack) /\ stack[i].step = "args"
          /\ j \in 1..Len(stack[i].got) /\ stack[i].got[j] = v
      BY <2>1 DEF Without, NoMore
    <2> QED  BY <1>2, <2>2 DEF IsAt
  <1>3. CASE p = "args"
    <2>1. /\ i \in 1..Len(objects') /\ j \in 1..Len(objects'[i].args)
          /\ objects'[i].args[j] = v
      BY <1>3 DEF IsAt
    <2>2. CASE objects' = objects
      BY <1>3, <2>1, <2>2 DEF IsAt
    <2>3. CASE objects' # objects
      <3>1. PICK o \in Objects : objects' = Append(objects, o) /\ objects \in Seq(Objects)
                                 /\ \A k \in 1..Len(o.args) : o.args[k] # v
        BY <2>3
      <3>2. i = Len(objects) + 1 => objects'[i] = o
        BY <3>1
      <3>3. i # Len(objects) + 1
        BY <2>1, <3>1, <3>2
      <3>4. i \in 1..Len(objects) /\ objects'[i] = objects[i]
        BY <2>1, <3>1, <3>3
      <3> QED  BY <1>3, <2>1, <3>4 DEF IsAt
    <2> QED  BY <2>2, <2>3
  <1>4. CASE p = "handed"
    BY <1>4 DEF IsAt
  <1> QED  BY <1>1, <1>2, <1>3, <1>4 DEF IsAt

\* What has not been made is nowhere.
LEMMA UnmadeIsNowhere ==
    ASSUME StackInv, NEW v, ~Known(v), NEW p, NEW i, NEW j, IsAt(p, i, j, v)
    PROVE  FALSE
  <1>0. DataOK /\ \A k \in 1..Len(stack) : FrameOK(stack[k])
    BY DEF StackInv, StackOK
  <1>1. CASE p = "value" \/ p = "got"
    BY <1>0, <1>1 DEF IsAt, FrameOK
  <1>2. CASE p = "args" \/ p = "handed"
    BY <1>0, <1>2 DEF IsAt, DataOK
  <1> QED  BY <1>1, <1>2 DEF IsAt

\* An object that is no singleton was none before.
LEMMA FreshBefore ==
    ASSUME StackInv, BuiltInv, Grows, [Next]_vars, NEW v \in Values, Fresh(v)'
    PROVE  Fresh(v)
  <1> SUFFICES ASSUME NEW k \in Keys, single[k] = v  PROVE FALSE
    BY DEF Fresh
  <1>1. v # NoValue /\ v.from = "new"
    BY ValuesDiffer DEF Fresh
  <1>2. single'[k] # v
    BY DEF Fresh
  <1>3. CASE ReturnToSingleton
    BY <1>1, <1>2, <1>3, CreatedOnce DEF StackInv, DataOK
  <1>4. CASE ~ReturnToSingleton
    BY <1>2, <1>4, OnlyReturnCreates
  <1> QED  BY <1>3, <1>4

\* New frames hold nothing yet, and the frame on top keeps what it has or less.
LEMMA StackKeeps ==
    ASSUME StackOK, NEW v, NEW f, NEW g, NEW s, Moved(stack, f, g, s), Without(v, g),
           \/ Without(v, f)
           \/ /\ stack # <<>> /\ NoMore(v, f, stack[Len(stack)])
              /\ s = Append(Front(stack), f) \/ s = Front(stack) \o <<f, g>>
    PROVE  \A i \in 1..Len(s) :
             Without(v, s[i]) \/ (i \in 1..Len(stack) /\ NoMore(v, s[i], stack[i]))
  <1> DEFINE S == StackFrames \cup {f, g}
  <1>1. stack \in Seq(StackFrames) /\ stack \in Seq(S) /\ f \in S /\ g \in S
        /\ Len(stack) \in Nat
    <2>1. StackFrames \subseteq S
      OBVIOUS
    <2> QED  BY <2>1 DEF StackOK
  <1> HIDE DEF S
  <1>2. \A h : NoMore(v, h, h)
    BY DEF NoMore
  <1>3. CASE Without(v, f)
    <2>1. \A i \in 1..Len(s) : s[i] \in {f, g} \/ (i \in 1..Len(stack) /\ s[i] = stack[i])
      BY <1>1, StackFrom
    <2> QED  BY <1>2, <1>3, <2>1
  <1>4. CASE /\ stack # <<>> /\ NoMore(v, f, stack[Len(stack)])
             /\ s = Append(Front(stack), f)
    <2>1. \A i \in 1..Len(stack) : s[i] = IF i = Len(stack) THEN f ELSE stack[i]
      BY <1>1, <1>4, TopReplaced
    <2>2. Len(s) = Len(stack)
      BY <1>1, <1>4, TopReplaced
    <2> QED  BY <1>2, <1>4, <2>1, <2>2
  <1>5. CASE /\ stack # <<>> /\ NoMore(v, f, stack[Len(stack)])
             /\ s = Front(stack) \o <<f, g>>
    <2>1. /\ Len(s) = Len(stack) + 1
          /\ \A i \in 1..(Len(stack) + 1) :
               s[i] = IF i = Len(stack) + 1 THEN g
                      ELSE IF i = Len(stack) THEN f ELSE stack[i]
      BY <1>1, <1>5, TopPushed
    <2> SUFFICES ASSUME NEW i \in 1..(Len(stack) + 1)
                 PROVE  Without(v, s[i]) \/ (i \in 1..Len(stack) /\ NoMore(v, s[i], stack[i]))
      BY <2>1
    <2>2. CASE i = Len(stack) + 1
      BY <2>1, <2>2
    <2>3. CASE i # Len(stack) + 1
      <3>1. i \in 1..Len(stack)
        BY <1>1, <2>3
      <3> QED  BY <1>2, <1>5, <2>1, <2>3, <3>1
    <2> QED  BY <2>2, <2>3
  <1> QED  BY <1>3, <1>4, <1>5

\* A new frame.
LEMMA NewFrameWithout ==
    ASSUME NEW v, v # NoValue, NEW w, NEW c, NEW s \in {"look", "call"}
    PROVE  Without(v, Frame(w, c, s))
  BY DEF Without, Frame

LEMMA OwnerKeeps ==
    ASSUME StackInv, NEW v, OneOwner(v), handed' = handed,
           objects' = objects \/
             (objects \in Seq(Objects) /\ \E o \in Objects :
                objects' = Append(objects, o) /\ \A j \in 1..Len(o.args) : o.args[j] # v),
           NEW f, NEW g, Without(v, g), NEW s, s = stack', Moved(stack, f, g, s),
           \/ Without(v, f)
           \/ /\ stack # <<>> /\ NoMore(v, f, stack[Len(stack)])
              /\ s = Append(Front(stack), f) \/ s = Front(stack) \o <<f, g>>
    PROVE  OneOwner(v)'
  <1>1. \A i \in 1..Len(s) :
          Without(v, s[i]) \/ (i \in 1..Len(stack) /\ NoMore(v, s[i], stack[i]))
    BY StackKeeps DEF StackInv
  <1> QED  BY <1>1, StaysWhereItIs

\* The steps that leave an object where it is, or drop it.
LEMMA OwnerStays ==
    ASSUME StackInv, NEW v \in Values, Fresh(v), Fresh(v)', OneOwner(v),
           \/ \E k \in Keys : Get(k)
           \/ \E n \in 1..Len(objects) : CallFactory(n)
           \/ LookupAssisted \/ BeginArguments \/ ReadInstance \/ FollowType
           \/ ReadSingleton \/ CreateSingleton \/ (MakeFactory /\ Known(v)) \/ NextArgument
           \/ LeaveBody \/ InvokeGetReturns \/ ReturnToSingleton
    PROVE  OneOwner(v)'
  <1>0. /\ StackOK /\ DataOK /\ v.from = "new" /\ v # NoValue
    BY ValuesDiffer DEF StackInv, Fresh
  <1>1. PICK s : s = stack'
    OBVIOUS
  <1>2. PICK new : Without(v, new)
    BY <1>0, NewFrameWithout
  <1>3. ASSUME stack # <<>>
        PROVE  \E t \in StackFrames : t = TopFrame /\ t = stack[Len(stack)] /\ t.want.key \in Keys
    BY <1>0, <1>3, TopIs DEF TopFrame, Last, StackFrames, Wants
  <1>4. ASSUME NEW k \in Keys, Get(k)
        PROVE  OneOwner(v)'
    <2>1. PICK f : f = Frame([how |-> "normal", key |-> k], EmptyContext, "look")
                   /\ Without(v, f)
      BY <1>0, NewFrameWithout
    <2>2. Moved(stack, f, f, s) /\ UNCHANGED <<objects, handed>>
      BY <1>1, <1>4, <2>1 DEF Get, Moved
    <2> QED  BY <1>1, <2>1, <2>2, OwnerKeeps
  <1>5. ASSUME NEW n \in 1..Len(objects), CallFactory(n)
        PROVE  OneOwner(v)'
    <2>1. PICK w, c : /\ stack' = stack \o <<Frame(w, c, "call"), Frame(w, c, "look")>>
                      /\ UNCHANGED <<objects, handed>>
      BY <1>5 DEF CallFactory
    <2>2. PICK f, g : f = Frame(w, c, "call") /\ g = Frame(w, c, "look")
                      /\ Without(v, f) /\ Without(v, g)
      BY <1>0, NewFrameWithout
    <2>3. Moved(stack, f, g, s)
      BY <1>1, <2>1, <2>2 DEF Moved
    <2> QED  BY <1>1, <2>1, <2>2, <2>3, OwnerKeeps
  <1>6. CASE LookupAssisted \/ ReadInstance \/ ReadSingleton
    <2>1. stack # <<>> /\ UNCHANGED <<objects, handed>>
      BY <1>6 DEF LookupAssisted, ReadInstance, ReadSingleton, LookupNormal, Running
    <2>2. PICK t \in StackFrames : t = TopFrame /\ t.want.key \in Keys
      BY <1>3, <2>1
    <2>3. PICK u, x : u # v /\ x # "args" /\ ReplaceTop([t EXCEPT !.value = u, !.step = x])
      <3>1. CASE LookupAssisted \/ ReadInstance
        <4>1. PICK u : /\ u.from # "new"
                       /\ ReplaceTop([TopFrame EXCEPT !.value = u, !.step = "return"])
          BY <3>1, ValuesDiffer DEF LookupAssisted, ReadInstance, Answer
        <4>2. u # v
          BY <1>0, <4>1
        <4> QED  BY <2>2, <4>1, <4>2
      <3>2. CASE ReadSingleton
        BY <2>2, <3>2 DEF ReadSingleton, Fresh
      <3> QED  BY <1>6, <3>1, <3>2
    <2>4. PICK f : f = [t EXCEPT !.value = u, !.step = x] /\ Without(v, f)
      <3>1. PICK f : f = [t EXCEPT !.value = u, !.step = x]
        OBVIOUS
      <3>2. f.value = u /\ f.step = x
        BY <3>1 DEF StackFrames
      <3>3. Without(v, f)
        BY <2>3, <3>2 DEF Without
      <3> QED  BY <3>1, <3>3
    <2>5. Moved(stack, f, f, s)
      BY <1>1, <2>1, <2>3, <2>4 DEF Moved, ReplaceTop
    <2> QED  BY <1>1, <2>1, <2>4, <2>5, OwnerKeeps
  <1>7. CASE BeginArguments \/ LeaveBody \/ InvokeGetReturns
    <2>1. stack # <<>> /\ UNCHANGED <<objects, handed>>
      BY <1>7 DEF BeginArguments, LeaveBody, InvokeGetReturns, LookupNormal, Running
    <2>2. PICK t \in StackFrames : t = TopFrame /\ t = stack[Len(stack)]
                                  /\ t.want.key \in Keys
      BY <1>3, <2>1
    <2>3. PICK f : ReplaceTop(f) /\ NoMore(v, f, t)
      <3>1. CASE BeginArguments
        <4>1. EntryOfTop.args \in Seq(Wants)
          BY <1>0, <2>2, <3>1, EntryFields DEF BeginArguments, LookupNormal, EntryOfTop
        <4>2. PICK n \in Nat : DOMAIN EntryOfTop.args = 1..n
          BY <4>1
        <4>3. PICK h : h = [i \in 1..n |-> NoValue]
          OBVIOUS
        <4>6. \A i \in 1..Len(h) : h[i] = NoValue
          <5>1. Len(h) = n
            BY <4>3
          <5> QED  BY <4>3, <5>1
        <4>4. PICK f : f = [t EXCEPT !.step = "args", !.got = h]
          OBVIOUS
        <4>7. f.value = t.value /\ f.got = h
          BY <4>4 DEF StackFrames
        <4>5. ReplaceTop(f)
          BY <2>2, <3>1, <4>2, <4>3, <4>4 DEF BeginArguments
        <4> QED  BY <1>0, <4>5, <4>6, <4>7 DEF NoMore
      <3>2. CASE LeaveBody
        <4>1. PICK x \in {"invoked", "return"} :
                ReplaceTop([t EXCEPT !.got = <<>>, !.at = 0, !.step = x])
          BY <2>2, <3>2 DEF LeaveBody
        <4>2. NoMore(v, [t EXCEPT !.got = <<>>, !.at = 0, !.step = x], t)
          BY DEF NoMore, StackFrames
        <4> QED  BY <4>1, <4>2
      <3>3. CASE InvokeGetReturns
        <4>1. ReplaceTop([t EXCEPT !.step = "return"])
          BY <2>2, <3>3 DEF InvokeGetReturns
        <4>2. NoMore(v, [t EXCEPT !.step = "return"], t)
          BY DEF NoMore, StackFrames
        <4> QED  BY <4>1, <4>2
      <3> QED  BY <1>7, <3>1, <3>2, <3>3
    <2>4. s = Append(Front(stack), f) /\ Moved(stack, f, new, s)
      BY <1>1, <2>1, <2>3 DEF Moved, ReplaceTop
    <2> QED  BY <1>1, <1>2, <2>1, <2>2, <2>3, <2>4, OwnerKeeps
  <1>8. CASE FollowType \/ CreateSingleton \/ NextArgument
    <2>1. stack # <<>> /\ UNCHANGED <<objects, handed>>
      BY <1>8 DEF FollowType, CreateSingleton, NextArgument, LookupNormal, Running
    <2>2. PICK t \in StackFrames : t = TopFrame /\ t = stack[Len(stack)]
      BY <1>3, <2>1
    <2>3. PICK w, c : \/ Push([t EXCEPT !.step = "wait"], Frame(w, c, "look"))
                      \/ t.step = "args" /\ \E i : Push([t EXCEPT !.at = i], Frame(w, c, "look"))
      BY <1>8, <2>2 DEF FollowType, CreateSingleton, NextArgument, Running
    <2>4. PICK f, g : Push(f, g) /\ NoMore(v, f, t) /\ Without(v, g)
      <3>1. NoMore(v, [t EXCEPT !.step = "wait"], t)
        BY DEF NoMore, StackFrames
      <3>2. \A i : NoMore(v, [t EXCEPT !.at = i], t)
        BY DEF NoMore, StackFrames
      <3>3. Without(v, Frame(w, c, "look"))
        BY <1>0, NewFrameWithout
      <3> QED  BY <2>3, <3>1, <3>2, <3>3
    <2>5. s = Front(stack) \o <<f, g>> /\ Moved(stack, f, g, s)
      BY <1>1, <2>1, <2>4 DEF Moved, Push
    <2> QED  BY <1>1, <2>1, <2>2, <2>4, <2>5, OwnerKeeps
  <1>9. CASE MakeFactory /\ Known(v)
    <2>1. stack # <<>> /\ handed' = handed /\ objects \in Seq(Objects) /\ Len(objects) \in Nat
      BY <1>0, <1>9 DEF MakeFactory, LookupNormal, Running, DataOK
    <2>2. PICK t \in StackFrames : t = TopFrame /\ t.want.key \in Keys
      BY <1>3, <2>1
    <2>3. PICK o \in Objects : objects' = Append(objects, o) /\ o.args = <<>>
      <3>1. [key |-> t.want.key, made |-> "factory", args |-> <<>>, holds |-> {}] \in Objects
        BY <2>2 DEF Objects
      <3> QED  BY <1>9, <2>2, <3>1 DEF MakeFactory
    <2>4. PICK u : u = New(Len(objects) + 1) /\ u # v
      BY <1>0, <1>9, <2>1, ValuesDiffer DEF Known
    <2>5. PICK f : f = [t EXCEPT !.value = u, !.step = "return"] /\ Without(v, f)
      <3>1. PICK f : f = [t EXCEPT !.value = u, !.step = "return"]
        OBVIOUS
      <3>2. f.value = u /\ f.step = "return"
        BY <3>1 DEF StackFrames
      <3>3. Without(v, f)
        BY <2>4, <3>2 DEF Without
      <3> QED  BY <3>1, <3>3
    <2>6. Moved(stack, f, f, s)
      BY <1>1, <1>9, <2>1, <2>2, <2>4, <2>5 DEF MakeFactory, Answer, Moved, ReplaceTop
    <2>7. \A j \in 1..Len(o.args) : o.args[j] # v
      BY <2>3
    <2> QED  BY <1>1, <2>1, <2>3, <2>5, <2>6, <2>7, OwnerKeeps
  <1>10. CASE ReturnToSingleton
    <2>1. /\ stack # <<>> /\ Len(stack) > 1 /\ UNCHANGED <<objects, handed>>
          /\ single' = [single EXCEPT ![Below.want.key] = TopFrame.value]
      BY <1>10 DEF ReturnToSingleton, ReturnsInto, Running
    <2>2. PICK b \in StackFrames : b = Below /\ b.want.key \in Keys
      BY <1>0, <2>1, TopIs DEF StackFrames, Wants
    <2>3. PICK u : u = TopFrame.value /\ u # v
      BY <1>0, <2>1, <2>2 DEF Fresh, DataOK
    <2>4. PICK f : f = [b EXCEPT !.value = u, !.step = "invoked"] /\ Without(v, f)
      <3>1. PICK f : f = [b EXCEPT !.value = u, !.step = "invoked"]
        OBVIOUS
      <3>2. f.value = u /\ f.step = "invoked"
        BY <3>1 DEF StackFrames
      <3>3. Without(v, f)
        BY <2>3, <3>2 DEF Without
      <3> QED  BY <3>1, <3>3
    <2>5. Moved(stack, f, f, s)
      BY <1>1, <1>10, <2>1, <2>2, <2>3, <2>4 DEF ReturnToSingleton, ReplaceTwo, Moved
    <2> QED  BY <1>1, <2>1, <2>4, <2>5, OwnerKeeps
  <1> QED
    BY <1>4, <1>5, <1>6, <1>7, <1>8, <1>9, <1>10

\* The object that a handler has just made is on top of the stack, and nowhere else.
LEMMA MadeIsOnTop ==
    ASSUME StackInv, stack # <<>>, NEW v, ~Known(v), handed' = handed,
           NEW o \in Objects, objects' = Append(objects, o),
           \A j \in 1..Len(o.args) : Known(o.args[j]),
           NEW f \in StackFrames, f.step # "args", ReplaceTop(f)
    PROVE  OneOwner(v)'
  <1>0. /\ stack \in Seq(StackFrames) /\ objects \in Seq(Objects) /\ Len(stack) \in Nat
        /\ Len(objects) \in Nat
    BY DEF StackInv, StackOK, DataOK
  <1>1. PICK s : s = stack'
    OBVIOUS
  <1>2. Len(s) = Len(stack) /\ \A i \in 1..Len(s) : s[i] = IF i = Len(stack) THEN f ELSE stack[i]
    BY <1>0, <1>1, TopReplaced DEF ReplaceTop
  <1>3. PICK r : r = objects'
    OBVIOUS
  <1>4. /\ Len(r) = Len(objects) + 1
        /\ \A i \in 1..Len(r) : r[i] = IF i = Len(objects) + 1 THEN o ELSE objects[i]
    BY <1>0, <1>3
  <1>5. ASSUME NEW p, NEW i, NEW j, IsAt(p, i, j, v)'
        PROVE  p = "value" /\ i = Len(stack) /\ j = 0
    <2>1. CASE p = "value"
      <3>1. j = 0 /\ i \in 1..Len(s) /\ s[i].value = v
        BY <1>1, <1>5, <2>1 DEF IsAt
      <3>2. i # Len(stack) => IsAt("value", i, 0, v)
        BY <1>2, <3>1 DEF IsAt
      <3> QED  BY <2>1, <3>1, <3>2, UnmadeIsNowhere
    <2>2. CASE p = "got"
      <3>1. i \in 1..Len(s) /\ s[i].step = "args" /\ j \in 1..Len(s[i].got) /\ s[i].got[j] = v
        BY <1>1, <1>5, <2>2 DEF IsAt
      <3>2. IsAt("got", i, j, v)
        BY <1>2, <3>1 DEF IsAt
      <3> QED  BY <3>2, UnmadeIsNowhere
    <2>3. CASE p = "args"
      <3>1. i \in 1..Len(r) /\ j \in 1..Len(r[i].args) /\ r[i].args[j] = v
        BY <1>3, <1>5, <2>3 DEF IsAt
      <3>2. i # Len(objects) + 1
        BY <1>4, <3>1
      <3>3. i \in 1..Len(objects) /\ r[i] = objects[i]
        BY <1>0, <1>4, <3>1, <3>2
      <3>4. IsAt("args", i, j, v)
        BY <3>1, <3>3 DEF IsAt
      <3> QED  BY <3>4, UnmadeIsNowhere
    <2>4. CASE p = "handed"
      <3>1. IsAt("handed", i, j, v)
        BY <1>5, <2>4 DEF IsAt
      <3> QED  BY <3>1, UnmadeIsNowhere
    <2> QED  BY <1>5, <2>1, <2>2, <2>3, <2>4 DEF IsAt
  <1> SUFFICES ASSUME NEW p1, NEW i1, NEW j1, NEW p2, NEW i2, NEW j2,
                      IsAt(p1, i1, j1, v)', IsAt(p2, i2, j2, v)'
               PROVE  p1 = p2 /\ i1 = i2 /\ j1 = j2
    BY Zenon DEF OneOwner
  <1>6. /\ p1 = "value" /\ i1 = Len(stack) /\ j1 = 0
        /\ p2 = "value" /\ i2 = Len(stack) /\ j2 = 0
    BY <1>5
  <1> QED  BY <1>6

\* What EnterBody does: the arguments go to the object, the frame drops them.
LEMMA BodyEntered ==
    ASSUME StackInv, EnterBody
    PROVE  /\ stack # <<>> /\ handed' = handed
           /\ TopFrame.step = "args" /\ TopFrame = stack[Len(stack)]
           /\ \E o \in Objects : objects' = Append(objects, o) /\ o.args = TopFrame.got
           /\ \E f \in StackFrames : /\ f.step = "body" /\ f.value = New(Len(objects) + 1)
                                     /\ ReplaceTop(f)
  <1>1. /\ stack # <<>> /\ handed' = handed /\ TopFrame.step = "args" /\ StackOK
        /\ Len(objects) \in Nat
    BY DEF EnterBody, Running, StackInv, DataOK
  <1>2. PICK t \in StackFrames : t = TopFrame /\ t = stack[Len(stack)]
    BY <1>1, TopIs
  <1>3. PICK o \in Objects : objects' = Append(objects, o)
    BY ObjectAdded
  <1>4. PICK h : objects' = Append(objects, [key |-> TopFrame.want.key, made |-> EntryOfTop.kind,
                                             args |-> TopFrame.got, holds |-> h])
    BY DEF EnterBody
  <1>5. PICK o2 : /\ o2 = [key |-> TopFrame.want.key, made |-> EntryOfTop.kind,
                           args |-> TopFrame.got, holds |-> h]
                  /\ o2.args = TopFrame.got /\ objects' = Append(objects, o2)
    BY <1>4
  <1>6. o = o2
    <2> DEFINE S == Objects \cup {o2}
    <2>1. objects \in Seq(Objects) /\ Objects \subseteq S
      BY DEF StackInv, DataOK
    <2>2. objects \in Seq(S) /\ o \in S /\ o2 \in S
      BY <2>1
    <2> HIDE DEF S
    <2>3. Append(objects, o)[Len(objects) + 1] = o /\ Append(objects, o2)[Len(objects) + 1] = o2
      BY <2>2
    <2> QED  BY <1>3, <1>5, <2>3
  <1>10. PICK u \in Values : u = New(Len(objects) + 1)
    BY <1>1, ValuesAre
  <1>7. PICK f : f = [t EXCEPT !.step = "body", !.value = u]
    OBVIOUS
  <1>8. f \in StackFrames /\ f.step = "body" /\ f.value = u
    BY <1>7 DEF StackFrames, Steps
  <1>9. ReplaceTop(f)
    BY <1>2, <1>7, <1>10 DEF EnterBody
  <1> QED  BY <1>1, <1>2, <1>3, <1>5, <1>6, <1>8, <1>9, <1>10

LEMMA OwnerEnters ==
    ASSUME StackInv, NEW v \in Values, OneOwner(v), Fresh(v), Known(v), EnterBody
    PROVE  OneOwner(v)'
  <1>0. /\ stack \in Seq(StackFrames) /\ objects \in Seq(Objects) /\ Len(stack) \in Nat
        /\ Len(objects) \in Nat /\ Len(stack) \in 1..Len(stack)
    <2>1. stack # <<>> /\ stack \in Seq(StackFrames) /\ objects \in Seq(Objects)
      BY BodyEntered DEF StackInv, StackOK, DataOK
    <2> QED  BY <2>1
  <1>1. PICK o \in Objects : objects' = Append(objects, o) /\ o.args = stack[Len(stack)].got
    BY BodyEntered
  <1>2. PICK f \in StackFrames : /\ f.step = "body" /\ f.value = New(Len(objects) + 1)
                                 /\ ReplaceTop(f)
    BY BodyEntered
  <1>3. PICK s : s = stack'
    OBVIOUS
  <1>4. Len(s) = Len(stack) /\ \A i \in 1..Len(s) : s[i] = IF i = Len(stack) THEN f ELSE stack[i]
    BY <1>0, <1>2, <1>3, TopReplaced DEF ReplaceTop, BodyEntered
  <1>5. PICK r : r = objects'
    OBVIOUS
  <1>6. /\ Len(r) = Len(objects) + 1
        /\ \A i \in 1..Len(r) : r[i] = IF i = Len(objects) + 1 THEN o ELSE objects[i]
    BY <1>0, <1>1, <1>5
  <1>7. f.value # v
    BY <1>0, <1>2, ValuesDiffer DEF Known, Fresh
  <1>8. stack[Len(stack)].step = "args" /\ handed' = handed
    BY BodyEntered
  <1>9. ASSUME NEW p, NEW i, NEW j, IsAt(p, i, j, v)'
        PROVE  \/ p = "args" /\ i = Len(objects) + 1 /\ IsAt("got", Len(stack), j, v)
               \/ /\ IsAt(p, i, j, v) /\ ~(p = "got" /\ i = Len(stack))
    <2>1. CASE p = "value"
      <3>1. j = 0 /\ i \in 1..Len(s) /\ s[i].value = v
        BY <1>3, <1>9, <2>1 DEF IsAt
      <3>2. i # Len(stack) /\ IsAt(p, i, j, v)
        BY <1>4, <1>7, <2>1, <3>1 DEF IsAt
      <3> QED  BY <2>1, <3>2
    <2>2. CASE p = "got"
      <3>1. i \in 1..Len(s) /\ s[i].step = "args" /\ j \in 1..Len(s[i].got) /\ s[i].got[j] = v
        BY <1>3, <1>9, <2>2 DEF IsAt
      <3>2. i # Len(stack) /\ IsAt(p, i, j, v)
        BY <1>2, <1>4, <2>2, <3>1 DEF IsAt
      <3> QED  BY <3>2
    <2>3. CASE p = "args"
      <3>1. i \in 1..Len(r) /\ j \in 1..Len(r[i].args) /\ r[i].args[j] = v
        BY <1>5, <1>9, <2>3 DEF IsAt
      <3>2. CASE i = Len(objects) + 1
        <4>1. j \in 1..Len(stack[Len(stack)].got) /\ stack[Len(stack)].got[j] = v
          BY <1>1, <1>6, <3>1, <3>2
        <4>2. IsAt("got", Len(stack), j, v)
          BY <1>0, <1>8, <4>1 DEF IsAt
        <4> QED  BY <2>3, <3>2, <4>2
      <3>3. CASE i # Len(objects) + 1
        <4>1. i \in 1..Len(objects) /\ r[i] = objects[i]
          BY <1>0, <1>6, <3>1, <3>3
        <4>2. IsAt(p, i, j, v)
          BY <2>3, <3>1, <4>1 DEF IsAt
        <4> QED  BY <2>3, <4>2
      <3> QED  BY <3>2, <3>3
    <2>4. CASE p = "handed"
      BY <1>8, <1>9, <2>4 DEF IsAt
    <2> QED  BY <1>9, <2>1, <2>2, <2>3, <2>4 DEF IsAt
  <1> SUFFICES ASSUME NEW p1, NEW i1, NEW j1, NEW p2, NEW i2, NEW j2,
                      IsAt(p1, i1, j1, v)', IsAt(p2, i2, j2, v)'
               PROVE  p1 = p2 /\ i1 = i2 /\ j1 = j2
    BY Zenon DEF OneOwner
  <1>10. \/ p1 = "args" /\ i1 = Len(objects) + 1 /\ IsAt("got", Len(stack), j1, v)
         \/ /\ IsAt(p1, i1, j1, v) /\ ~(p1 = "got" /\ i1 = Len(stack))
    BY <1>9
  <1>11. \/ p2 = "args" /\ i2 = Len(objects) + 1 /\ IsAt("got", Len(stack), j2, v)
         \/ /\ IsAt(p2, i2, j2, v) /\ ~(p2 = "got" /\ i2 = Len(stack))
    BY <1>9
  <1> QED  BY <1>10, <1>11 DEF OneOwner

\* The value of the top frame goes to the program's own code, and all but the
\* lowest n frames are gone.
LEMMA OwnerHandsOut ==
    ASSUME StackInv, NEW v, OneOwner(v), stack # <<>>, objects' = objects,
           NEW n \in Nat, n < Len(stack), Len(stack') = n,
           \A i \in 1..n : stack'[i] = stack[i],
           handed' = Append(handed, TopFrame.value)
    PROVE  OneOwner(v)'
  <1>0. /\ StackOK /\ handed \in Seq(Values) /\ Len(handed) \in Nat
        /\ TopFrame.value \in Values /\ TopFrame = stack[Len(stack)]
        /\ Len(stack) \in 1..Len(stack)
    <2>1. StackOK /\ handed \in Seq(Values)
      BY DEF StackInv, DataOK
    <2> QED  BY <2>1, TopValues, TopIs
  <1>1. PICK r : r = handed'
    OBVIOUS
  <1>2. /\ Len(r) = Len(handed) + 1
        /\ \A i \in 1..Len(r) : r[i] = IF i = Len(handed) + 1 THEN TopFrame.value ELSE handed[i]
    BY <1>0, <1>1
  <1>3. ASSUME NEW p, NEW i, NEW j, IsAt(p, i, j, v)'
        PROVE  \/ p = "handed" /\ i = Len(handed) + 1 /\ j = 0 /\ IsAt("value", Len(stack), 0, v)
               \/ ~(p = "value" /\ i = Len(stack) /\ j = 0) /\ IsAt(p, i, j, v)
    <2>1. CASE p = "value" \/ p = "got"
      <3>1. i \in 1..n
        BY <1>3, <2>1 DEF IsAt
      <3>2. stack'[i] = stack[i] /\ i \in 1..Len(stack) /\ i # Len(stack)
        BY <1>0, <3>1
      <3>3. IsAt(p, i, j, v)
        BY <1>3, <2>1, <3>2 DEF IsAt
      <3> QED  BY <3>2, <3>3
    <2>2. CASE p = "args"
      BY <1>3, <2>2 DEF IsAt
    <2>3. CASE p = "handed"
      <3>1. i \in 1..Len(r) /\ j = 0 /\ r[i] = v
        BY <1>1, <1>3, <2>3 DEF IsAt
      <3>2. CASE i = Len(handed) + 1
        <4>1. IsAt("value", Len(stack), 0, v)
          BY <1>0, <1>2, <3>1, <3>2 DEF IsAt
        <4> QED  BY <2>3, <3>1, <3>2, <4>1
      <3>3. CASE i # Len(handed) + 1
        <4>1. i \in 1..Len(handed) /\ r[i] = handed[i]
          BY <1>0, <1>2, <3>1, <3>3
        <4>2. IsAt(p, i, j, v)
          BY <2>3, <3>1, <4>1 DEF IsAt
        <4> QED  BY <2>3, <4>2
      <3> QED  BY <3>2, <3>3
    <2> QED  BY <1>3, <2>1, <2>2, <2>3 DEF IsAt
  <1>4. Goes(v, "handed", Len(handed) + 1, 0, "value", Len(stack), 0)
    BY <1>3 DEF Goes
  <1> QED  BY <1>4, OneMoves

\* The value of the top frame goes to the one below, as an argument or to be
\* passed on.
LEMMA OwnerGoesDown ==
    ASSUME StackInv, NEW v, OneOwner(v), ReturnAsArgument \/ ReturnThrough
    PROVE  OneOwner(v)'
  <1>0. /\ StackOK /\ stack # <<>> /\ Len(stack) > 1
        /\ objects' = objects /\ handed' = handed
    BY DEF ReturnAsArgument, ReturnThrough, ReturnsInto, Running, StackInv
  <1>1. PICK m \in Nat : Len(stack) = m + 1 /\ Len(stack) - 1 = m /\ m > 0
    <2>1. Len(stack) \in Nat
      BY <1>0 DEF StackOK
    <2>2. Len(stack) - 1 \in Nat /\ Len(stack) - 1 > 0 /\ Len(stack) = (Len(stack) - 1) + 1
      BY <1>0, <2>1
    <2> QED  BY <2>2
  <1>2. PICK t \in StackFrames, b \in StackFrames :
          /\ t = TopFrame /\ t = stack[m + 1] /\ b = Below /\ b = stack[m] /\ FrameOK(b)
    BY <1>0, <1>1, TopIs
  <1>3. PICK s : s = stack'
    OBVIOUS
  <1>4. ASSUME NEW f \in StackFrames, ReplaceTwo(f)
        PROVE  Len(s) = m /\ \A i \in 1..m : s[i] = IF i = m THEN f ELSE stack[i]
    <2>1. stack \in Seq(StackFrames) /\ s = Append(SubSeq(stack, 1, Len(stack) - 2), f)
      BY <1>0, <1>3, <1>4 DEF StackOK, ReplaceTwo
    <2> QED  BY <1>0, <1>1, <2>1, TopReturned
  <1>5. CASE ReturnAsArgument
    <2>1. /\ b.got \in Seq(Values) /\ Len(b.got) \in Nat /\ t.value \in Values
          /\ b.step = "args"
      BY <1>2, <1>5 DEF StackFrames, ReturnAsArgument, ReturnsInto
    <2>2. PICK h : h = [i \in 1..Len(b.got) |-> IF i = b.at THEN t.value ELSE b.got[i]]
      OBVIOUS
    <2>3. h \in Seq(Values) /\ Len(h) = Len(b.got) /\ h = [b.got EXCEPT ![b.at] = t.value]
      BY <2>1, <2>2
    <2>4. PICK f : f = [b EXCEPT !.got = h, !.at = 0]
      OBVIOUS
    <2>5. f = [b EXCEPT !.got[b.at] = t.value, !.at = 0]
      BY <2>3, <2>4 DEF StackFrames
    <2>6. f \in StackFrames /\ f.value = b.value /\ f.step = "args" /\ f.got = h
      BY <2>1, <2>3, <2>4 DEF StackFrames
    <2>7. ReplaceTwo(f)
      BY <1>2, <1>5, <2>5 DEF ReturnAsArgument
    <2>8. Len(s) = m /\ \A i \in 1..m : s[i] = IF i = m THEN f ELSE stack[i]
      BY <1>4, <2>6, <2>7
    <2>9. ASSUME NEW p, NEW i, NEW j, IsAt(p, i, j, v)'
          PROVE  \/ p = "got" /\ i = m /\ j = b.at /\ IsAt("value", m + 1, 0, v)
                 \/ ~(p = "value" /\ i = m + 1 /\ j = 0) /\ IsAt(p, i, j, v)
      <3>1. CASE p = "value"
        <4>1. j = 0 /\ i \in 1..m /\ s[i].value = v
          BY <1>3, <2>8, <2>9, <3>1 DEF IsAt
        <4>2. i # m + 1 /\ i \in 1..Len(stack) /\ stack[i].value = v
          BY <1>1, <1>2, <2>6, <2>8, <4>1
        <4> QED  BY <3>1, <4>1, <4>2 DEF IsAt
      <3>2. CASE p = "got"
        <4>1. i \in 1..m /\ s[i].step = "args" /\ j \in 1..Len(s[i].got) /\ s[i].got[j] = v
          BY <1>3, <2>8, <2>9, <3>2 DEF IsAt
        <4>2. CASE i # m
          <5>1. i \in 1..Len(stack) /\ s[i] = stack[i]
            BY <1>1, <2>8, <4>1, <4>2
          <5> QED  BY <3>2, <4>1, <5>1 DEF IsAt
        <4>3. CASE i = m
          <5>1. j \in 1..Len(b.got) /\ h[j] = v
            BY <2>3, <2>6, <2>8, <4>1, <4>3
          <5>2. CASE j = b.at
            <6>1. t.value = v
              BY <2>2, <5>1, <5>2
            <6>2. IsAt("value", m + 1, 0, v)
              BY <1>1, <1>2, <6>1 DEF IsAt
            <6> QED  BY <3>2, <4>3, <5>2, <6>2
          <5>3. CASE j # b.at
            <6>1. b.got[j] = v
              BY <2>2, <5>1, <5>3
            <6>2. m \in 1..Len(stack)
              BY <1>1
            <6> QED  BY <1>2, <2>1, <3>2, <4>3, <5>1, <6>1, <6>2 DEF IsAt
          <5> QED  BY <5>2, <5>3
        <4> QED  BY <4>2, <4>3
      <3>3. CASE p = "args" \/ p = "handed"
        BY <1>0, <2>9, <3>3 DEF IsAt
      <3> QED  BY <2>9, <3>1, <3>2, <3>3 DEF IsAt
    <2>10. Goes(v, "got", m, b.at, "value", m + 1, 0)
      BY <2>9 DEF Goes
    <2> QED  BY <2>10, OneMoves
  <1>6. CASE ReturnThrough
    <2>1. t.value \in Values
      BY DEF StackFrames
    <2>2. PICK f : f = [b EXCEPT !.value = t.value, !.step = "return"]
      OBVIOUS
    <2>3. f \in StackFrames /\ f.value = t.value /\ f.step = "return"
      BY <2>1, <2>2 DEF StackFrames, Steps
    <2>4. ReplaceTwo(f)
      BY <1>2, <1>6, <2>2 DEF ReturnThrough
    <2>5. Len(s) = m /\ \A i \in 1..m : s[i] = IF i = m THEN f ELSE stack[i]
      BY <1>4, <2>3, <2>4
    <2>6. ASSUME NEW p, NEW i, NEW j, IsAt(p, i, j, v)'
          PROVE  \/ p = "value" /\ i = m /\ j = 0 /\ IsAt("value", m + 1, 0, v)
                 \/ ~(p = "value" /\ i = m + 1 /\ j = 0) /\ IsAt(p, i, j, v)
      <3>1. CASE p = "value"
        <4>1. j = 0 /\ i \in 1..m /\ s[i].value = v
          BY <1>3, <2>5, <2>6, <3>1 DEF IsAt
        <4>2. i # m => i # m + 1 /\ i \in 1..Len(stack) /\ stack[i].value = v
          BY <1>1, <2>5, <4>1
        <4>3. i = m => IsAt("value", m + 1, 0, v)
          BY <1>1, <1>2, <2>3, <2>5, <4>1 DEF IsAt
        <4> QED  BY <3>1, <4>1, <4>2, <4>3 DEF IsAt
      <3>2. CASE p = "got"
        <4>1. i \in 1..m /\ s[i].step = "args" /\ j \in 1..Len(s[i].got) /\ s[i].got[j] = v
          BY <1>3, <2>5, <2>6, <3>2 DEF IsAt
        <4>2. i # m
          BY <2>3, <2>5, <4>1
        <4>3. i \in 1..Len(stack) /\ s[i] = stack[i]
          BY <1>1, <2>5, <4>1, <4>2
        <4> QED  BY <3>2, <4>1, <4>3 DEF IsAt
      <3>3. CASE p = "args" \/ p = "handed"
        BY <1>0, <2>6, <3>3 DEF IsAt
      <3> QED  BY <2>6, <3>1, <3>2, <3>3 DEF IsAt
    <2>7. Goes(v, "value", m, 0, "value", m + 1, 0)
      BY <2>6 DEF Goes
    <2> QED  BY <2>7, OneMoves
  <1> QED  BY <1>5, <1>6

LEMMA OwnerHolds ==
    ASSUME StackInv, BuiltInv, OwnerInv, [Next]_vars
    PROVE  OwnerInv'
  <1> SUFFICES ASSUME NEW v \in Values, Fresh(v)'
               PROVE  OneOwner(v)'
    BY DEF OwnerInv
  <1>0. Grows /\ DataOK /\ StackOK /\ v # NoValue
    BY DataHolds, ValuesDiffer DEF StackInv, Fresh
  <1>1. Fresh(v)
    BY <1>0, FreshBefore
  <1>2. OneOwner(v)
    BY <1>1 DEF OwnerInv
  <1>3. CASE MissingBinding \/ InvokeGetRunsOff \/ UNCHANGED vars
    <2>1. UNCHANGED <<stack, objects, handed>>
      BY <1>3 DEF MissingBinding, InvokeGetRunsOff, vars
    <2>2. \A p, i, j : IsAt(p, i, j, v)' => IsAt(p, i, j, v)
      BY <2>1 DEF IsAt
    <2> QED  BY <1>2, <2>2, OneStays
  <1>4. CASE \/ \E k \in Keys : Get(k)
             \/ \E n \in 1..Len(objects) : CallFactory(n)
             \/ LookupAssisted \/ BeginArguments \/ ReadInstance \/ FollowType
             \/ ReadSingleton \/ CreateSingleton \/ (MakeFactory /\ Known(v))
             \/ NextArgument \/ LeaveBody \/ InvokeGetReturns \/ ReturnToSingleton
    BY <1>1, <1>2, <1>4, OwnerStays
  <1>5. CASE MakeFactory /\ ~Known(v)
    <2>1. stack # <<>> /\ handed' = handed
      BY <1>5 DEF MakeFactory, LookupNormal, Running
    <2>2. PICK t \in StackFrames : t = TopFrame /\ t.want.key \in Keys
      BY <1>0, <2>1, TopIs, TopValues
    <2>3. PICK o \in Objects : objects' = Append(objects, o) /\ o.args = <<>>
      <3>1. [key |-> t.want.key, made |-> "factory", args |-> <<>>, holds |-> {}] \in Objects
        BY <2>2 DEF Objects
      <3> QED  BY <1>5, <2>2, <3>1 DEF MakeFactory
    <2>4. PICK u \in Values : u = New(Len(objects) + 1)
      BY <1>0, ValuesAre DEF Grows
    <2>5. PICK f : f = [t EXCEPT !.value = u, !.step = "return"]
      OBVIOUS
    <2>6. f \in StackFrames /\ f.step # "args"
      BY <2>5 DEF StackFrames, Steps
    <2>7. ReplaceTop(f)
      BY <1>5, <2>2, <2>4, <2>5 DEF MakeFactory, Answer
    <2>8. \A j \in 1..Len(o.args) : Known(o.args[j])
      BY <2>3
    <2> QED  BY <1>5, <2>1, <2>3, <2>6, <2>7, <2>8, MadeIsOnTop
  <1>6. CASE EnterBody
    <2>1. CASE Known(v)
      BY <1>1, <1>2, <1>6, <2>1, OwnerEnters
    <2>2. CASE ~Known(v)
      <3>1. stack # <<>> /\ handed' = handed
        BY <1>6, BodyEntered
      <3>2. PICK o \in Objects : objects' = Append(objects, o) /\ o.args = TopFrame.got
        BY <1>6, BodyEntered
      <3>3. PICK f \in StackFrames : f.step # "args" /\ ReplaceTop(f)
        BY <1>6, BodyEntered
      <3>4. \A j \in 1..Len(o.args) : Known(o.args[j])
        BY <3>1, <3>2, TopValues
      <3> QED  BY <2>2, <3>1, <3>2, <3>3, <3>4, MadeIsOnTop
    <2> QED  BY <2>1, <2>2
  <1>7. CASE ReturnToUser
    <2>1. /\ stack # <<>> /\ stack' = <<>> /\ objects' = objects
          /\ handed' = Append(handed, TopFrame.value)
      BY <1>7 DEF ReturnToUser, Running
    <2>2. 0 < Len(stack) /\ Len(stack') = 0 /\ \A i \in 1..0 : stack'[i] = stack[i]
      BY <1>0, <2>1, TopIs
    <2> QED  BY <1>2, <2>1, <2>2, OwnerHandsOut
  <1>8. CASE ReturnFromCall
    <2>1. /\ stack # <<>> /\ Len(stack) > 1 /\ objects' = objects
          /\ stack' = SubSeq(stack, 1, Len(stack) - 2)
          /\ handed' = Append(handed, TopFrame.value)
      BY <1>8 DEF ReturnFromCall, ReturnsInto, Running
    <2>2. stack \in Seq(StackFrames) /\ Len(stack) \in Nat
      BY <1>0 DEF StackOK
    <2>3. PICK n \in Nat : n = Len(stack) - 2 /\ n < Len(stack)
      <3>1. Len(stack) - 2 \in Nat /\ Len(stack) - 2 < Len(stack)
        BY <2>1, <2>2
      <3> QED  BY <3>1
    <2>4. Len(stack') = n /\ \A i \in 1..n : stack'[i] = stack[i]
      BY <2>1, <2>2, <2>3, TwoGone
    <2> QED  BY <1>2, <2>1, <2>3, <2>4, OwnerHandsOut
  <1>9. CASE ReturnAsArgument \/ ReturnThrough
    BY <1>2, <1>9, OwnerGoesDown
  <1> QED
    BY <1>3, <1>4, <1>5, <1>6, <1>7, <1>8, <1>9 DEF Next, Progress

\* Of the objects and of what the program was handed, one at most has an object
\* that is in one place at a time.
LEMMA OwnersAreCounted ==
    ASSUME StackInv, OwnerInv
    PROVE  FreshHasOneOwner
  <1> SUFFICES ASSUME NEW n \in 1..Len(objects), \A k \in Keys : single[k] # New(n),
                      NEW given, NEW kept,
                      given = UNION {{m} \X {i \in DOMAIN objects[m].args :
                                  objects[m].args[i] = New(n)} : m \in DOMAIN objects},
                      kept = {i \in DOMAIN handed : handed[i] = New(n)}
               PROVE  Cardinality(given) + Cardinality(kept) <= 1
    BY DEF FreshHasOneOwner
  <1>0. /\ objects \in Seq(Objects) /\ handed \in Seq(Values)
        /\ DOMAIN objects = 1..Len(objects) /\ DOMAIN handed = 1..Len(handed)
    BY DEF StackInv, DataOK
  <1>1. PICK v \in Values : v = New(n) /\ OneOwner(v)
    <2>1. New(n) \in Values /\ New(n).from = "new"
      BY <1>0, ValuesAre, ValuesDiffer
    <2> QED  BY <2>1 DEF OwnerInv, Fresh
  <1>2. \A g \in given : IsAt("args", g[1], g[2], v) /\ g = <<g[1], g[2]>>
    <2> SUFFICES ASSUME NEW g \in given
                 PROVE  IsAt("args", g[1], g[2], v) /\ g = <<g[1], g[2]>>
      OBVIOUS
    <2>1. PICK m \in 1..Len(objects) :
            g \in {m} \X {i \in DOMAIN objects[m].args : objects[m].args[i] = New(n)}
      BY <1>0
    <2>2. objects[m].args \in Seq(Values)
      <3>1. objects[m] \in Objects
        BY <1>0
      <3> QED  BY <3>1 DEF Objects
    <2>3. /\ g = <<g[1], g[2]>> /\ g[1] = m /\ g[2] \in DOMAIN objects[m].args
          /\ objects[m].args[g[2]] = New(n)
      BY <2>1
    <2> QED  BY <1>1, <2>2, <2>3 DEF IsAt
  <1>3. \A i \in kept : IsAt("handed", i, 0, v)
    BY <1>0, <1>1 DEF IsAt
  <1>4. \A g \in given, h \in given : g = h
    <2> SUFFICES ASSUME NEW g \in given, NEW h \in given  PROVE g = h
      OBVIOUS
    <2>1. g[1] = h[1] /\ g[2] = h[2]
      BY <1>1, <1>2 DEF OneOwner
    <2> QED  BY <1>2, <2>1
  <1>5. \A i \in kept, j \in kept : i = j
    BY <1>1, <1>3 DEF OneOwner
  <1>6. given = {} \/ kept = {}
    <2> SUFFICES ASSUME NEW g \in given, NEW i \in kept  PROVE FALSE
      OBVIOUS
    <2>1. "args" = "handed"
      BY <1>1, <1>2, <1>3 DEF OneOwner
    <2> QED  BY <2>1
  <1>7. Cardinality({}) = 0
    BY FS_EmptySet
  <1>8. given = {} \/ Cardinality(given) = 1
    <2> SUFFICES ASSUME NEW g \in given  PROVE Cardinality(given) = 1
      OBVIOUS
    <2>1. given = {g}
      BY <1>4
    <2> QED  BY <2>1, FS_Singleton
  <1>9. kept = {} \/ Cardinality(kept) = 1
    <2> SUFFICES ASSUME NEW i \in kept  PROVE Cardinality(kept) = 1
      OBVIOUS
    <2>1. kept = {i}
      BY <1>5
    <2> QED  BY <2>1, FS_Singleton
  <1>10. \/ Cardinality(given) = 0 /\ Cardinality(kept) = 0
         \/ Cardinality(given) = 0 /\ Cardinality(kept) = 1
         \/ Cardinality(given) = 1 /\ Cardinality(kept) = 0
    BY <1>6, <1>7, <1>8, <1>9, Zenon
  <1> QED  BY <1>10

\* Whatever a request constructs is passed from frame to frame, never copied:
\* unless it is a singleton, it ends up with one object or with the user.
THEOREM FreshObjectsHaveOneOwner == Spec => []FreshHasOneOwner
  <1>1. Init => BuiltInv
    BY DEF Init, BuiltInv, Chain
  <1>2. Init => OwnerInv
    BY DEF Init, OwnerInv, OneOwner, IsAt
  <1>3. StackInv /\ BuiltInv /\ [Next]_vars => BuiltInv'
    BY BuiltHolds
  <1>4. StackInv /\ BuiltInv /\ OwnerInv /\ [Next]_vars => OwnerInv'
    BY OwnerHolds
  <1>5. StackInv /\ OwnerInv => FreshHasOneOwner
    BY OwnersAreCounted
  <1> QED
    BY StackInvariant, <1>1, <1>2, <1>3, <1>4, <1>5, PTL DEF Spec
-----------------------------------------------------------------------------
(* What the bindings say: that there is a function as Resolves describes it. *)

\* The description of Resolves, for the bindings b: whether r resolves, if f says
\* so of the requests made for it.
AsBound(b, f, r) ==
    IF r.want.how = "assisted" THEN r.want.key \in r.params
    ELSE LET e == b[r.want.key] IN
           CASE e.kind \in {"ctor", "provider"} ->
                  \A i \in DOMAIN e.args : f[Request(e.args[i], r.params)]
             [] e.kind = "type" -> f[Request(e.to, r.params)]
             [] e.kind = "singleton" -> f[Request(e.to, {})]
             [] e.kind \in {"instance", "factory"} -> TRUE
             [] e.kind = "none" -> FALSE

ResolvesBy(b) == CHOOSE f : f = [r \in Requests |-> AsBound(b, f, r)]

LEMMA ResolvesIs == Resolves = ResolvesBy(entry)
  BY Zenon DEF Resolves, ResolvesBy, AsBound

\* The same as a set of requests.
Answered(b, group, r) ==
    IF r.want.how = "assisted" THEN r.want.key \in r.params
    ELSE /\ b[r.want.key].kind \in {"ctor", "provider"} =>
              \A i \in 1..Len(b[r.want.key].args) :
                Request(b[r.want.key].args[i], r.params) \in group
         /\ b[r.want.key].kind = "type" => Request(b[r.want.key].to, r.params) \in group
         /\ b[r.want.key].kind = "singleton" => Request(b[r.want.key].to, {}) \in group
         /\ b[r.want.key].kind # "none"

Truth(b, group, r) == IF Answered(b, group, r) THEN TRUE ELSE FALSE
Members(group) == [r \in Requests |-> IF r \in group THEN TRUE ELSE FALSE]

LEMMA AnsweredIs ==
    ASSUME NEW b \in Bindings, NEW group \in SUBSET Requests, NEW r \in Requests
    PROVE  AsBound(b, Members(group), r) = Truth(b, group, r)
  <1>1. /\ r.want \in Wants /\ r.params \in SUBSET Keys /\ r.want.key \in Keys
        /\ r.want.how \in {"assisted", "normal"}
    BY DEF Requests, Wants
  <1>2. PICK e \in Entries : e = b[r.want.key]
    BY <1>1, ResolutionAssumption
  <1>3. \A w \in Wants, p \in SUBSET Keys :
          Members(group)[Request(w, p)] = IF Request(w, p) \in group THEN TRUE ELSE FALSE
    BY DEF Request, Requests, Members
  <1>4. CASE r.want.how = "assisted"
    <2>1. CASE r.want.key \in r.params
      BY <1>4, <2>1, Zenon DEF AsBound, Answered, Truth
    <2>2. CASE r.want.key \notin r.params
      <3>1. (r.want.key \in r.params) = FALSE
        BY <2>2
      <3> QED  BY <1>4, <3>1, Zenon DEF AsBound, Answered, Truth
    <2> QED  BY <2>1, <2>2
  <1>5. CASE r.want.how = "normal" /\ e.kind \in {"ctor", "provider"}
    <2>1. e.args \in Seq(Wants)
      BY <1>5 DEF Entries, CtorEntries, ProviderEntries, TypeEntries,
           SingletonEntries, FactoryEntries, InstanceEntries, InvalidEntries
    <2>2. DOMAIN e.args = 1..Len(e.args)
      BY <2>1
    <2>3. \A i \in 1..Len(e.args) :
            Members(group)[Request(e.args[i], r.params)]
              = IF Request(e.args[i], r.params) \in group THEN TRUE ELSE FALSE
      <3>1. \A i \in 1..Len(e.args) : e.args[i] \in Wants
        BY <2>1
      <3> QED  BY <1>1, <1>3, <3>1, Zenon
    <2>4. AsBound(b, Members(group), r)
            = \A i \in 1..Len(e.args) : Members(group)[Request(e.args[i], r.params)]
      BY <1>2, <1>5, <2>2, Zenon DEF AsBound
    <2>5. Answered(b, group, r)
            <=> \A i \in 1..Len(e.args) : Request(e.args[i], r.params) \in group
      BY <1>2, <1>5 DEF Answered
    <2>6. CASE \A i \in 1..Len(e.args) : Request(e.args[i], r.params) \in group
      <3>1. \A i \in 1..Len(e.args) : Members(group)[Request(e.args[i], r.params)]
        BY <2>3, <2>6
      <3> QED  BY <2>4, <2>5, <2>6, <3>1, Zenon DEF Truth
    <2>7. CASE ~\A i \in 1..Len(e.args) : Request(e.args[i], r.params) \in group
      <3>1. ~\A i \in 1..Len(e.args) : Members(group)[Request(e.args[i], r.params)]
        BY <2>3, <2>7
      <3> QED  BY <2>4, <2>5, <2>7, <3>1, Zenon DEF Truth
    <2> QED  BY <2>6, <2>7
  <1>6. CASE r.want.how = "normal" /\ e.kind \in {"type", "singleton"}
    <2>1. e.to \in Wants
      BY <1>6 DEF Entries, CtorEntries, ProviderEntries, TypeEntries,
           SingletonEntries, FactoryEntries, InstanceEntries, InvalidEntries
    <2>2. PICK p \in SUBSET Keys : p = IF e.kind = "type" THEN r.params ELSE {}
      BY <1>1
    <2>3. AsBound(b, Members(group), r) = Members(group)[Request(e.to, p)]
      <3>1. CASE e.kind = "type"
        BY <1>2, <1>6, <2>2, <3>1, Zenon DEF AsBound
      <3>2. CASE e.kind = "singleton"
        BY <1>2, <1>6, <2>2, <3>2, Zenon DEF AsBound
      <3> QED  BY <1>6, <3>1, <3>2
    <2>4. Answered(b, group, r) <=> Request(e.to, p) \in group
      BY <1>2, <1>6, <2>2 DEF Answered
    <2> QED  BY <1>3, <2>1, <2>3, <2>4, Zenon DEF Truth
  <1>7. CASE r.want.how = "normal" /\ e.kind \in {"instance", "factory"}
    <2>1. AsBound(b, Members(group), r) = TRUE
      <3>1. CASE e.kind = "instance"
        BY <1>2, <1>7, <3>1, Zenon DEF AsBound
      <3>2. CASE e.kind = "factory"
        BY <1>2, <1>7, <3>2, Zenon DEF AsBound
      <3> QED  BY <1>7, <3>1, <3>2
    <2>2. Answered(b, group, r)
      BY <1>2, <1>7 DEF Answered
    <2> QED  BY <2>1, <2>2, Zenon DEF Truth
  <1>8. CASE r.want.how = "normal" /\ e.kind = "none"
    <2>1. AsBound(b, Members(group), r) = FALSE
      BY <1>2, <1>8, Zenon DEF AsBound
    <2>2. ~Answered(b, group, r)
      BY <1>2, <1>8 DEF Answered
    <2> QED  BY <2>1, <2>2, Zenon DEF Truth
  <1>9. e.kind \in {"ctor", "provider", "type", "singleton", "factory", "instance", "none"}
    BY DEF Entries, CtorEntries, ProviderEntries, TypeEntries,
           SingletonEntries, FactoryEntries, InstanceEntries, InvalidEntries
  <1> QED  BY <1>1, <1>4, <1>5, <1>6, <1>7, <1>8, <1>9

\* All requests of a group that needs nothing else and misses nothing resolve.
LEMMA ResolvesExists ==
    ASSUME NEW b \in Bindings
    PROVE  \E f : f = [r \in Requests |-> AsBound(b, f, r)]
  <1> DEFINE Sound(group) == \A r \in group : Answered(b, group, r)
             good == UNION {group \in SUBSET Requests : Sound(group)}
  <1>1. good \in SUBSET Requests
    OBVIOUS
  <1>2. \A less, more, r : less \subseteq more /\ Answered(b, less, r) => Answered(b, more, r)
    BY DEF Answered
  <1>3. Sound(good)
    <2> SUFFICES ASSUME NEW r \in good  PROVE Answered(b, good, r)
      OBVIOUS
    <2>1. PICK group \in SUBSET Requests : Sound(group) /\ r \in group
      OBVIOUS
    <2>2. group \subseteq good
      BY <2>1
    <2> QED  BY <1>2, <2>1, <2>2
  <1>4. ASSUME NEW r \in Requests, Answered(b, good, r)
        PROVE  r \in good
    <2>1. PICK group : group = good \cup {r}
      OBVIOUS
    <2>2. good \subseteq group /\ group \in SUBSET Requests
      BY <1>1, <2>1
    <2>3. Sound(group)
      <3> HIDE DEF good
      <3> QED  BY <1>2, <1>3, <1>4, <2>1, <2>2
    <2> QED  BY <2>1, <2>2, <2>3
  <1> HIDE DEF good
  <1>5. \A r \in Requests : Members(good)[r] = AsBound(b, Members(good), r)
    <2> SUFFICES ASSUME NEW r \in Requests
                 PROVE  Members(good)[r] = AsBound(b, Members(good), r)
      OBVIOUS
    <2>1. r \in good <=> Answered(b, good, r)
      BY <1>3, <1>4
    <2>2. AsBound(b, Members(good), r) = Truth(b, good, r)
      BY <1>1, AnsweredIs
    <2>3. Members(good)[r] = IF r \in good THEN TRUE ELSE FALSE
      BY DEF Members
    <2> QED  BY <2>1, <2>2, <2>3, Zenon DEF Truth
  <1>6. Members(good) = [r \in Requests |-> AsBound(b, Members(good), r)]
    <2> DEFINE f == [r \in Requests |-> AsBound(b, Members(good), r)]
    <2>1. \A r \in Requests : f[r] = Members(good)[r]
      BY <1>5, Zenon
    <2> QED  BY <2>1, Zenon DEF Members
  <1> QED  BY <1>6, Zenon

\* The request for w under the parameters p resolves.
Can(b, w, p) == ResolvesBy(b)[Request(w, p)]

LEMMA CanIf ==
    ASSUME NEW b \in Bindings, NEW w \in Wants, NEW p \in SUBSET Keys,
           NEW e, e = b[w.key]
    PROVE  /\ w.how = "assisted" => (Can(b, w, p) <=> w.key \in p)
           /\ w.how = "normal" =>
                /\ e.kind \in {"ctor", "provider"} =>
                     (Can(b, w, p) <=> \A i \in 1..Len(e.args) : Can(b, e.args[i], p))
                /\ e.kind = "type" => (Can(b, w, p) <=> Can(b, e.to, p))
                /\ e.kind = "singleton" => (Can(b, w, p) <=> Can(b, e.to, {}))
                /\ e.kind \in {"instance", "factory"} => Can(b, w, p)
                /\ e.kind = "none" => ~Can(b, w, p)
  <1> DEFINE r == Request(w, p)
  <1>1. r \in Requests /\ r.want = w /\ r.params = p
    BY DEF Request, Requests
  <1>2. PICK f : f = ResolvesBy(b) /\ f = [q \in Requests |-> AsBound(b, f, q)]
    BY ResolvesExists, Zenon DEF ResolvesBy
  <1> HIDE DEF r
  <1>3. f[r] = AsBound(b, f, r)
    <2> DEFINE g == [q \in Requests |-> AsBound(b, f, q)]
    <2>1. g[r] = AsBound(b, f, r)
      BY <1>1, Zenon
    <2>2. f = g
      BY <1>2, Zenon
    <2> HIDE DEF g
    <2> QED  BY <2>1, <2>2, Zenon
  <1>4. Can(b, w, p) = f[r] /\ \A v, q : Can(b, v, q) = f[Request(v, q)]
    BY <1>2, Zenon DEF Can, r
  <1>5. w.how = "assisted" => f[r] = (w.key \in p)
    BY <1>1, <1>3, Zenon DEF AsBound
  <1>6. ASSUME w.how = "normal"
        PROVE  /\ e.kind = "type" => f[r] = f[Request(e.to, p)]
               /\ e.kind = "singleton" => f[r] = f[Request(e.to, {})]
               /\ e.kind = "instance" => f[r] = TRUE
               /\ e.kind = "factory" => f[r] = TRUE
               /\ e.kind = "none" => f[r] = FALSE
               /\ e.kind \in {"ctor", "provider"} =>
                    f[r] = \A i \in DOMAIN e.args : f[Request(e.args[i], p)]
    BY <1>1, <1>3, <1>6, Zenon DEF AsBound
  <1>7. e.kind \in {"ctor", "provider"} => DOMAIN e.args = 1..Len(e.args)
    <2>1. e \in Entries
      BY ResolutionAssumption DEF Wants
    <2> QED
      BY <2>1 DEF Entries, CtorEntries, ProviderEntries, TypeEntries,
           SingletonEntries, FactoryEntries, InstanceEntries, InvalidEntries
  <1>8. w.how = "assisted" => (Can(b, w, p) <=> w.key \in p)
    BY <1>4, <1>5, Zenon
  <1>9. ASSUME w.how = "normal"
        PROVE  /\ e.kind \in {"ctor", "provider"} =>
                    (Can(b, w, p) <=> \A i \in 1..Len(e.args) : Can(b, e.args[i], p))
               /\ e.kind = "type" => (Can(b, w, p) <=> Can(b, e.to, p))
               /\ e.kind = "singleton" => (Can(b, w, p) <=> Can(b, e.to, {}))
               /\ e.kind = "none" => ~Can(b, w, p)
    <2>1. e.kind \in {"ctor", "provider"} =>
            (Can(b, w, p) <=> \A i \in 1..Len(e.args) : Can(b, e.args[i], p))
      <3> SUFFICES ASSUME e.kind \in {"ctor", "provider"}
                   PROVE  Can(b, w, p) <=> \A i \in 1..Len(e.args) : Can(b, e.args[i], p)
        OBVIOUS
      <3>1. f[r] = \A i \in 1..Len(e.args) : f[Request(e.args[i], p)]
        BY <1>6, <1>7, <1>9, Zenon
      <3>2. \A i \in 1..Len(e.args) : Can(b, e.args[i], p) = f[Request(e.args[i], p)]
        BY <1>4, Zenon
      <3> QED  BY <1>4, <3>1, <3>2, Zenon
    <2>2. e.kind = "type" => (Can(b, w, p) <=> Can(b, e.to, p))
      BY <1>4, <1>6, <1>9, Zenon
    <2>3. e.kind = "singleton" => (Can(b, w, p) <=> Can(b, e.to, {}))
      BY <1>4, <1>6, <1>9, Zenon
    <2>4. e.kind = "none" => ~Can(b, w, p)
      BY <1>4, <1>6, <1>9, Zenon
    <2> QED  BY <2>1, <2>2, <2>3, <2>4, Zenon
  <1>10. w.how = "normal" /\ e.kind \in {"instance", "factory"} => Can(b, w, p)
    BY <1>4, <1>6, Zenon
  <1> QED  BY <1>8, <1>9, <1>10, Zenon

-----------------------------------------------------------------------------
(* The outcome of a request is what the bindings say. *)

\* What a frame has got so far resolves, for the bindings b.
FrameResolves(b, f) ==
    /\ f.step \in {"body", "invoked", "return"} => Can(b, f.want, f.context.params)
    /\ f.step = "args" =>
         \A i \in 1..Len(f.got) :
           f.got[i] # NoValue => Can(b, b[f.want.key].args[i], f.context.params)

\* A request that is missing what it asks for.
Missing(b, f) == f.step = "look" /\ ~Can(b, f.want, f.context.params)

SinglesResolve ==
    \A k \in Keys : entry[k].kind = "singleton" /\ single[k] # NoValue => Can(entry, entry[k].to, {})

OutcomeInv ==
    /\ \A i \in 1..Len(stack) : FrameResolves(entry, stack[i])
    /\ SinglesResolve
    /\ status = "aborted" => stack # <<>> /\ Missing(entry, TopFrame)

\* A step that creates no singleton and aborts nothing only has to care for the
\* frames that it puts on the stack.
LEMMA ResolvesStack ==
    ASSUME StackInv, OutcomeInv, Grows, status' = "ok",
           NEW f, NEW g, FrameResolves(entry, f), FrameResolves(entry, g),
           NEW t, t = stack', Moved(stack, f, g, t)
    PROVE  /\ \A i \in 1..Len(stack') : FrameResolves(entry, stack[i])'
           /\ single' = single => OutcomeInv'
  <1>1. ASSUME NEW i \in 1..Len(stack')
        PROVE  FrameResolves(entry, stack[i])'
    <2>1. stack'[i] \in {f, g} \/ (i \in 1..Len(stack) /\ stack'[i] = stack[i])
      BY StackFrom DEF StackInv, StackOK
    <2>2. FrameResolves(entry, stack'[i])
      BY <2>1 DEF OutcomeInv
    <2> QED  BY <2>2 DEF Grows
  <1>2. single' = single => SinglesResolve'
    BY DEF OutcomeInv, SinglesResolve, Grows
  <1> QED  BY <1>1, <1>2 DEF OutcomeInv

\* The frame on top, the one below it, and what they are for.
LEMMA TopsResolve ==
    ASSUME StackInv, BuiltInv, OutcomeInv, Grows, stack # <<>>, objects' = objects \/
           \E o \in Objects : objects' = Append(objects, o)
    PROVE  /\ entry \in Bindings
           /\ \E t \in StackFrames :
                /\ t = TopFrame /\ t.want \in Wants /\ t.want.key \in Keys
                /\ t.context.params \in SUBSET Keys /\ FrameOK(t) /\ FrameBuilt(t)
                /\ FrameResolves(entry, t)
           /\ Len(stack) > 1 =>
                \E b \in StackFrames :
                  /\ b = Below /\ b.want \in Wants /\ b.want.key \in Keys
                  /\ b.context.params \in SUBSET Keys /\ FrameOK(b) /\ FrameBuilt(b)
                  /\ FrameResolves(entry, b)
                  /\ WaitsFor(entry, b, TopFrame) /\ Linked(b, TopFrame)
  <1>1. PICK t \in StackFrames :
          /\ t = TopFrame /\ t = stack[Len(stack)] /\ FrameOK(t) /\ FrameBuilt(t)
          /\ t.want \in Wants /\ t.want.key \in Keys
    BY TopsBuilt
  <1>2. t.context.params \in SUBSET Keys /\ FrameResolves(entry, t)
    <2>1. Len(stack) \in 1..Len(stack)
      BY DEF StackInv, StackOK
    <2> QED  BY <1>1, <2>1 DEF OutcomeInv, StackFrames, Contexts
  <1>3. ASSUME Len(stack) > 1
        PROVE  \E b \in StackFrames :
                  /\ b = Below /\ b.want \in Wants /\ b.want.key \in Keys
                  /\ b.context.params \in SUBSET Keys /\ FrameOK(b) /\ FrameBuilt(b)
                  /\ FrameResolves(entry, b)
                  /\ WaitsFor(entry, b, TopFrame) /\ Linked(b, TopFrame)
    <2>1. PICK b \in StackFrames :
            /\ b = Below /\ b = stack[Len(stack) - 1] /\ FrameOK(b) /\ FrameBuilt(b)
            /\ WaitsFor(entry, b, TopFrame) /\ b.want \in Wants /\ b.want.key \in Keys
      BY <1>3, TopsBuilt
    <2>2. Len(stack) - 1 \in 1..Len(stack)
      BY <1>3 DEF StackInv, StackOK
    <2>3. Linked(b, TopFrame)
      BY <1>3, <2>1, TopStays
    <2>4. b.context.params \in SUBSET Keys
      BY DEF StackFrames, Contexts
    <2> QED  BY <2>1, <2>2, <2>3, <2>4 DEF OutcomeInv
  <1>4. entry \in Bindings
    BY DEF StackInv, DataOK
  <1> QED  BY <1>1, <1>2, <1>3, <1>4

\* A new frame has got nothing yet.
LEMMA NewFrameResolves ==
    ASSUME NEW b, NEW w, NEW c, NEW s \in {"look", "call"}
    PROVE  FrameResolves(b, Frame(w, c, s))
  BY DEF Frame, FrameResolves

\* The frame on top turns into f, which has the same request.
LEMMA TopResolves ==
    ASSUME StackInv, OutcomeInv, Grows, status' = "ok", single' = single, stack # <<>>,
           NEW f, ReplaceTop(f), FrameResolves(entry, f)
    PROVE  OutcomeInv'
  <1>1. PICK u : u = stack' /\ Moved(stack, f, f, u)
    BY DEF ReplaceTop, Moved
  <1> QED  BY <1>1, ResolvesStack

\* A frame is pushed upon one that goes on waiting.
LEMMA AskResolves ==
    ASSUME StackInv, OutcomeInv, Grows, status' = "ok", single' = single, stack # <<>>,
           NEW f, NEW w, NEW c, Push(f, Frame(w, c, "look")), FrameResolves(entry, f)
    PROVE  OutcomeInv'
  <1>1. PICK g : g = Frame(w, c, "look") /\ FrameResolves(entry, g)
    BY NewFrameResolves
  <1>2. PICK u : u = stack' /\ Moved(stack, f, g, u)
    BY <1>1 DEF Push, Moved
  <1> QED  BY <1>1, <1>2, ResolvesStack

\* An answer goes down to a request that resolves for that reason.
LEMMA ReturnResolves ==
    ASSUME StackInv, BuiltInv, OutcomeInv, Grows,
           ReturnAsArgument \/ ReturnThrough \/ ReturnToSingleton
    PROVE  OutcomeInv'
  <1>1. /\ stack # <<>> /\ Len(stack) > 1 /\ objects' = objects /\ status' = "ok"
        /\ TopFrame.step = "return"
    BY DEF ReturnAsArgument, ReturnThrough, ReturnToSingleton, ReturnsInto, Running
  <1>2. PICK t \in StackFrames :
          /\ t = TopFrame /\ t.want \in Wants /\ t.context.params \in SUBSET Keys
          /\ FrameResolves(entry, t)
    BY <1>1, TopsResolve
  <1>3. PICK b \in StackFrames :
          /\ b = Below /\ b.want \in Wants /\ b.want.key \in Keys
          /\ b.context.params \in SUBSET Keys /\ FrameOK(b) /\ FrameBuilt(b)
          /\ FrameResolves(entry, b) /\ WaitsFor(entry, b, t) /\ Linked(b, t)
    BY <1>1, <1>2, TopsResolve
  <1>4. entry \in Bindings /\ Can(entry, t.want, t.context.params)
    BY <1>1, <1>2, TopsResolve DEF FrameResolves
  <1>5. CASE ReturnAsArgument
    <2>1. /\ b.step = "args" /\ t.want = entry[b.want.key].args[b.at]
          /\ t.context = b.context /\ single' = single
      BY <1>1, <1>2, <1>3, <1>5
      DEF ReturnAsArgument, ReturnsInto, WaitsFor, Linked, AnswersSingleton
    <2> DEFINE f == [b EXCEPT !.got[b.at] = t.value, !.at = 0]
    <2>2. /\ f.step = "args" /\ f.want = b.want /\ f.context = b.context
          /\ Len(f.got) = Len(b.got)
          /\ \A i \in 1..Len(b.got) : i = b.at \/ f.got[i] = b.got[i]
      <3>1. PICK s \in Seq(Values) : s = b.got
        BY DEF StackFrames
      <3>2. PICK a : a = b.at
        OBVIOUS
      <3>3. PICK h : h = [s EXCEPT ![a] = t.value]
        OBVIOUS
      <3>4. Len(h) = Len(s) /\ \A i \in 1..Len(s) : i = a \/ h[i] = s[i]
        BY <3>3
      <3>5. f = [b EXCEPT !.got = h, !.at = 0]
        BY <3>1, <3>2, <3>3 DEF StackFrames
      <3>6. f.step = b.step /\ f.want = b.want /\ f.context = b.context /\ f.got = h
        BY <3>5 DEF StackFrames
      <3> QED  BY <2>1, <3>1, <3>2, <3>4, <3>6
    <2>3. ReplaceTwo(f)
      BY <1>2, <1>3, <1>5 DEF ReturnAsArgument
    <2> HIDE DEF f
    <2>4. FrameResolves(entry, f)
      BY <1>3, <1>4, <2>1, <2>2 DEF FrameResolves
    <2>5. PICK u : u = stack' /\ Moved(stack, f, f, u)
      BY <1>1, <2>3 DEF ReplaceTwo, Moved
    <2> QED  BY <1>1, <2>1, <2>4, <2>5, ResolvesStack
  <1>6. CASE ReturnThrough \/ ReturnToSingleton
    <2>1. /\ b.step = "wait" /\ b.want.how = "normal" /\ t.want = entry[b.want.key].to
          /\ entry[b.want.key].kind \in {"type", "singleton"}
      BY <1>1, <1>2, <1>3, <1>6
      DEF ReturnThrough, ReturnToSingleton, ReturnsInto, WaitsFor, FrameBuilt
    <2>2. t.context = IF entry[b.want.key].kind = "singleton" THEN EmptyContext ELSE b.context
      BY <1>1, <2>1, <1>3 DEF Linked, AnswersSingleton
    <2>3. Can(entry, b.want, b.context.params)
      BY <1>3, <1>4, <2>1, <2>2, CanIf DEF EmptyContext
    <2>4. PICK s \in {"return", "invoked"} :
            ReplaceTwo([b EXCEPT !.value = t.value, !.step = s])
      BY <1>2, <1>3, <1>6 DEF ReturnThrough, ReturnToSingleton
    <2> DEFINE f == [b EXCEPT !.value = t.value, !.step = s]
    <2>5. f.step = s /\ f.want = b.want /\ f.context = b.context
      BY DEF StackFrames
    <2>6. ReplaceTwo(f)
      BY <2>4
    <2> HIDE DEF f
    <2>7. FrameResolves(entry, f)
      BY <2>3, <2>5 DEF FrameResolves
    <2>8. PICK u : u = stack' /\ Moved(stack, f, f, u)
      BY <1>1, <2>6 DEF ReplaceTwo, Moved
    <2>9. \A i \in 1..Len(stack') : FrameResolves(entry, stack[i])'
      BY <1>1, <2>7, <2>8, ResolvesStack
    <2>10. SinglesResolve'
      <3>1. CASE ReturnThrough
        BY <3>1 DEF ReturnThrough, OutcomeInv, SinglesResolve, Grows
      <3>2. CASE ReturnToSingleton
        <4>1. entry[b.want.key].kind = "singleton" /\ b = Below
          BY <1>3, <3>2 DEF ReturnToSingleton, AnswersSingleton
        <4>2. Can(entry, entry[b.want.key].to, {})
          BY <1>4, <2>1, <2>2, <4>1 DEF EmptyContext
        <4>3. \A k \in Keys : k # b.want.key => single'[k] = single[k]
          BY <1>3, <3>2 DEF ReturnToSingleton, StackInv, DataOK
        <4> QED  BY <4>1, <4>2, <4>3 DEF OutcomeInv, SinglesResolve, Grows
      <3> QED  BY <1>6, <3>1, <3>2
    <2> QED  BY <1>1, <2>9, <2>10 DEF OutcomeInv
  <1> QED  BY <1>5, <1>6

\* What a frame has got when its step or its position changes.
LEMMA FrameTakes ==
    ASSUME NEW b, NEW t \in StackFrames, FrameResolves(b, t)
    PROVE  /\ \A a : FrameResolves(b, [t EXCEPT !.at = a])
           /\ FrameResolves(b, [t EXCEPT !.step = "wait"])
           /\ Can(b, t.want, t.context.params) =>
                \A v : \A s \in {"body", "invoked", "return"} :
                  /\ FrameResolves(b, [t EXCEPT !.value = v, !.step = s])
                  /\ FrameResolves(b, [t EXCEPT !.step = s, !.value = v])
                  /\ FrameResolves(b, [t EXCEPT !.step = s])
                  /\ FrameResolves(b, [t EXCEPT !.got = <<>>, !.at = 0, !.step = s])
  BY DEF StackFrames, FrameResolves

LEMMA OutcomeHolds ==
    ASSUME StackInv, BuiltInv, OutcomeInv, [Next]_vars
    PROVE  OutcomeInv'
  <1>0. Grows /\ DataOK /\ StackOK /\ entry \in Bindings
    BY DataHolds DEF StackInv, DataOK
  <1>1. ASSUME stack # <<>>,
               objects' = objects \/ \E o \in Objects : objects' = Append(objects, o)
        PROVE  \E t \in StackFrames :
                 /\ t = TopFrame /\ t.want \in Wants /\ t.want.key \in Keys
                 /\ t.context.params \in SUBSET Keys /\ FrameOK(t) /\ FrameBuilt(t)
                 /\ FrameResolves(entry, t)
    BY <1>0, <1>1, TopsResolve
  <1>2. CASE MissingBinding
    <2>1. /\ stack # <<>> /\ UNCHANGED <<entry, stack, objects, single>>
          /\ TopFrame.step = "look"
          /\ \/ TopFrame.want.how = "normal" /\ EntryOfTop.kind = "none"
             \/ /\ TopFrame.want.how = "assisted"
                /\ TopFrame.want.key \notin TopFrame.context.params
      BY <1>2 DEF MissingBinding, LookupNormal, Running
    <2>2. ~Can(entry, TopFrame.want, TopFrame.context.params)
      BY <1>0, <1>1, <2>1, CanIf DEF EntryOfTop
    <2> QED
      BY <2>1, <2>2 DEF OutcomeInv, Missing, SinglesResolve, TopFrame
  <1>3. CASE InvokeGetRunsOff
    BY <1>3 DEF InvokeGetRunsOff, OutcomeInv, SinglesResolve
  <1>4. CASE UNCHANGED vars
    BY <1>4 DEF vars, OutcomeInv, SinglesResolve, TopFrame
  <1>5. ASSUME NEW k \in Keys, Get(k)
        PROVE  OutcomeInv'
    <2>1. PICK f : /\ f = Frame([how |-> "normal", key |-> k], EmptyContext, "look")
                   /\ FrameResolves(entry, f)
      BY NewFrameResolves
    <2>2. PICK u : u = stack' /\ Moved(stack, f, f, u)
      BY <1>5, <2>1 DEF Get, Moved
    <2> QED  BY <1>0, <1>5, <2>1, <2>2, ResolvesStack DEF Get
  <1>6. ASSUME NEW n \in 1..Len(objects), CallFactory(n)
        PROVE  OutcomeInv'
    <2>1. PICK w, c : stack' = stack \o <<Frame(w, c, "call"), Frame(w, c, "look")>>
      BY <1>6 DEF CallFactory
    <2>2. PICK f, g : /\ f = Frame(w, c, "call") /\ g = Frame(w, c, "look")
                      /\ FrameResolves(entry, f) /\ FrameResolves(entry, g)
      BY NewFrameResolves
    <2>3. PICK u : u = stack' /\ Moved(stack, f, g, u)
      BY <2>1, <2>2 DEF Moved
    <2> QED  BY <1>0, <1>6, <2>2, <2>3, ResolvesStack DEF CallFactory
  <1>7. CASE LookupAssisted \/ ReadInstance \/ ReadSingleton \/ MakeFactory
    <2>1. /\ stack # <<>> /\ status' = "ok" /\ single' = single
          /\ \E s \in {"invoked", "return"} : \E v :
               ReplaceTop([TopFrame EXCEPT !.value = v, !.step = s])
      BY <1>7 DEF LookupAssisted, ReadInstance, ReadSingleton, MakeFactory, LookupNormal,
           Running, Answer
    <2>2. PICK s \in {"invoked", "return"} :
            \E v : ReplaceTop([TopFrame EXCEPT !.value = v, !.step = s])
      BY <2>1
    <2>3. PICK t \in StackFrames :
            /\ t = TopFrame /\ t.want \in Wants /\ t.want.key \in Keys
            /\ t.context.params \in SUBSET Keys /\ FrameResolves(entry, t)
      <3>1. Len(stack) \in 1..Len(stack)
        BY <1>0, <2>1 DEF StackOK
      <3> QED  BY <1>0, <2>1, <3>1, TopIs DEF StackFrames, Wants, Contexts, OutcomeInv
    <2>4. Can(entry, t.want, t.context.params)
      <3>1. CASE LookupAssisted
        BY <1>0, <2>3, <3>1, CanIf DEF LookupAssisted
      <3>2. CASE ReadInstance \/ MakeFactory
        <4>1. t.want.how = "normal" /\ entry[t.want.key].kind \in {"instance", "factory"}
          BY <2>3, <3>2 DEF ReadInstance, MakeFactory, LookupNormal, EntryOfTop
        <4> QED  BY <1>0, <2>3, <4>1, CanIf
      <3>3. CASE ReadSingleton
        <4>1. /\ t.want.how = "normal" /\ entry[t.want.key].kind = "singleton"
              /\ single[t.want.key] # NoValue
          BY <2>3, <3>3 DEF ReadSingleton, LookupNormal, EntryOfTop
        <4>2. Can(entry, entry[t.want.key].to, {})
          BY <2>3, <4>1 DEF OutcomeInv, SinglesResolve
        <4> QED  BY <1>0, <2>3, <4>1, <4>2, CanIf
      <3> QED  BY <1>7, <3>1, <3>2, <3>3
    <2>5. PICK v : ReplaceTop([t EXCEPT !.value = v, !.step = s])
      BY <2>2, <2>3
    <2>6. PICK f : f = [t EXCEPT !.value = v, !.step = s] /\ FrameResolves(entry, f)
      BY <2>3, <2>4, FrameTakes
    <2> QED  BY <1>0, <2>1, <2>5, <2>6, TopResolves
  <1>8. CASE BeginArguments
    <2>1. /\ stack # <<>> /\ status' = "ok" /\ single' = single /\ objects' = objects
          /\ EntryOfTop.kind \in {"ctor", "provider"}
          /\ ReplaceTop([TopFrame EXCEPT !.step = "args",
                            !.got = [i \in DOMAIN EntryOfTop.args |-> NoValue]])
      BY <1>8 DEF BeginArguments, LookupNormal, Running
    <2>2. PICK t \in StackFrames : t = TopFrame /\ t.want.key \in Keys
      BY <1>1, <2>1
    <2>3. PICK h : h = [i \in DOMAIN EntryOfTop.args |-> NoValue]
      OBVIOUS
    <2>4. \A i \in 1..Len(h) : h[i] = NoValue
      <3>1. EntryOfTop.args \in Seq(Wants)
        BY <1>0, <2>1, <2>2, EntryFields DEF EntryOfTop
      <3> QED  BY <2>3, <3>1
    <2>5. PICK f : f = [t EXCEPT !.step = "args", !.got = h]
      OBVIOUS
    <2>6. FrameResolves(entry, f)
      <3>1. f.step = "args" /\ f.got = h
        BY <2>5 DEF StackFrames
      <3> QED  BY <2>4, <3>1 DEF FrameResolves
    <2> QED  BY <1>0, <2>1, <2>2, <2>3, <2>5, <2>6, TopResolves
  <1>9. CASE FollowType \/ CreateSingleton \/ NextArgument
    <2>1. /\ stack # <<>> /\ status' = "ok" /\ single' = single /\ objects' = objects
          /\ \E f, w, c : /\ Push(f, Frame(w, c, "look"))
                          /\ f = [TopFrame EXCEPT !.step = "wait"]
                             \/ \E a : f = [TopFrame EXCEPT !.at = a]
      BY <1>9 DEF FollowType, CreateSingleton, NextArgument, LookupNormal, Running
    <2>2. PICK f, w, c : /\ Push(f, Frame(w, c, "look"))
                         /\ f = [TopFrame EXCEPT !.step = "wait"]
                            \/ \E a : f = [TopFrame EXCEPT !.at = a]
      BY <2>1
    <2>3. PICK t \in StackFrames : t = TopFrame /\ FrameResolves(entry, t)
      BY <1>1, <2>1
    <2>4. f = [t EXCEPT !.step = "wait"] \/ \E a : f = [t EXCEPT !.at = a]
      BY <2>2, <2>3
    <2>5. FrameResolves(entry, f)
      <3>1. CASE f = [t EXCEPT !.step = "wait"]
        BY <2>3, <3>1, FrameTakes, Zenon
      <3>2. CASE \E a : f = [t EXCEPT !.at = a]
        <4>1. PICK a : f = [t EXCEPT !.at = a]
          BY <3>2
        <4>2. FrameResolves(entry, [t EXCEPT !.at = a])
          BY <2>3, FrameTakes, Zenon
        <4> QED  BY <4>1, <4>2, Zenon
      <3> QED  BY <2>4, <3>1, <3>2
    <2> QED  BY <1>0, <2>1, <2>2, <2>5, AskResolves
  <1>10. CASE EnterBody
    <2>1. /\ stack # <<>> /\ status' = "ok" /\ single' = single
          /\ TopFrame.step = "args" /\ NoValue \notin ToSet(TopFrame.got)
          /\ \E v : ReplaceTop([TopFrame EXCEPT !.step = "body", !.value = v])
      BY <1>10 DEF EnterBody, Running
    <2>2. PICK v : ReplaceTop([TopFrame EXCEPT !.step = "body", !.value = v])
      BY <2>1
    <2>3. PICK t \in StackFrames :
            /\ t = TopFrame /\ t.want \in Wants /\ t.want.key \in Keys
            /\ t.context.params \in SUBSET Keys /\ FrameOK(t) /\ FrameBuilt(t)
            /\ FrameResolves(entry, t)
      <3>1. Len(stack) \in 1..Len(stack)
        BY <1>0, <2>1 DEF StackOK
      <3>2. FrameResolves(entry, TopFrame) /\ FrameBuilt(TopFrame)
        BY <1>0, <2>1, <3>1, TopIs DEF OutcomeInv, BuiltInv
      <3> QED  BY <1>0, <2>1, <3>2, TopIs DEF StackFrames, Wants, Contexts
    <2>4. /\ t.want.how = "normal" /\ entry[t.want.key].kind \in {"ctor", "provider"}
          /\ t.got \in Seq(Values) /\ Len(t.got) = Len(entry[t.want.key].args)
      BY <2>1, <2>3 DEF FrameOK, FrameBuilt, StackFrames
    <2>5. \A i \in 1..Len(t.got) : t.got[i] # NoValue
      BY <2>1, <2>3, <2>4 DEF ToSet
    <2>6. \A i \in 1..Len(entry[t.want.key].args) :
            Can(entry, entry[t.want.key].args[i], t.context.params)
      BY <2>1, <2>3, <2>4, <2>5 DEF FrameResolves
    <2>7. Can(entry, t.want, t.context.params)
      BY <1>0, <2>3, <2>4, <2>6, CanIf
    <2>8. PICK f : f = [t EXCEPT !.step = "body", !.value = v] /\ FrameResolves(entry, f)
      BY <2>3, <2>7, FrameTakes
    <2> QED  BY <1>0, <2>1, <2>2, <2>3, <2>8, TopResolves
  <1>11. CASE LeaveBody \/ InvokeGetReturns
    <2>1. /\ stack # <<>> /\ status' = "ok" /\ single' = single /\ objects' = objects
          /\ TopFrame.step \in {"body", "invoked"}
          /\ \E s \in {"invoked", "return"} : \E f :
               /\ ReplaceTop(f)
               /\ \/ f = [TopFrame EXCEPT !.got = <<>>, !.at = 0, !.step = s]
                  \/ f = [TopFrame EXCEPT !.step = s]
      <3>1. CASE LeaveBody
        <4>1. PICK s \in {"invoked", "return"} :
                ReplaceTop([TopFrame EXCEPT !.got = <<>>, !.at = 0, !.step = s])
          BY <3>1 DEF LeaveBody
        <4> QED  BY <3>1, <4>1 DEF LeaveBody, Running
      <3>2. CASE InvokeGetReturns
        BY <3>2 DEF InvokeGetReturns, Running
      <3> QED  BY <1>11, <3>1, <3>2
    <2>2. PICK s \in {"invoked", "return"} : \E f :
               /\ ReplaceTop(f)
               /\ \/ f = [TopFrame EXCEPT !.got = <<>>, !.at = 0, !.step = s]
                  \/ f = [TopFrame EXCEPT !.step = s]
      BY <2>1
    <2>3. PICK t \in StackFrames : t = TopFrame /\ FrameResolves(entry, t)
      BY <1>1, <2>1
    <2>4. Can(entry, t.want, t.context.params)
      BY <2>1, <2>3 DEF FrameResolves
    <2>5. PICK f : /\ ReplaceTop(f)
                   /\ \/ f = [t EXCEPT !.got = <<>>, !.at = 0, !.step = s]
                      \/ f = [t EXCEPT !.step = s]
      BY <2>2, <2>3
    <2>6. FrameResolves(entry, f)
      <3>1. s \in {"body", "invoked", "return"}
        OBVIOUS
      <3>2. CASE f = [t EXCEPT !.got = <<>>, !.at = 0, !.step = s]
        BY <2>3, <2>4, <3>1, <3>2, FrameTakes, Zenon
      <3>3. CASE f = [t EXCEPT !.step = s]
        BY <2>3, <2>4, <3>1, <3>3, FrameTakes, Zenon
      <3> QED  BY <2>5, <3>2, <3>3
    <2> QED  BY <1>0, <2>1, <2>5, <2>6, TopResolves
  <1>12. CASE ReturnToUser \/ ReturnFromCall
    <2>1. PICK f : f = Frame(TopFrame.want, EmptyContext, "look") /\ FrameResolves(entry, f)
      BY NewFrameResolves
    <2>2. /\ status' = "ok" /\ single' = single
          /\ stack' = <<>> \/ (Len(stack) > 1 /\ stack' = SubSeq(stack, 1, Len(stack) - 2))
      BY <1>12 DEF ReturnToUser, ReturnFromCall, ReturnsInto, Running
    <2>3. PICK u : u = stack' /\ Moved(stack, f, f, u)
      BY <2>2 DEF Moved
    <2> QED  BY <1>0, <2>1, <2>2, <2>3, ResolvesStack
  <1>13. CASE ReturnAsArgument \/ ReturnThrough \/ ReturnToSingleton
    BY <1>0, <1>13, ReturnResolves
  <1> QED
    BY <1>2, <1>3, <1>4, <1>5, <1>6, <1>7, <1>8, <1>9, <1>10, <1>11, <1>12, <1>13
    DEF Next, Progress

\* With nothing missing on top, what is missing for a request in progress is
\* missing for the one below it, down to the constructor or the provider that
\* called a factory: where a request ends is decided by what the bindings say.
LEMMA OutcomeIs ==
    ASSUME StackInv, BuiltInv, OutcomeInv
    PROVE  OutcomeIsAsBound
  <1> DEFINE Resolving(i) == Can(entry, stack[i].want, stack[i].context.params)
             NoBody(i) == \A j \in i..Len(stack) : stack[j].step # "body"
  <1>0. entry \in Bindings /\ stack \in Seq(StackFrames) /\ Len(stack) \in Nat
    BY DEF StackInv, DataOK, StackOK
  <1>1. \A i \in 1..Len(stack) :
          Resolves[Request(stack[i].want, stack[i].context.params)] = Resolving(i)
    BY ResolvesIs, Zenon DEF Can
  <1>2. ASSUME NEW i \in 1..Len(stack), stack[i].step \in {"body", "invoked", "return"}
        PROVE  Resolving(i)
    BY <1>2 DEF OutcomeInv, FrameResolves
  <1>3. ASSUME status = "aborted", NEW i \in 1..Len(stack), i < Len(stack),
               Resolving(i), NoBody(i)
        PROVE  Resolving(i + 1) /\ NoBody(i + 1)
    <2>1. PICK j \in 1..Len(stack) : j = i + 1
      BY <1>0, <1>3
    <2>2. PICK f \in StackFrames :
            /\ f = stack[i] /\ FrameOK(f) /\ FrameBuilt(f) /\ f.step # "body"
            /\ f.want \in Wants /\ f.want.key \in Keys /\ f.context.params \in SUBSET Keys
            /\ Can(entry, f.want, f.context.params)
      <3>1. PICK f \in StackFrames : f = stack[i]
        BY <1>0
      <3>2. f.step # "body"
        BY <1>0, <1>3, <3>1
      <3>3. FrameOK(f) /\ FrameBuilt(f)
        BY <3>1 DEF StackInv, StackOK, BuiltInv
      <3> QED  BY <1>3, <3>1, <3>2, <3>3 DEF StackFrames, Wants, Contexts
    <2>3. PICK g \in StackFrames : g = stack[j]
      BY <1>0
    <2>4. Linked(f, g) /\ WaitsFor(entry, f, g)
      BY <2>1, <2>2, <2>3, <1>0 DEF StackInv, StackOK, BuiltInv, Chain
    <2>5. Can(entry, g.want, g.context.params)
      <3>1. CASE f.step = "args"
        <4>1. /\ g.context = f.context /\ g.want = entry[f.want.key].args[f.at]
              /\ f.want.how = "normal" /\ entry[f.want.key].kind \in {"ctor", "provider"}
              /\ f.at \in 1..Len(entry[f.want.key].args)
          BY <2>2, <2>4, <3>1
          DEF Linked, AnswersSingleton, WaitsFor, FrameOK, FrameBuilt, StackFrames
        <4> QED  BY <1>0, <2>2, <4>1, CanIf
      <3>2. CASE f.step = "wait"
        <4>1. /\ g.want = entry[f.want.key].to /\ f.want.how = "normal"
              /\ entry[f.want.key].kind \in {"type", "singleton"}
              /\ g.context = IF entry[f.want.key].kind = "singleton" THEN EmptyContext
                             ELSE f.context
          BY <2>2, <2>4, <3>2 DEF Linked, AnswersSingleton, WaitsFor, FrameBuilt
        <4> QED  BY <1>0, <2>2, <4>1, CanIf DEF EmptyContext
      <3>3. CASE f.step = "call"
        <4>1. g.want = f.want /\ g.context = f.context
          BY <2>4, <3>3 DEF Linked, AnswersSingleton, WaitsFor
        <4> QED  BY <2>2, <4>1
      <3> QED  BY <2>2, <2>4, <3>1, <3>2, <3>3 DEF Linked, Covered
    <2> QED  BY <1>0, <1>3, <2>1, <2>3, <2>5
  <1>4. ASSUME status = "aborted", NEW i \in 1..Len(stack), NoBody(i), Resolving(i)
        PROVE  FALSE
    <2> DEFINE bad == {j \in 1..Len(stack) : NoBody(j) /\ Resolving(j)}
               heights == {Len(stack) - j : j \in bad}
    <2>1. heights \in SUBSET Nat /\ heights # {}
      BY <1>0, <1>4
    <2> HIDE DEF heights
    <2>2. PICK x \in heights : \A y \in heights : x <= y
      BY <2>1, LeastOf
    <2>3. PICK j \in 1..Len(stack) : NoBody(j) /\ Resolving(j) /\ x = Len(stack) - j
      BY DEF heights
    <2>4. j # Len(stack)
      <3>1. stack # <<>> /\ ~Can(entry, TopFrame.want, TopFrame.context.params)
        BY <1>4 DEF OutcomeInv, Missing
      <3> QED  BY <2>3, <3>1 DEF TopFrame, Last
    <2>5. j + 1 \in 1..Len(stack) /\ j < Len(stack)
      BY <1>0, <2>4
    <2>6. Resolving(j + 1) /\ NoBody(j + 1)
      BY <1>3, <1>4, <2>3, <2>5
    <2>7. Len(stack) - (j + 1) \in heights
      BY <2>5, <2>6 DEF heights
    <2> QED  BY <1>0, <2>1, <2>2, <2>3, <2>7
  <1> HIDE DEF Resolving
  <1> QED  BY <1>1, <1>2, <1>4, Zenon DEF OutcomeIsAsBound

\* A request succeeds, or ends in a failed check, as the bindings and the factory
\* parameters have it: in whatever order the arguments are evaluated, and
\* whichever singletons earlier requests have left behind (Resolves).
THEOREM OutcomesAreAsBound == Spec => []OutcomeIsAsBound
  <1>1. Init => BuiltInv /\ OutcomeInv
    BY ValuesDiffer DEF Init, BuiltInv, Chain, OutcomeInv, SinglesResolve
  <1>2. StackInv /\ BuiltInv /\ [Next]_vars => BuiltInv'
    BY BuiltHolds
  <1>3. StackInv /\ BuiltInv /\ OutcomeInv /\ [Next]_vars => OutcomeInv'
    BY OutcomeHolds
  <1>4. StackInv /\ BuiltInv /\ OutcomeInv => OutcomeIsAsBound
    BY OutcomeIs
  <1> QED  BY StackInvariant, <1>1, <1>2, <1>3, <1>4, PTL DEF Spec
=============================================================================
