-------------------------- MODULE TypedLookupProofs --------------------------
(***************************************************************************)
(* Theorems about TypedLookup, for any types, labels and module. The       *)
(* argument for ConstAndIdentityKept: a binding Bind<T>().To<U>() goes from *)
(* pointer to pointer, or from value to value, and never from a type that  *)
(* is not const to one that is (BindingsKeep), and the conversions made at *)
(* each hop only add const, so that the request made first bounds what may *)
(* be wanted next (WantIsBounded) and every hop so far (PathIsBounded).    *)
(*                                                                         *)
(* The argument for the rest: an id of the bind table, or of the parameters *)
(* of a factory, says which class and annotations were written and no more *)
(* (IdSaysWhatIsWritten); the table holds the entry of the first call for   *)
(* each id (TableAsWritten), the context that of each parameter at its     *)
(* place (ArgumentsAsWritten); so the entry of each hop is the one written *)
(* first for what is wanted, its type is of the class wanted, and there    *)
(* the overloads of GetAndCast are the conversions listed.                 *)
(***************************************************************************)
EXTENDS TypedLookup, TLAPS, SequenceTheorems, WellFoundedInduction

Targets == [ats : Seq(Labels \cup {Assisted}), type : Types \cup {NoType}]
EntryKinds == {"none", "argument", "internal", "ctor", "invalid", "type", "instance",
               "pointed", "value", "provider"}
EntryTypes == [how : EntryKinds, type : Types \cup {NoType}, n : Nat, to : Targets]
Hops == [want : Targets, entry : EntryTypes]

\* Handing out a value of type b where w is asked for keeps w's promises.
Within(b, w) == b.cat = w.cat /\ (b.const => w.const)

Holds == stage \in {"configuring", "live"}

LookupTyped ==
    /\ bind_map \in [BindIds -> EntryTypes]
    /\ calls \in Seq(Calls)
    /\ Len(context) \in Nat
    /\ \A i \in 1..Len(context) : context[i].entry \in EntryTypes
    /\ path \in Seq(Hops)
    /\ want \in Targets
    /\ request = <<>> => answer = <<>> /\ path = <<>>
    /\ request # <<>> => request[1] \in Annotated /\ want.type \in Types
    /\ answer # <<>> => Holds

BindingsKeep ==
    /\ \A id \in BindIds : bind_map[id].how = "type" =>
         bind_map[id].to.type \in Types /\ Within(bind_map[id].to.type, bind_map[id].type)
    /\ \A i \in 1..Len(context) : context[i].entry.how # "type"

Shared == request # <<>> /\ request[1].type.cat # "value"

WantIsBounded ==
    Shared /\ answer = <<>> => Within(want.type, request[1].type)

PathIsBounded ==
    Shared /\ (answer # <<>> => answer[1] # NoEntry) /\ Holds =>
      \A i \in 1..Len(path) : Within(path[i].entry.type, request[1].type)

LookupInv ==
    /\ LookupTyped
    /\ BindingsKeep
    /\ WantIsBounded
    /\ PathIsBounded

-----------------------------------------------------------------------------

\* What the overloads of GetAndCast do with two types of the same class is
\* what the comment above them lists: neither more nor less.
THEOREM ConversionsAreTheListed ==
    ASSUME NEW t \in Types, NEW b \in Types, t.spec = b.spec,
           b.cat = "value" => ~b.const, t.cat = "value" => ~t.const
    PROVE  ReadAs(t, b) # {} <=> Converts(t, b)
  <1>1. /\ t.cat \in {"value", "pointer", "reference"} /\ t.const \in BOOLEAN
        /\ b.cat \in {"value", "pointer", "reference"} /\ b.const \in BOOLEAN
        /\ t = [spec |-> t.spec, cat |-> t.cat, const |-> t.const]
        /\ b = [spec |-> b.spec, cat |-> b.cat, const |-> b.const]
    BY DEF Types
  <1>2. ReadAs(t, b) # {} <=> t = b \/ \E o \in Overloads(t.spec) : o[1] = t /\ o[2] = b
    BY DEF ReadAs
  <1>3. (\E o \in Overloads(t.spec) : o[1] = t /\ o[2] = b) <=>
          \/ t = Pointer(t.spec, TRUE) /\ b = Pointer(t.spec, FALSE)
          \/ t = Reference(t.spec, TRUE) /\ b = Reference(t.spec, FALSE)
          \/ t = Value(t.spec) /\ b \in {Reference(t.spec, FALSE), Reference(t.spec, TRUE)}
    <2> DEFINE P == Pointer(t.spec, TRUE)    Q == Pointer(t.spec, FALSE)
               R == Reference(t.spec, TRUE)  S == Reference(t.spec, FALSE)
               V == Value(t.spec)
    <2>1. Overloads(t.spec) = {<<P, Q, Q>>, <<R, S, S>>, <<V, S, S>>, <<V, R, S>>}
      BY DEF Overloads
    <2> HIDE DEF P, Q, R, S, V
    <2>2. ASSUME NEW o \in Overloads(t.spec), o[1] = t, o[2] = b
          PROVE  \/ t = P /\ b = Q
                 \/ t = R /\ b = S
                 \/ t = V /\ b \in {S, R}
      <3>1. \/ o = <<P, Q, Q>> \/ o = <<R, S, S>> \/ o = <<V, S, S>> \/ o = <<V, R, S>>
        BY <2>1
      <3> QED  BY <2>2, <3>1
    <2>3. ASSUME t = P /\ b = Q
          PROVE  \E o \in Overloads(t.spec) : o[1] = t /\ o[2] = b
      <3>1. <<P, Q, Q>> \in Overloads(t.spec)
        BY <2>1
      <3> WITNESS <<P, Q, Q>> \in Overloads(t.spec)
      <3> QED  BY <2>3
    <2>4. ASSUME t = R /\ b = S
          PROVE  \E o \in Overloads(t.spec) : o[1] = t /\ o[2] = b
      <3>1. <<R, S, S>> \in Overloads(t.spec)
        BY <2>1
      <3> WITNESS <<R, S, S>> \in Overloads(t.spec)
      <3> QED  BY <2>4
    <2>5. ASSUME t = V /\ b \in {S, R}
          PROVE  \E o \in Overloads(t.spec) : o[1] = t /\ o[2] = b
      <3>1. <<V, b, S>> \in Overloads(t.spec)
        BY <2>1, <2>5
      <3> WITNESS <<V, b, S>> \in Overloads(t.spec)
      <3> QED  BY <2>5
    <2> QED  BY <2>2, <2>3, <2>4, <2>5 DEF P, Q, R, S, V
  <1> QED  BY <1>1, <1>2, <1>3 DEF Pointer, Reference, Value, Converts

-----------------------------------------------------------------------------
(* Searches *)

\* SelectInSeq() finds 0 or a place of the sequence that passes the test.
LEMMA FirstIndex ==
    ASSUME NEW n \in Nat, NEW I \in SUBSET (1..n), I # {}
    PROVE  Min(I) \in I /\ \A y \in I : Min(I) <= y
  <1>1. PICK x \in I : \A y \in I : ~(<<y, x>> \in OpToRel(<, Nat))
    <2>1. I \subseteq Nat
      OBVIOUS
    <2> QED  BY <2>1, WFMin, NatLessThanWellFounded, Zenon
  <1>2. \A y \in I : ~(y < x)
    <2> SUFFICES ASSUME NEW y \in I, y < x  PROVE FALSE
      OBVIOUS
    <2>1. <<y, x>> \in Nat \X Nat /\ <<y, x>>[1] = y /\ <<y, x>>[2] = x
      OBVIOUS
    <2>2. <<y, x>> \in OpToRel(<, Nat)
      BY <2>1, Zenon DEF OpToRel
    <2> QED  BY <1>1, <2>2
  <1>3. \A y \in I : x <= y
    BY <1>2
  <1> QED  BY <1>3 DEF Min

LEMMA ArgumentFound ==
    ASSUME NEW id, Len(context) \in Nat
    PROVE  \/ FindArgument(id) = NoEntry
           \/ \E i \in 1..Len(context) : FindArgument(id) = context[i].entry
  <1> DEFINE I == {i \in 1..Len(context) : context[i].id = id}
             found == SelectInSeq(context, LAMBDA c : c.id = id)
  <1>1. found = IF I # {} THEN Min(I) ELSE 0
    BY DEF SelectInSeq
  <1>2. I # {} => Min(I) \in I
    BY FirstIndex
  <1>3. found = 0 \/ found \in 1..Len(context)
    BY <1>1, <1>2
  <1> QED  BY <1>3 DEF FindArgument, ArgumentAt

-----------------------------------------------------------------------------
(* What a lookup finds *)

\* The two annotations of an id, once Assisted is ruled out, are those of the
\* bind table (AtUtil::GetAt).
LEMMA AnnotationsTyped ==
    ASSUME NEW ats \in Seq(Labels \cup {Assisted})
    PROVE  /\ InjectTypeOf(ats) \in {"NormalInject", Assisted}
           /\ GetAt(ats, "Label", "NotLabelled") \in Labels \cup {"NotLabelled"}
  <1>0. Len(ats) \in Nat /\ \A i \in 1..Len(ats) : ats[i] \in Labels \cup {Assisted}
    OBVIOUS
  <1>1. ASSUME NEW kind, NEW default
        PROVE  \/ GetAt(ats, kind, default) = default
               \/ \E i \in 1..Len(ats) : /\ GetAt(ats, kind, default) = ats[i]
                                         /\ AnnotationType(ats[i]) = kind
    <2> DEFINE I == {i \in 1..Len(ats) : AnnotationType(ats[i]) = kind}
               found == SelectInSeq(ats, LAMBDA a : AnnotationType(a) = kind)
    <2>1. found = IF I # {} THEN Min(I) ELSE 0
      BY DEF SelectInSeq
    <2>2. I # {} => Min(I) \in I
      BY <1>0, FirstIndex
    <2>3. found = 0 \/ (found \in 1..Len(ats) /\ AnnotationType(ats[found]) = kind)
      BY <2>1, <2>2
    <2>4. GetAt(ats, kind, default) = IF found = 0 THEN default ELSE ats[found]
      BY DEF GetAt
    <2> HIDE DEF found
    <2> QED  BY <1>0, <2>3, <2>4
  <1>2. InjectTypeOf(ats) \in {"NormalInject", Assisted}
    <2>1. \A a : AnnotationType(a) = "InjectType" => a = Assisted
      BY DEF AnnotationType
    <2> QED  BY <1>1, <2>1 DEF InjectTypeOf
  <1>3. GetAt(ats, "Label", "NotLabelled") \in Labels \cup {"NotLabelled"}
    <2>1. \A a \in Labels \cup {Assisted} : AnnotationType(a) = "Label" => a \in Labels
      BY DEF AnnotationType
    <2> QED  BY <1>0, <1>1, <2>1
  <1> QED  BY <1>2, <1>3

LEMMA AnnotatedTyped ==
    ASSUME NEW a \in Annotated
    PROVE  a.type \in Types /\ a.ats \in Seq(Labels \cup {Assisted})
  <1>1. a.type \in Types /\ \E k \in 0..2 : a.ats \in [1..k -> Labels \cup {Assisted}]
    BY DEF Annotated
  <1>2. PICK k \in Nat : a.ats \in [1..k -> Labels \cup {Assisted}]
    BY <1>1
  <1>3. a.ats \in Seq(Labels \cup {Assisted})
    BY <1>2, SeqDef
  <1> QED  BY <1>1, <1>3

LEMMA NoTargetTyped == NoTarget \in Targets
  BY DEF NoTarget, Targets

LEMMA EntryTyped ==
    ASSUME NEW how \in EntryKinds, NEW type \in Types \cup {NoType}, NEW n \in Nat
    PROVE  Entry(how, type, n) \in EntryTypes
  BY NoTargetTyped DEF Entry, EntryTypes

\* Whatever handler is selected, it finds a parameter of the factory call, an
\* entry of the bind table, a default one, or nothing (NormalInjectHandler,
\* AssistedInjectHandler).
LEMMA FoundTyped ==
    ASSUME LookupTyped, BindingsKeep, want.type \in Types
    PROVE  /\ Found \in EntryTypes
           /\ Found.how = "type" =>
                Found.to.type \in Types /\ Within(Found.to.type, Found.type)
  <1> USE DEF LookupTyped, BindingsKeep
  <1>1. NoEntry \in EntryTypes /\ NoEntry.how # "type"
    <2>1. NoEntry \in EntryTypes
      BY EntryTyped DEF NoEntry, EntryKinds
    <2> QED  BY <2>1 DEF NoEntry, Entry
  <1>2. ASSUME NEW id
        PROVE  FindArgument(id) \in EntryTypes /\ FindArgument(id).how # "type"
    BY <1>1, ArgumentFound
  <1>3. want.ats \in Seq(Labels \cup {Assisted}) /\ want.type.spec \in Specs
    BY DEF Targets, Types
  <1>4. ~IsAssisted => BindId(want.ats, want.type) \in BindIds
    BY <1>3, AnnotationsTyped DEF IsAssisted, BindId, BindIds
  <1>5. DefaultEntry(want.type.spec) \in EntryTypes /\ DefaultEntry(want.type.spec).how # "type"
    <2>1. want.type.spec \in Classes => Pointer(want.type.spec, FALSE) \in Types
      BY DEF Pointer, Types, Specs
    <2>2. want.type.spec \in Classes =>
            Entry("ctor", Pointer(want.type.spec, FALSE), 0) \in EntryTypes
      BY <2>1, EntryTyped DEF EntryKinds
    <2>3. Entry("invalid", NoType, 0) \in EntryTypes
      BY EntryTyped DEF EntryKinds
    <2> QED  BY <1>1, <2>2, <2>3 DEF DefaultEntry, Entry
  <1> QED  BY <1>2, <1>4, <1>5 DEF Found

\* What is read of an entry for anything but a value is of the same shape and
\* not less const (TableEntryReader::GetAndCast).
LEMMA ReadKeeps ==
    ASSUME NEW t \in Types, NEW b \in Types, ReadAs(t, b) # {}, t.cat # "value"
    PROVE  Within(b, t)
  <1>1. t = b \/ \E o \in Overloads(t.spec) : o[1] = t /\ o[2] = b
    BY DEF ReadAs
  <1>2. ASSUME NEW o \in Overloads(t.spec), o[1] = t, o[2] = b
        PROVE  Within(b, t)
    <2> DEFINE P == Pointer(t.spec, TRUE)    Q == Pointer(t.spec, FALSE)
               R == Reference(t.spec, TRUE)  S == Reference(t.spec, FALSE)
               V == Value(t.spec)
    <2>1. o \in {<<P, Q, Q>>, <<R, S, S>>, <<V, S, S>>, <<V, R, S>>}
      BY DEF Overloads
    <2>2. (t = P /\ b = Q) \/ (t = R /\ b = S) \/ t = V
      <3> HIDE DEF P, Q, R, S, V
      <3> QED  BY <1>2, <2>1
    <2> QED  BY <2>2 DEF Pointer, Reference, Value, Within
  <1> QED  BY <1>1, <1>2 DEF Within

-----------------------------------------------------------------------------
(* The invariant *)

\* Nothing is bound and nothing asked for (Injector::Create).
LEMMA LookupInitHolds == LookupInit => LookupInv
  <1> SUFFICES ASSUME LookupInit  PROVE LookupInv
    OBVIOUS
  <1>1. NoEntry \in EntryTypes /\ NoEntry.how # "type"
    <2>1. NoEntry \in EntryTypes
      BY EntryTyped DEF NoEntry, EntryKinds
    <2> QED  BY <2>1 DEF NoEntry, Entry
  <1>2. LookupTyped
    BY <1>1, NoTargetTyped DEF LookupInit, LookupTyped, Hops
  <1>3. BindingsKeep /\ WantIsBounded /\ PathIsBounded
    BY <1>1 DEF LookupInit, BindingsKeep, WantIsBounded, PathIsBounded, Shared
  <1> QED  BY <1>2, <1>3 DEF LookupInv

\* The entry of a binder call has a type of the shape it binds; that of Bind()
\* leads to one that is no more const.
LEMMA EntryOfKeeps ==
    ASSUME NEW c \in Calls, NEW n \in Nat
    PROVE  /\ EntryOf(c, n) \in EntryTypes
           /\ EntryOf(c, n).how = "type" =>
                /\ EntryOf(c, n).to.type \in Types
                /\ Within(EntryOf(c, n).to.type, EntryOf(c, n).type)
  <1>1. /\ c.op \in DOMAIN How /\ c.lhs \in Annotated /\ c.rhs \in Annotated
        /\ c.lhs.type.cat = "value" /\ c.rhs.type.cat = "value"
        /\ c.op = "Bind" => (c.rhs.type.const => c.lhs.type.const)
    BY LookupAssumption
  <1>2. How[c.op] \in EntryKinds /\ (How[c.op] = "type" => c.op \in {"Bind", "BindValueType"})
    BY <1>1 DEF How, EntryKinds
  <1>3. /\ c.lhs.type \in Types /\ c.rhs.type \in Types
        /\ c.rhs.ats \in Seq(Labels \cup {Assisted})
    BY <1>1, AnnotatedTyped
  <1>4. ASSUME NEW type \in Types, NEW op
        PROVE  BoundType(op, type) \in Types
    BY DEF BoundType, ActualType, Reference, Pointer, Types
  <1>5. BoundType(c.op, c.lhs.type) \in Types /\ BoundType(c.op, c.rhs.type) \in Types
    BY <1>3, <1>4
  <1> DEFINE made == Entry(How[c.op], BoundType(c.op, c.lhs.type), n)
             target == [ats |-> c.rhs.ats, type |-> BoundType(c.op, c.rhs.type)]
  <1>6. made \in EntryTypes /\ made.how = How[c.op] /\ made.type = BoundType(c.op, c.lhs.type)
    BY <1>2, <1>5, EntryTyped DEF Entry
  <1>7. target \in Targets
    BY <1>3, <1>5 DEF Targets
  <1>8. EntryOf(c, n) = IF made.how # "type" THEN made ELSE [made EXCEPT !.to = target]
    BY DEF EntryOf
  <1>9. How[c.op] = "type" => Within(BoundType(c.op, c.rhs.type), BoundType(c.op, c.lhs.type))
    <2>1. CASE c.op = "Bind"
      BY <1>1, <2>1 DEF BoundType, Pointer, Within
    <2>2. CASE c.op = "BindValueType"
      BY <1>1, <1>3, <2>2 DEF BoundType, ActualType, Within, Types
    <2> QED  BY <1>2, <2>1, <2>2
  <1>10. CASE How[c.op] # "type"
    BY <1>6, <1>8, <1>10
  <1>11. CASE How[c.op] = "type"
    <2> HIDE DEF made, target
    <2>1. /\ EntryOf(c, n) \in EntryTypes
          /\ EntryOf(c, n).type = made.type /\ EntryOf(c, n).to = target
      BY <1>6, <1>7, <1>8, <1>11 DEF EntryTypes
    <2> QED  BY <1>5, <1>6, <1>9, <1>11, <2>1 DEF target
  <1> QED  BY <1>10, <1>11

\* Binder calls are made between requests.
LEMMA CallKeepsLookup ==
    ASSUME LookupInv, NEW c \in Calls, MakeCall(c)
    PROVE  LookupInv'
  <1> USE DEF LookupInv
  <1>1. /\ UNCHANGED <<stage, context, request, want, path, answer>>
        /\ request = <<>> /\ answer = <<>> /\ calls' = Append(calls, c)
    BY DEF MakeCall, call_vars, Between, LookupTyped
  <1>2. calls' \in Seq(Calls) /\ Len(calls') \in Nat
    BY <1>1 DEF LookupTyped
  <1>3. PICK id : bind_map' = bind_map
                  \/ bind_map' = [bind_map EXCEPT ![id] = EntryOf(c, Len(calls'))]
    BY DEF MakeCall
  <1>4. LookupTyped' /\ BindingsKeep'
    BY <1>1, <1>2, <1>3, EntryOfKeeps DEF LookupTyped, BindingsKeep, Holds
  <1>5. WantIsBounded' /\ PathIsBounded'
    BY <1>1 DEF WantIsBounded, PathIsBounded, Shared
  <1> QED  BY <1>4, <1>5

\* The type wanted first is the type asked for, but for the const of a value.
LEMMA AskKeepsLookup ==
    ASSUME LookupInv, NEW w \in Annotated, NEW arguments \in Seq(Annotated),
           Ask(w, arguments), Holds
    PROVE  LookupInv'
  <1> USE DEF LookupInv
  <1>1. /\ UNCHANGED <<stage, bind_map, calls, path, answer>>
        /\ request = <<>> /\ answer = <<>> /\ path = <<>> /\ request' = <<w>>
        /\ want' = [ats |-> w.ats, type |-> ActualType(w.type)]
    BY DEF Ask, table_vars, Between, LookupTyped
  <1>2. ASSUME NEW a \in Annotated
        PROVE  /\ a.ats \in Seq(Labels \cup {Assisted}) /\ a.type \in Types
               /\ ActualType(a.type) \in Types
    BY AnnotatedTyped DEF ActualType, Types
  <1>3. want' \in Targets /\ want'.type \in Types
    BY <1>1, <1>2 DEF Targets
  <1> DEFINE EntryAt(i) == Entry("argument", ActualType(arguments[i].type), i)
  <1>4. ASSUME NEW i \in 1..Len(arguments)
        PROVE  EntryAt(i) \in EntryTypes /\ EntryAt(i).how = "argument"
    <2>1. ActualType(arguments[i].type) \in Types /\ i \in Nat
      BY <1>2
    <2> QED  BY <2>1, EntryTyped DEF EntryKinds, Entry
  <1>5. /\ Len(context') = Len(arguments) /\ Len(context') \in Nat
        /\ \A i \in 1..Len(arguments) : context'[i].entry = EntryAt(i)
    BY DEF Ask
  <1>6. \A i \in 1..Len(context') : /\ context'[i].entry \in EntryTypes
                                    /\ context'[i].entry.how # "type"
    <2> HIDE DEF EntryAt
    <2> QED  BY <1>4, <1>5
  <1>7. LookupTyped' /\ BindingsKeep'
    BY <1>1, <1>3, <1>5, <1>6 DEF LookupTyped, BindingsKeep, Holds
  <1>8. WantIsBounded' /\ PathIsBounded'
    BY <1>1, <1>2 DEF WantIsBounded, PathIsBounded, Shared, Within, ActualType
  <1> QED  BY <1>7, <1>8

-----------------------------------------------------------------------------

\* A hop adds what was wanted and found to the path, and nothing else there.
LEMMA PathGrows ==
    ASSUME LookupTyped, NEW e \in EntryTypes, Step(e)
    PROVE  /\ path' \in Seq(Hops) /\ Len(path) \in Nat
           /\ Len(path') = Len(path) + 1
           /\ \A i \in 1..Len(path) : path'[i] = path[i]
           /\ path'[Len(path) + 1].entry = e
           /\ path'[Len(path) + 1].want = want
  <1>1. [want |-> want, entry |-> e] \in Hops /\ path \in Seq(Hops)
    BY DEF LookupTyped, Hops
  <1> QED  BY <1>1 DEF Step

\* A hop to an entry of the shape wanted, no less const, stays within what the
\* request promises.
LEMMA HopKeepsPath ==
    ASSUME LookupInv, NEW e \in EntryTypes, Step(e), Pending,
           UNCHANGED request, Shared => Within(e.type, want.type)
    PROVE  Shared' => \A i \in 1..Len(path') : Within(path'[i].entry.type, request'[1].type)
  <1>1. /\ Len(path) \in Nat /\ Len(path') = Len(path) + 1
        /\ \A i \in 1..Len(path) : path'[i] = path[i]
        /\ path'[Len(path) + 1].entry = e
    BY PathGrows DEF LookupInv
  <1>2. answer = <<>> /\ Holds
    BY DEF Pending, Holds
  <1>3. Shared => \A i \in 1..Len(path) : Within(path[i].entry.type, request[1].type)
    BY <1>2 DEF LookupInv, PathIsBounded
  <1>4. Shared => Within(e.type, request[1].type)
    BY <1>2 DEF LookupInv, WantIsBounded, Within
  <1>5. Shared' <=> Shared
    BY DEF Shared
  <1> QED  BY <1>1, <1>3, <1>4, <1>5

\* A request that ends the process: only the path grows.
LEMMA StopKeepsLookup ==
    ASSUME LookupInv, Pending, NEW how \in Stages \ {"configuring", "live"}, Stops(how)
    PROVE  LookupInv'
  <1>1. Found \in EntryTypes
    BY FoundTyped DEF LookupInv, LookupTyped, Pending
  <1>2. path' \in Seq(Hops)
    BY <1>1, PathGrows DEF LookupInv, Stops
  <1>3. UNCHANGED <<bind_map, calls, context, request, want, answer>> /\ answer = <<>>
        /\ request # <<>> /\ stage' \notin {"configuring", "live"}
    BY DEF Stops, Pending, call_vars
  <1>4. LookupTyped' /\ BindingsKeep'
    BY <1>2, <1>3 DEF LookupInv, LookupTyped, BindingsKeep
  <1>5. WantIsBounded' /\ PathIsBounded'
    BY <1>3 DEF LookupInv, WantIsBounded, PathIsBounded, Shared, Holds
  <1> QED  BY <1>4, <1>5 DEF LookupInv

\* What the entry that is read is to the type wanted.
LEMMA FoundKeeps ==
    ASSUME LookupInv, Readable, ReadAs(want.type, Found.type) # {}
    PROVE  /\ Found \in EntryTypes
           /\ Shared => Within(Found.type, want.type)
           /\ Found.how = "type" =>
                Found.to.type \in Types /\ Within(Found.to.type, Found.type)
  <1>1. request # <<>> /\ answer = <<>> /\ want.type \in Types /\ Found.type # NoType
    BY DEF Readable, PendingLookup, Pending, LookupInv, LookupTyped
  <1>2. /\ Found \in EntryTypes
        /\ Found.how = "type" => Found.to.type \in Types /\ Within(Found.to.type, Found.type)
    BY <1>1, FoundTyped DEF LookupInv
  <1>3. Found.type \in Types
    BY <1>1, <1>2 DEF EntryTypes
  <1>4. Shared => want.type.cat # "value"
    BY <1>1 DEF LookupInv, WantIsBounded, Within, Shared
  <1> QED  BY <1>1, <1>2, <1>3, <1>4, ReadKeeps

\* Every step of a module or of a request keeps the invariant.
LEMMA LookupStepHolds == LookupInv /\ [LookupNext]_lookup_vars => LookupInv'
  <1> SUFFICES ASSUME LookupInv, [LookupNext]_lookup_vars  PROVE LookupInv'
    OBVIOUS
  <1>0. LookupTyped /\ BindingsKeep /\ WantIsBounded /\ PathIsBounded
    BY DEF LookupInv
  <1>1. ASSUME NEW c \in Calls, MakeCall(c)
        PROVE  LookupInv'
    BY <1>1, CallKeepsLookup
  <1>2. CASE FinishCreate
    <2>1. /\ UNCHANGED <<bind_map, calls, context, request, want, path, answer>>
          /\ request = <<>> /\ answer = <<>>
      BY <1>0, <1>2 DEF FinishCreate, Between, call_vars, LookupTyped
    <2>2. LookupTyped' /\ BindingsKeep'
      BY <1>0, <2>1 DEF LookupTyped, BindingsKeep
    <2>3. WantIsBounded' /\ PathIsBounded'
      BY <2>1 DEF WantIsBounded, PathIsBounded, Shared
    <2> QED  BY <2>2, <2>3 DEF LookupInv
  <1>3. ASSUME NEW w \in Wants, Get(w) \/ GetBoundInstance(w)
        PROVE  LookupInv'
    <2>1. w \in Annotated /\ <<>> \in Seq(Annotated)
      BY LookupAssumption
    <2> QED  BY <1>3, <2>1, AskKeepsLookup DEF Get, GetBoundInstance, Holds
  <1>4. ASSUME NEW w \in Wants, NEW p \in ParameterLists, CallFactory(w, p)
        PROVE  LookupInv'
    <2>1. w \in Annotated /\ p \in Seq(Annotated)
      BY LookupAssumption
    <2> QED  BY <1>4, <2>1, AskKeepsLookup DEF CallFactory, Holds
  <1>5. CASE GetInternal
    <2> DEFINE e == Entry("internal", want.type, 0)
    <2>1. e \in EntryTypes /\ e.type = want.type
      <3>1. want.type \in Types
        BY <1>0, <1>5 DEF GetInternal, Pending, LookupTyped
      <3>2. e \in EntryTypes
        BY <3>1, EntryTyped DEF EntryKinds
      <3> QED  BY <3>2 DEF Entry
    <2> HIDE DEF e
    <2>2. /\ UNCHANGED <<stage, bind_map, calls, context, request, want>> /\ Pending
          /\ answer' = <<e>> /\ Step(e)
      BY <1>5 DEF GetInternal, table_vars, call_vars, e
    <2>3. path' \in Seq(Hops)
      BY <1>0, <2>1, <2>2, PathGrows
    <2>4. Shared' => \A i \in 1..Len(path') : Within(path'[i].entry.type, request'[1].type)
      BY <2>1, <2>2, HopKeepsPath DEF Within
    <2>5. LookupTyped' /\ BindingsKeep'
      BY <1>0, <2>2, <2>3 DEF LookupTyped, BindingsKeep, Pending, Holds
    <2>6. WantIsBounded' /\ PathIsBounded'
      BY <2>2, <2>4 DEF WantIsBounded, PathIsBounded
    <2> QED  BY <2>5, <2>6 DEF LookupInv
  <1>6. CASE Missing \/ NotAnInstance \/ CanNotConvert \/ ReadMismatched
    <2>1. Pending /\ \E how \in Stages \ {"configuring", "live"} : Stops(how)
      BY <1>6 DEF Missing, NotAnInstance, CanNotConvert, ReadMismatched, Readable,
                  PendingLookup, Stages
    <2> QED  BY <2>1, StopKeepsLookup
  <1>7. CASE NotBound
    <2>1. NoEntry \in EntryTypes
      BY EntryTyped DEF NoEntry, EntryKinds
    <2>2. /\ UNCHANGED <<stage, bind_map, calls, context, request, want>> /\ Pending
          /\ answer' = <<NoEntry>> /\ Step(NoEntry)
      BY <1>7 DEF NotBound, PendingLookup, table_vars, call_vars
    <2>3. path' \in Seq(Hops)
      BY <1>0, <2>1, <2>2, PathGrows
    <2>4. LookupTyped' /\ BindingsKeep'
      BY <1>0, <2>2, <2>3 DEF LookupTyped, BindingsKeep, Pending, Holds
    <2>5. WantIsBounded' /\ PathIsBounded'
      BY <2>2 DEF WantIsBounded, PathIsBounded
    <2> QED  BY <2>4, <2>5 DEF LookupInv
  <1>8. CASE FollowType
    <2>1. /\ Found \in EntryTypes /\ Found.to.type \in Types
          /\ Within(Found.to.type, Found.type)
          /\ Shared => Within(Found.type, want.type)
      BY <1>8, FoundKeeps DEF FollowType
    <2>2. /\ UNCHANGED <<stage, bind_map, calls, context, request, answer>> /\ Pending
          /\ want' = Found.to /\ Step(Found) /\ answer = <<>>
      BY <1>8 DEF FollowType, Readable, PendingLookup, Pending, table_vars, call_vars
    <2>3. path' \in Seq(Hops) /\ want' \in Targets
      BY <1>0, <2>1, <2>2, PathGrows DEF EntryTypes
    <2>4. Shared' => \A i \in 1..Len(path') : Within(path'[i].entry.type, request'[1].type)
      BY <2>1, <2>2, HopKeepsPath
    <2>5. LookupTyped' /\ BindingsKeep'
      BY <1>0, <2>1, <2>2, <2>3 DEF LookupTyped, BindingsKeep, Pending, Holds
    <2>6. PathIsBounded'
      BY <2>4 DEF PathIsBounded
    <2>7. WantIsBounded'
      BY <1>0, <2>1, <2>2 DEF WantIsBounded, Shared, Within
    <2> QED  BY <2>5, <2>6, <2>7 DEF LookupInv
  <1>9. CASE Read
    <2>1. Found \in EntryTypes /\ (Shared => Within(Found.type, want.type))
      BY <1>9, FoundKeeps DEF Read
    <2>2. /\ UNCHANGED <<stage, bind_map, calls, context, request, want>> /\ Pending
          /\ answer' = <<Found>> /\ Step(Found)
      BY <1>9 DEF Read, Readable, PendingLookup, table_vars, call_vars
    <2>3. path' \in Seq(Hops)
      BY <1>0, <2>1, <2>2, PathGrows
    <2>4. Shared' => \A i \in 1..Len(path') : Within(path'[i].entry.type, request'[1].type)
      BY <2>1, <2>2, HopKeepsPath
    <2>5. LookupTyped' /\ BindingsKeep'
      BY <1>0, <2>2, <2>3 DEF LookupTyped, BindingsKeep, Pending, Holds
    <2>6. WantIsBounded' /\ PathIsBounded'
      BY <2>2, <2>4 DEF WantIsBounded, PathIsBounded
    <2> QED  BY <2>5, <2>6 DEF LookupInv
  <1>10. CASE Return
    <2>1. /\ UNCHANGED <<stage, bind_map, calls>>
          /\ request' = <<>> /\ context' = <<>> /\ want' = NoTarget
          /\ path' = <<>> /\ answer' = <<>>
      BY <1>10 DEF Return, table_vars
    <2>2. LookupTyped' /\ BindingsKeep'
      BY <1>0, <2>1, NoTargetTyped DEF LookupTyped, BindingsKeep
    <2>3. WantIsBounded' /\ PathIsBounded'
      BY <2>1 DEF WantIsBounded, PathIsBounded, Shared
    <2> QED  BY <2>2, <2>3 DEF LookupInv
  <1>11. CASE UNCHANGED lookup_vars
    <2>1. UNCHANGED <<stage, bind_map, calls, context, request, want, path, answer>>
      BY <1>11 DEF lookup_vars, table_vars, call_vars
    <2> QED  BY <1>0, <2>1 DEF LookupInv, LookupTyped, BindingsKeep, WantIsBounded,
                               PathIsBounded, Shared, Holds
  <1> QED
    BY <1>1, <1>2, <1>3, <1>4, <1>5, <1>6, <1>7, <1>8, <1>9, <1>10, <1>11 DEF LookupNext

\* The invariant holds in every module and of every request.
THEOREM LookupInvariant == LookupSpec => []LookupInv
  <1> QED  BY LookupInitHolds, LookupStepHolds, PTL DEF LookupSpec

\* No chain of bindings and conversions lets a requester write to what was
\* const anywhere on the way, or hands a copy to who asked for the object
\* (TableEntryReader).
THEOREM ConstIsKept == LookupSpec => []ConstAndIdentityKept
  <1>1. LookupInv => ConstAndIdentityKept
    BY DEF LookupInv, LookupTyped, PathIsBounded, Shared, Within, ConstAndIdentityKept
  <1> QED  BY <1>1, LookupInvariant, PTL
-----------------------------------------------------------------------------
(* Annotations *)

\* GetAt() gives an annotation of the kind if there is one (AtUtil::GetAt).
LEMMA GetAtFinds ==
    ASSUME NEW ats \in Seq(Labels \cup {Assisted}), NEW kind, NEW default
    PROVE  LET of == {i \in 1..Len(ats) : AnnotationType(ats[i]) = kind}
           IN IF of = {} THEN GetAt(ats, kind, default) = default
              ELSE \E i \in of : GetAt(ats, kind, default) = ats[i]
  <1> DEFINE I == {i \in 1..Len(ats) : AnnotationType(ats[i]) = kind}
             found == SelectInSeq(ats, LAMBDA a : AnnotationType(a) = kind)
  <1>1. Len(ats) \in Nat
    OBVIOUS
  <1>2. found = IF I # {} THEN Min(I) ELSE 0
    BY DEF SelectInSeq
  <1>3. I # {} => Min(I) \in I
    BY <1>1, FirstIndex
  <1>4. GetAt(ats, kind, default) = IF found = 0 THEN default ELSE ats[found]
    BY DEF GetAt
  <1>5. 0 \notin I
    BY <1>1
  <1> HIDE DEF found, I
  <1>6. IF I = {} THEN GetAt(ats, kind, default) = default
        ELSE \E i \in I : GetAt(ats, kind, default) = ats[i]
    BY <1>2, <1>3, <1>4, <1>5
  <1> QED  BY <1>6 DEF I

LabelOf(ats) == GetAt(ats, "Label", "NotLabelled")

\* An id of the bind table says which annotations are written, but not in what
\* order: with one label at most, the label stands for all but Assisted
\* ("the order of label and Assisted annotation does not matter").
LEMMA IdSaysWhatIsWritten ==
    ASSUME NEW a \in Annotated
    PROVE  /\ InjectTypeOf(a.ats) = IF Assisted \in ToSet(a.ats) THEN Assisted
                                    ELSE "NormalInject"
           /\ LabelOf(a.ats) # Assisted
           /\ \A l : l \in ToSet(a.ats) /\ l # Assisted <=>
                       l = LabelOf(a.ats) /\ l # "NotLabelled"
  <1> DEFINE ats == a.ats
             I == {i \in 1..Len(ats) : AnnotationType(ats[i]) = "InjectType"}
             L == {i \in 1..Len(ats) : AnnotationType(ats[i]) = "Label"}
  <1>1. /\ ats \in Seq(Labels \cup {Assisted}) /\ Len(ats) \in Nat
        /\ DOMAIN ats = 1..Len(ats)
        /\ \A i \in 1..Len(ats) : ats[i] \in Labels \cup {Assisted}
    BY AnnotatedTyped
  <1>2. \A i, j \in 1..Len(ats) : i # j => ats[i] = Assisted \/ ats[j] = Assisted
    <2>1. \A i, j \in DOMAIN ats : i # j => {ats[i], ats[j]} \cap {Assisted} # {}
      BY DEF Annotated
    <2> HIDE DEF ats
    <2> QED  BY <1>1, <2>1
  <1>3. /\ Assisted \notin Labels /\ Assisted # "NormalInject" /\ Assisted # "NotLabelled"
        /\ "NotLabelled" \notin Labels
    BY LookupAssumption
  <1>4. \A l : l \in ToSet(ats) <=> \E i \in 1..Len(ats) : ats[i] = l
    BY <1>1 DEF ToSet
  <1>5. /\ \A i \in 1..Len(ats) : i \in I <=> ats[i] = Assisted
        /\ \A i \in 1..Len(ats) : i \in L <=> ats[i] # Assisted
    BY DEF AnnotationType
  <1>6. /\ IF I = {} THEN InjectTypeOf(ats) = "NormalInject"
           ELSE \E i \in I : InjectTypeOf(ats) = ats[i]
        /\ IF L = {} THEN LabelOf(ats) = "NotLabelled"
           ELSE \E i \in L : LabelOf(ats) = ats[i]
    BY <1>1, GetAtFinds DEF InjectTypeOf, LabelOf
  <1>7. I \subseteq 1..Len(ats) /\ L \subseteq 1..Len(ats)
    OBVIOUS
  <1> HIDE DEF I, L, ats
  <1>8. InjectTypeOf(ats) = IF Assisted \in ToSet(ats) THEN Assisted ELSE "NormalInject"
    BY <1>4, <1>5, <1>6, <1>7
  <1>9. CASE L = {}
    <2>1. LabelOf(ats) = "NotLabelled" /\ LabelOf(ats) # Assisted
      BY <1>3, <1>6, <1>9
    <2>2. \A l \in ToSet(ats) : l = Assisted
      BY <1>4, <1>5, <1>9
    <2> QED  BY <1>8, <2>1, <2>2 DEF ats
  <1>10. CASE L # {}
    <2>1. PICK i \in L : LabelOf(ats) = ats[i]
      BY <1>6, <1>10
    <2>2. i \in 1..Len(ats) /\ ats[i] \in Labels /\ ats[i] # Assisted
          /\ ats[i] # "NotLabelled"
      BY <1>1, <1>3, <1>5, <1>7, <2>1
    <2>3. \A j \in 1..Len(ats) : ats[j] # Assisted => ats[j] = ats[i]
      BY <1>2, <2>2
    <2>4. \A l : l \in ToSet(ats) /\ l # Assisted <=> l = ats[i]
      BY <1>4, <2>2, <2>3
    <2> QED  BY <1>8, <2>1, <2>2, <2>4 DEF ats
  <1> QED  BY <1>9, <1>10
-----------------------------------------------------------------------------
(* What was written *)

\* A type and annotations that a handler takes.
Written ==
    {a \in Annotated : /\ a.type.cat = "value" => ~a.type.const
                       /\ a.type.spec \in Internals => Assisted \notin ToSet(a.ats)}

IdOf(c) == BindId(c.lhs.ats, c.lhs.type)

TableAsWritten ==
    \A id \in BindIds :
      \/ bind_map[id] = NoEntry /\ \A i \in 1..Len(calls) : IdOf(calls[i]) # id
      \/ \E i \in 1..Len(calls) :
           /\ IdOf(calls[i]) = id /\ \A j \in 1..(i - 1) : IdOf(calls[j]) # id
           /\ bind_map[id] = EntryOf(calls[i], i)

ArgumentsAsWritten ==
    /\ params \in ParameterLists \cup {<<>>}
    /\ Len(context) = Len(params)
    /\ \A i \in 1..Len(params) :
         /\ context[i].id = FactoryArgsBindId(params[i].ats, params[i].type)
         /\ context[i].entry = Entry("argument", ActualType(params[i].type), i)

RequestAsWritten ==
    /\ request \in {<<>>} \cup {<<w>> : w \in Annotated}
    /\ request # <<>> => want \in Written
    /\ answer # <<>> => path # <<>>

ErrorsCounted == num_errors \in 0..Len(calls)

PathConverts ==
    Holds /\ (answer # <<>> => answer[1] # NoEntry) =>
      \A i \in 1..Len(path) : Converts(path[i].want.type, path[i].entry.type)

RefusedAsListed ==
    stage = "unconvertible" =>
      path # <<>> /\ ~Converts(path[Len(path)].want.type, path[Len(path)].entry.type)

\* What a hop from w must have found.
ReadsRight(w, e) ==
    IF Assisted \in ToSet(w.ats)
    THEN e.how \in {"argument", "none"} /\ e.n = FirstWrittenAs(w, params, {Assisted})
    ELSE e.how # "argument" /\ e.n = FirstWrittenAs(w, Bindings, {})

WrittenInv ==
    /\ stage \in Stages
    /\ TableAsWritten
    /\ ErrorsCounted
    /\ ArgumentsAsWritten
    /\ RequestAsWritten
    /\ ReadsWhatIsWritten
    /\ PathConverts
    /\ RefusedAsListed

\* a is written for the type and with the annotations of w.
SameAs(a, w, implied) ==
    a.type.spec = w.type.spec /\ ToSet(a.ats) \cup implied = ToSet(w.ats) \cup implied

IsFirst(i, I) == i \in I /\ \A j \in I : i <= j

\* Two ids of the bind table are the same if and only if the same was written.
LEMMA SameIdSameBinding ==
    ASSUME NEW a \in Annotated, NEW w \in Annotated,
           Assisted \notin ToSet(a.ats), Assisted \notin ToSet(w.ats)
    PROVE  BindId(a.ats, a.type) = BindId(w.ats, w.type) <=> SameAs(a, w, {})
  <1>1. BindId(a.ats, a.type) = BindId(w.ats, w.type) <=>
          a.type.spec = w.type.spec /\ LabelOf(a.ats) = LabelOf(w.ats)
    BY IdSaysWhatIsWritten DEF BindId, LabelOf
  <1>2. LabelOf(a.ats) = LabelOf(w.ats) <=> ToSet(a.ats) = ToSet(w.ats)
    BY IdSaysWhatIsWritten
  <1> QED  BY <1>1, <1>2 DEF SameAs

\* Likewise for a parameter, Assisted by default, and a type that is Assisted.
LEMMA SameIdSameParameter ==
    ASSUME NEW a \in Annotated, NEW w \in Annotated, Assisted \in ToSet(w.ats)
    PROVE  FactoryArgsBindId(a.ats, a.type) = BindId(w.ats, w.type) <=>
             SameAs(a, w, {Assisted})
  <1>1. GetAt(a.ats, "InjectType", Assisted) = Assisted
    <2>1. \A x : AnnotationType(x) = "InjectType" => x = Assisted
      BY DEF AnnotationType
    <2>2. a.ats \in Seq(Labels \cup {Assisted})
      BY AnnotatedTyped
    <2> QED  BY <2>1, <2>2, GetAtFinds
  <1>2. InjectTypeOf(w.ats) = Assisted
    BY IdSaysWhatIsWritten
  <1>3. FactoryArgsBindId(a.ats, a.type) = BindId(w.ats, w.type) <=>
          a.type.spec = w.type.spec /\ LabelOf(a.ats) = LabelOf(w.ats)
    BY <1>1, <1>2 DEF BindId, FactoryArgsBindId, LabelOf
  <1>4. LabelOf(a.ats) = LabelOf(w.ats) <=>
          ToSet(a.ats) \cup {Assisted} = ToSet(w.ats) \cup {Assisted}
    BY IdSaysWhatIsWritten
  <1> QED  BY <1>3, <1>4 DEF SameAs

\* The search of the property gives the first match, or 0.
LEMMA FirstWritten ==
    ASSUME NEW w, NEW list, NEW implied, Len(list) \in Nat
    PROVE  LET I == {i \in 1..Len(list) : SameAs(list[i], w, implied)}
           IN /\ I = {} => FirstWrittenAs(w, list, implied) = 0
              /\ \A i : IsFirst(i, I) => FirstWrittenAs(w, list, implied) = i
  <1> DEFINE I == {i \in 1..Len(list) : SameAs(list[i], w, implied)}
             found == FirstWrittenAs(w, list, implied)
  <1>1. found = IF I # {} THEN Min(I) ELSE 0
    BY DEF FirstWrittenAs, SelectInSeq, SameAs
  <1>2. I # {} => IsFirst(Min(I), I)
    BY FirstIndex DEF IsFirst
  <1>3. I \subseteq Nat
    OBVIOUS
  <1> HIDE DEF I, found
  <1>4. ASSUME NEW i, IsFirst(i, I)
        PROVE  found = i
    <2>1. i \in I /\ IsFirst(Min(I), I) /\ found = Min(I)
      BY <1>1, <1>2, <1>4 DEF IsFirst
    <2>2. i <= Min(I) /\ Min(I) <= i /\ i \in Nat /\ Min(I) \in Nat
      BY <1>3, <1>4, <2>1 DEF IsFirst
    <2> QED  BY <2>1, <2>2
  <1>5. (I = {} => found = 0) /\ \A i : IsFirst(i, I) => found = i
    BY <1>1, <1>4
  <1> QED  BY <1>5 DEF I, found

\* LocalContext::FindEntry() finds the first parameter with the id, or nothing.
LEMMA FirstArgument ==
    ASSUME NEW id, Len(context) \in Nat
    PROVE  LET I == {i \in 1..Len(context) : context[i].id = id}
           IN IF I = {} THEN FindArgument(id) = NoEntry
              ELSE \E i : IsFirst(i, I) /\ FindArgument(id) = context[i].entry
  <1> DEFINE I == {i \in 1..Len(context) : context[i].id = id}
             found == SelectInSeq(context, LAMBDA c : c.id = id)
  <1>1. found = IF I # {} THEN Min(I) ELSE 0
    BY DEF SelectInSeq
  <1>2. I # {} => IsFirst(Min(I), I)
    BY FirstIndex DEF IsFirst
  <1>3. FindArgument(id) = ArgumentAt(found)
    BY DEF FindArgument
  <1>4. 0 \notin I
    OBVIOUS
  <1> HIDE DEF I, found
  <1>5. IF I = {} THEN FindArgument(id) = NoEntry
        ELSE \E i : IsFirst(i, I) /\ FindArgument(id) = context[i].entry
    BY <1>1, <1>2, <1>3, <1>4 DEF ArgumentAt, IsFirst
  <1> QED  BY <1>5 DEF I

\* The annotations do not depend on the type they come with.
LEMMA OtherType ==
    ASSUME NEW a \in Annotated, NEW t \in Types
    PROVE  [ats |-> a.ats, type |-> t] \in Annotated
  <1> DEFINE b == [ats |-> a.ats, type |-> t]
             A == UNION {[1..k -> Labels \cup {Assisted}] : k \in 0..2}
             Fine(ats) == \A i, j \in DOMAIN ats : i # j =>
                            {ats[i], ats[j]} \cap {Assisted} # {} /\ ats[i] # ats[j]
  <1>1. Annotated = {x \in [ats : A, type : Types] : Fine(x.ats)}
    BY DEF Annotated
  <1> HIDE DEF A, Fine
  <1>2. b \in [ats : A, type : Types] /\ b.ats = a.ats
    BY <1>1
  <1> HIDE DEF b
  <1>3. b \in Annotated
    BY <1>1, <1>2
  <1> QED  BY <1>3 DEF b

\* The entry of a binder call: its number, the class it is written for, and no
\* const value; the type that Bind() leads to can be asked for.
LEMMA EntryOfWritten ==
    ASSUME NEW c \in Calls, NEW n \in Nat
    PROVE  /\ EntryOf(c, n).how = How[c.op] /\ EntryOf(c, n).n = n
           /\ EntryOf(c, n).how \notin {"none", "argument"}
           /\ EntryOf(c, n).type \in Types
           /\ EntryOf(c, n).type.spec = c.lhs.type.spec
           /\ EntryOf(c, n).type.cat = "value" => ~EntryOf(c, n).type.const
           /\ EntryOf(c, n).how = "type" => EntryOf(c, n).to \in Written
  <1>1. /\ c.op \in DOMAIN How /\ c.lhs \in Annotated /\ c.rhs \in Annotated
        /\ c.lhs.type.cat = "value" /\ c.rhs.type.cat = "value"
        /\ How[c.op] = "type" /\ c.rhs.type.spec \in Internals =>
             c.op = "Bind" /\ Assisted \notin ToSet(c.rhs.ats)
    BY LookupAssumption
  <1>2. /\ How[c.op] \notin {"none", "argument"}
        /\ How[c.op] = "type" => c.op \in {"Bind", "BindValueType"}
    BY <1>1 DEF How
  <1>3. c.lhs.type \in Types /\ c.rhs.type \in Types
    BY <1>1, AnnotatedTyped
  <1> DEFINE bound(t) == BoundType(c.op, t)
  <1>4. ASSUME NEW t \in Types
        PROVE  /\ bound(t) \in Types /\ bound(t).spec = t.spec
               /\ bound(t).cat = "value" => ~bound(t).const
    BY DEF BoundType, ActualType, Reference, Pointer, Types
  <1> HIDE DEF bound
  <1> DEFINE made == Entry(How[c.op], bound(c.lhs.type), n)
             target == [ats |-> c.rhs.ats, type |-> bound(c.rhs.type)]
  <1>5. /\ made.how = How[c.op] /\ made.type = bound(c.lhs.type) /\ made.n = n
        /\ made = [how |-> How[c.op], type |-> bound(c.lhs.type), n |-> n, to |-> NoTarget]
    BY DEF Entry
  <1>6. How[c.op] = "type" => target \in Written
    <2>1. target \in Annotated
      BY <1>1, <1>3, <1>4, OtherType
    <2> QED  BY <2>1, <1>1, <1>3, <1>4 DEF Written
  <1>7. EntryOf(c, n) = IF made.how # "type" THEN made ELSE [made EXCEPT !.to = target]
    BY DEF EntryOf, bound
  <1> HIDE DEF made, target
  <1>8. /\ EntryOf(c, n).how = How[c.op] /\ EntryOf(c, n).type = bound(c.lhs.type)
        /\ EntryOf(c, n).n = n
        /\ How[c.op] = "type" => EntryOf(c, n).to = target
    BY <1>5, <1>7
  <1> QED  BY <1>2, <1>3, <1>4, <1>6, <1>8

\* No entry: no number and no type.
LEMMA NoEntryIs == NoEntry.how = "none" /\ NoEntry.n = 0 /\ NoEntry.type = NoType
  BY DEF NoEntry, Entry

\* What is found was written for what is wanted, with the annotations of what is
\* wanted, before anything else that was.
LEMMA FoundAsWritten ==
    ASSUME LookupInv, WrittenInv, Pending, want.type.spec \notin Internals
    PROVE  /\ ReadsRight(want, Found)
           /\ Found.type # NoType =>
                /\ Found.type \in Types /\ Found.type.spec = want.type.spec
                /\ Found.type.cat = "value" => ~Found.type.const
           /\ Found.how = "type" => Found.to \in Written
  <1> DEFINE id == BindId(want.ats, want.type)
  <1>1. want \in Written /\ want \in Annotated
    BY DEF Pending, WrittenInv, RequestAsWritten, Written
  <1>2. IsAssisted <=> Assisted \in ToSet(want.ats)
    <2>1. Assisted # "NormalInject"
      BY LookupAssumption
    <2> QED  BY <1>1, <2>1, IdSaysWhatIsWritten DEF IsAssisted
  <1>3. CASE Assisted \in ToSet(want.ats)
    <2>1. Found = FindArgument(id)
      BY <1>2, <1>3 DEF Found
    <2>2. /\ params \in Seq(Annotated) /\ Len(params) \in Nat /\ Len(context) = Len(params)
          /\ \A i \in 1..Len(params) : params[i] \in Annotated /\ params[i].type \in Types
      <3>1. params \in Seq(Annotated)
        <4>1. ParameterLists \subseteq Seq(Annotated)
          BY LookupAssumption
        <4>2. params \in ParameterLists \/ params = <<>>
          BY DEF WrittenInv, ArgumentsAsWritten
        <4>3. <<>> \in Seq(Annotated)
          OBVIOUS
        <4> QED  BY <4>1, <4>2, <4>3
      <3>2. \A i \in 1..Len(params) : params[i] \in Annotated
        BY <3>1
      <3> QED  BY <3>1, <3>2, AnnotatedTyped DEF WrittenInv, ArgumentsAsWritten
    <2> DEFINE I == {i \in 1..Len(context) : context[i].id = id}
               J == {i \in 1..Len(params) : SameAs(params[i], want, {Assisted})}
    <2>3. I = J
      <3> SUFFICES ASSUME NEW i \in 1..Len(params)
                   PROVE  context[i].id = id <=> SameAs(params[i], want, {Assisted})
        BY <2>2
      <3>1. context[i].id = FactoryArgsBindId(params[i].ats, params[i].type)
        BY DEF WrittenInv, ArgumentsAsWritten
      <3> QED  BY <1>1, <1>3, <2>2, <3>1, SameIdSameParameter
    <2>4. IF I = {} THEN Found = NoEntry
          ELSE \E i : IsFirst(i, I) /\ Found = context[i].entry
      BY <2>1, <2>2, FirstArgument
    <2>5. /\ J = {} => FirstWrittenAs(want, params, {Assisted}) = 0
          /\ \A i : IsFirst(i, J) => FirstWrittenAs(want, params, {Assisted}) = i
      <3> DEFINE A == {Assisted}
                 K == {i \in 1..Len(params) : SameAs(params[i], want, A)}
      <3>1. /\ K = {} => FirstWrittenAs(want, params, A) = 0
            /\ \A i : IsFirst(i, K) => FirstWrittenAs(want, params, A) = i
        <4> HIDE DEF A
        <4> QED  BY <2>2, FirstWritten
      <3>2. J = K
        OBVIOUS
      <3> HIDE DEF J, K
      <3> QED  BY <3>1, <3>2
    <2>6. J \subseteq 1..Len(params) /\ \A i \in J : SameAs(params[i], want, {Assisted})
      OBVIOUS
    <2> HIDE DEF I, J, id
    <2>7. CASE J = {}
      BY <1>3, <2>3, <2>4, <2>5, <2>7, NoEntryIs DEF ReadsRight
    <2>8. CASE J # {}
      <3>1. PICK i : IsFirst(i, J) /\ Found = context[i].entry
        BY <2>3, <2>4, <2>8
      <3>2. i \in 1..Len(params) /\ SameAs(params[i], want, {Assisted})
        BY <2>6, <3>1 DEF IsFirst
      <3>3. Found = Entry("argument", ActualType(params[i].type), i)
        BY <3>1, <3>2 DEF WrittenInv, ArgumentsAsWritten
      <3>4. Found.how = "argument" /\ Found.n = i /\ Found.type = ActualType(params[i].type)
        BY <3>3 DEF Entry
      <3>5. ReadsRight(want, Found)
        BY <1>3, <2>5, <3>1, <3>4 DEF ReadsRight
      <3>6. /\ Found.type \in Types /\ Found.type.spec = want.type.spec
            /\ Found.type.cat = "value" => ~Found.type.const
        BY <2>2, <3>2, <3>4 DEF ActualType, Types, SameAs
      <3> QED  BY <3>4, <3>5, <3>6
    <2> QED  BY <2>7, <2>8
  <1>4. CASE Assisted \notin ToSet(want.ats)
    <2>1. calls \in Seq(Calls) /\ Len(calls) \in Nat
      BY DEF LookupInv, LookupTyped
    <2>2. ASSUME NEW i \in 1..Len(calls)
          PROVE  calls[i] \in Calls /\ (IdOf(calls[i]) = id <=> SameAs(Bindings[i], want, {}))
      <3>1. /\ calls[i] \in Calls /\ calls[i].lhs \in Annotated
            /\ Assisted \notin ToSet(calls[i].lhs.ats)
        BY <2>1, LookupAssumption
      <3>2. Bindings[i] = calls[i].lhs
        BY DEF Bindings
      <3> QED  BY <1>1, <1>4, <3>1, <3>2, SameIdSameBinding DEF IdOf
    <2>3. Len(Bindings) = Len(calls)
      BY <2>1 DEF Bindings
    <2> DEFINE J == {i \in 1..Len(Bindings) : SameAs(Bindings[i], want, {})}
    <2>4. /\ J = {} => FirstWrittenAs(want, Bindings, {}) = 0
          /\ \A i : IsFirst(i, J) => FirstWrittenAs(want, Bindings, {}) = i
      BY <2>1, <2>3, FirstWritten
    <2>5. id \in BindIds
      <3>1. want.ats \in Seq(Labels \cup {Assisted}) /\ want.type.spec \in Specs
        BY <1>1, AnnotatedTyped DEF Types
      <3> QED  BY <1>2, <1>4, <3>1, AnnotationsTyped DEF IsAssisted, BindId, BindIds
    <2>6. CASE /\ bind_map[id] = NoEntry
               /\ \A i \in 1..Len(calls) : IdOf(calls[i]) # id
      <3>1. J = {}
        BY <2>2, <2>3, <2>6
      <3>2. FirstWrittenAs(want, Bindings, {}) = 0
        BY <2>4, <3>1
      <3>3. Found \in {NoEntry, DefaultEntry(want.type.spec)}
        BY <1>2, <1>4, <2>6 DEF Found
      <3> DEFINE s == want.type.spec
      <3>4. \/ Found = NoEntry \/ Found = Entry("invalid", NoType, 0)
            \/ s \in Classes /\ Found = Entry("ctor", Pointer(s, FALSE), 0)
        BY <3>3 DEF DefaultEntry
      <3>5. /\ Found.how \in {"none", "invalid", "ctor"} /\ Found.n = 0
            /\ Found.type = NoType \/ (s \in Classes /\ Found.type = Pointer(s, FALSE))
        <4>1. Entry("invalid", NoType, 0).how = "invalid" /\ Entry("invalid", NoType, 0).n = 0
              /\ Entry("invalid", NoType, 0).type = NoType
          BY DEF Entry
        <4>2. \A t : Entry("ctor", t, 0).how = "ctor" /\ Entry("ctor", t, 0).n = 0
                     /\ Entry("ctor", t, 0).type = t
          BY DEF Entry
        <4>3. CASE Found = NoEntry
          BY <4>3, NoEntryIs
        <4>4. CASE Found = Entry("invalid", NoType, 0)
          BY <4>1, <4>4
        <4>5. CASE s \in Classes /\ Found = Entry("ctor", Pointer(s, FALSE), 0)
          BY <4>2, <4>5
        <4> QED  BY <3>4, <4>3, <4>4, <4>5
      <3>6. ReadsRight(want, Found)
        BY <1>4, <3>2, <3>5 DEF ReadsRight
      <3>7. s \in Classes => /\ Pointer(s, FALSE) \in Types /\ Pointer(s, FALSE).spec = s
                             /\ Pointer(s, FALSE).cat = "pointer"
        BY DEF Pointer, Types, Specs
      <3> QED  BY <3>5, <3>6, <3>7
    <2>7. ASSUME NEW i \in 1..Len(calls), IdOf(calls[i]) = id,
                 \A j \in 1..(i - 1) : IdOf(calls[j]) # id,
                 bind_map[id] = EntryOf(calls[i], i)
          PROVE  /\ ReadsRight(want, Found)
                 /\ /\ Found.type \in Types /\ Found.type.spec = want.type.spec
                    /\ Found.type.cat = "value" => ~Found.type.const
                 /\ Found.how = "type" => Found.to \in Written
      <3>1. calls[i] \in Calls /\ i \in Nat /\ SameAs(calls[i].lhs, want, {})
        BY <2>1, <2>2, <2>7 DEF Bindings
      <3> DEFINE e == EntryOf(calls[i], i)
      <3>2. /\ e.how \notin {"none", "argument"} /\ e.n = i
            /\ e.type \in Types /\ e.type.spec = calls[i].lhs.type.spec
            /\ e.type.cat = "value" => ~e.type.const
            /\ e.how = "type" => e.to \in Written
        BY <3>1, EntryOfWritten
      <3> HIDE DEF e
      <3>3. Found = e
        BY <1>2, <1>4, <2>7, <3>2, NoEntryIs DEF Found, e
      <3>4. IsFirst(i, J)
        <4>1. i \in J
          BY <2>2, <2>3, <2>7
        <4>2. ASSUME NEW j \in J  PROVE i <= j
          <5>1. j \in 1..Len(calls) /\ IdOf(calls[j]) = id
            BY <2>2, <2>3
          <5> QED  BY <2>1, <2>7, <5>1
        <4> QED  BY <4>1, <4>2 DEF IsFirst
      <3>5. FirstWrittenAs(want, Bindings, {}) = i
        BY <2>4, <3>4
      <3>6. ReadsRight(want, Found)
        BY <1>4, <3>2, <3>3, <3>5 DEF ReadsRight
      <3> QED  BY <3>1, <3>2, <3>3, <3>6 DEF SameAs
    <2> QED  BY <2>5, <2>6, <2>7 DEF WrittenInv, TableAsWritten
  <1> QED  BY <1>3, <1>4

\* A hop is found right, if the ones before were.
LEMMA HopReads ==
    ASSUME LookupTyped, NEW e \in EntryTypes, Step(e), UNCHANGED <<calls, params>>,
           ReadsWhatIsWritten, ReadsRight(want, e)
    PROVE  ReadsWhatIsWritten'
  <1>1. /\ Len(path) \in Nat /\ Len(path') = Len(path) + 1
        /\ \A i \in 1..Len(path) : path'[i] = path[i]
        /\ path'[Len(path) + 1].entry = e /\ path'[Len(path) + 1].want = want
    BY PathGrows
  <1>2. /\ params' = params /\ Bindings' = Bindings
    BY DEF Bindings
  <1>3. ASSUME NEW i \in 1..Len(path')
        PROVE  ReadsRight(path'[i].want, path'[i].entry)
    <2>1. CASE i \in 1..Len(path)
      BY <1>1, <2>1 DEF ReadsWhatIsWritten, ReadsRight
    <2>2. CASE i = Len(path) + 1
      BY <1>1, <2>2
    <2> QED  BY <1>1, <2>1, <2>2
  <1> QED  BY <1>2, <1>3 DEF ReadsWhatIsWritten, ReadsRight

\* A hop along a listed conversion, if the ones before were.
LEMMA HopConverts ==
    ASSUME LookupTyped, NEW e \in EntryTypes, Step(e), Pending, PathConverts,
           Converts(want.type, e.type)
    PROVE  \A i \in 1..Len(path') : Converts(path'[i].want.type, path'[i].entry.type)
  <1>1. /\ Len(path) \in Nat /\ Len(path') = Len(path) + 1
        /\ \A i \in 1..Len(path) : path'[i] = path[i]
        /\ path'[Len(path) + 1].entry = e /\ path'[Len(path) + 1].want = want
    BY PathGrows
  <1>2. \A i \in 1..Len(path) : Converts(path[i].want.type, path[i].entry.type)
    BY DEF Pending, PathConverts, Holds
  <1> QED  BY <1>1, <1>2

\* Nothing is written and nothing is asked for (Injector::Create).
LEMMA WrittenInitHolds == LookupInit => WrittenInv
  <1> SUFFICES ASSUME LookupInit  PROVE WrittenInv
    OBVIOUS
  <1>1. /\ stage = "configuring" /\ bind_map = [id \in BindIds |-> NoEntry] /\ num_errors = 0
        /\ calls = <<>> /\ params = <<>> /\ context = <<>> /\ request = <<>>
        /\ path = <<>> /\ answer = <<>>
    BY DEF LookupInit
  <1>2. stage \in Stages /\ TableAsWritten /\ ErrorsCounted
    BY <1>1 DEF Stages, TableAsWritten, ErrorsCounted
  <1>3. ArgumentsAsWritten /\ RequestAsWritten
    BY <1>1 DEF ArgumentsAsWritten, RequestAsWritten
  <1>4. ReadsWhatIsWritten /\ PathConverts /\ RefusedAsListed
    BY <1>1 DEF ReadsWhatIsWritten, PathConverts, RefusedAsListed
  <1> QED  BY <1>2, <1>3, <1>4 DEF WrittenInv

\* A call binds an id that none bound before it, or is counted
\* (Binder::AddBindEntry).
LEMMA CallAsWritten ==
    ASSUME LookupInv, WrittenInv, NEW c \in Calls, MakeCall(c)
    PROVE  WrittenInv'
  <1> DEFINE n == Len(calls)
             bound == IdOf(c)
             made == EntryOf(c, n + 1)
  <1>1. /\ UNCHANGED <<stage, params, context, request, want, path, answer>>
        /\ request = <<>> /\ calls' = Append(calls, c)
        /\ path = <<>> /\ answer = <<>> /\ calls \in Seq(Calls)
        /\ stage = "configuring"
    BY DEF MakeCall, call_vars, Between, LookupInv, LookupTyped
  <1>2. /\ n \in Nat /\ Len(calls') = n + 1 /\ calls'[n + 1] = c
        /\ \A i \in 1..n : calls'[i] = calls[i]
    BY <1>1
  <1>3. /\ bind_map[bound] = NoEntry => bind_map' = [bind_map EXCEPT ![bound] = made]
                                        /\ num_errors' = num_errors
        /\ bind_map[bound] # NoEntry => bind_map' = bind_map /\ num_errors' = num_errors + 1
    BY <1>2 DEF MakeCall, IdOf
  <1>4. DOMAIN bind_map = BindIds
    BY DEF LookupInv, LookupTyped
  <1>5. /\ made # NoEntry
        /\ \A i \in 1..n : EntryOf(calls[i], i) # NoEntry
    <2>1. made.how # "none"
      BY <1>2, EntryOfWritten
    <2>2. ASSUME NEW i \in 1..n  PROVE EntryOf(calls[i], i).how # "none"
      <3>1. calls[i] \in Calls /\ i \in Nat
        BY <1>1, <1>2
      <3> QED  BY <3>1, EntryOfWritten
    <2> QED  BY <2>1, <2>2, NoEntryIs
  <1>6. TableAsWritten'
    <2> SUFFICES ASSUME NEW id \in BindIds
                 PROVE  \/ bind_map'[id] = NoEntry
                           /\ \A i \in 1..Len(calls') : IdOf(calls'[i]) # id
                        \/ \E i \in 1..Len(calls') :
                             /\ IdOf(calls'[i]) = id
                             /\ \A j \in 1..(i - 1) : IdOf(calls'[j]) # id
                             /\ bind_map'[id] = EntryOf(calls'[i], i)
      BY DEF TableAsWritten
    <2> HIDE DEF n, bound, made
    <2>1. \/ bind_map[id] = NoEntry /\ \A i \in 1..n : IdOf(calls[i]) # id
          \/ \E i \in 1..n : /\ IdOf(calls[i]) = id /\ \A j \in 1..(i - 1) : IdOf(calls[j]) # id
                             /\ bind_map[id] = EntryOf(calls[i], i)
      BY DEF WrittenInv, TableAsWritten, n
    <2>2. CASE id = bound /\ bind_map[id] = NoEntry
      <3>1. bind_map'[id] = made /\ made = EntryOf(calls'[n + 1], n + 1)
        BY <1>2, <1>3, <1>4, <2>2 DEF made
      <3>2. \A i \in 1..n : IdOf(calls[i]) # id
        BY <1>5, <2>1, <2>2
      <3>3. \A j \in 1..((n + 1) - 1) : IdOf(calls'[j]) # id
        BY <1>2, <3>2
      <3>4. n + 1 \in 1..Len(calls') /\ IdOf(calls'[n + 1]) = id
        BY <1>2, <2>2 DEF bound
      <3> QED  BY <3>1, <3>3, <3>4
    <2>3. CASE id # bound /\ bind_map[id] = NoEntry
      <3>1. bind_map'[id] = NoEntry
        BY <1>3, <1>4, <2>3
      <3>2. \A i \in 1..n : IdOf(calls[i]) # id
        BY <1>5, <2>1, <2>3
      <3>3. \A i \in 1..Len(calls') : IdOf(calls'[i]) # id
        BY <1>2, <2>3, <3>2 DEF bound
      <3> QED  BY <3>1, <3>3
    <2>4. CASE bind_map[id] # NoEntry
      <3>1. bind_map'[id] = bind_map[id]
        BY <1>3, <1>4, <2>4
      <3>2. PICK i \in 1..n : /\ IdOf(calls[i]) = id /\ \A j \in 1..(i - 1) : IdOf(calls[j]) # id
                              /\ bind_map[id] = EntryOf(calls[i], i)
        BY <2>1, <2>4
      <3>3. i \in 1..Len(calls') /\ calls'[i] = calls[i]
            /\ \A j \in 1..(i - 1) : calls'[j] = calls[j]
        BY <1>2
      <3> QED  BY <3>1, <3>2, <3>3
    <2> QED  BY <2>2, <2>3, <2>4
  <1>7. ErrorsCounted'
    <2>1. num_errors \in 0..n
      BY DEF WrittenInv, ErrorsCounted
    <2>2. num_errors' \in {num_errors, num_errors + 1}
      BY <1>3
    <2> QED  BY <1>2, <2>1, <2>2 DEF ErrorsCounted
  <1>8. ArgumentsAsWritten' /\ RequestAsWritten'
    BY <1>1 DEF WrittenInv, ArgumentsAsWritten, RequestAsWritten
  <1>9. ReadsWhatIsWritten' /\ PathConverts' /\ RefusedAsListed' /\ stage' \in Stages
    BY <1>1 DEF WrittenInv, ReadsWhatIsWritten, PathConverts, RefusedAsListed
  <1> QED  BY <1>6, <1>7, <1>8, <1>9 DEF WrittenInv

\* A request starts with what is written, and the context of a factory call has
\* a parameter at each of its places (RealFactory::Get).
LEMMA AskAsWritten ==
    ASSUME LookupInv, WrittenInv, NEW w \in Wants,
           NEW arguments \in ParameterLists \cup {<<>>}, Ask(w, arguments), Holds
    PROVE  WrittenInv'
  <1>1. /\ UNCHANGED <<stage, bind_map, num_errors, calls, path, answer>>
        /\ answer = <<>> /\ path = <<>> /\ request' = <<w>>
        /\ want' = [ats |-> w.ats, type |-> ActualType(w.type)]
        /\ params' = arguments
    BY DEF Ask, table_vars, Between, LookupInv, LookupTyped
  <1>2. /\ w \in Annotated
        /\ w.type.spec \in Internals => Assisted \notin ToSet(w.ats)
    BY LookupAssumption
  <1>3. want' \in Written
    <2>1. ActualType(w.type) \in Types /\ ActualType(w.type).spec = w.type.spec
          /\ (ActualType(w.type).cat = "value" => ~ActualType(w.type).const)
      BY <1>2, AnnotatedTyped DEF ActualType, Types
    <2>2. want' \in Annotated
      BY <1>1, <1>2, <2>1, OtherType
    <2> QED  BY <1>1, <1>2, <2>1, <2>2 DEF Written
  <1>4. RequestAsWritten'
    BY <1>1, <1>2, <1>3 DEF RequestAsWritten
  <1>5. ArgumentsAsWritten'
    <2>1. context' = [i \in 1..Len(arguments) |->
                       [id |-> FactoryArgsBindId(arguments[i].ats, arguments[i].type),
                        entry |-> Entry("argument", ActualType(arguments[i].type), i)]]
      BY DEF Ask
    <2>2. Len(arguments) \in Nat
      <3>1. ParameterLists \subseteq Seq(Annotated)
        BY LookupAssumption
      <3> QED  BY <3>1
    <2>3. Len(context') = Len(arguments)
      BY <2>1, <2>2
    <2>4. \A i \in 1..Len(arguments) :
            /\ context'[i].id = FactoryArgsBindId(arguments[i].ats, arguments[i].type)
            /\ context'[i].entry = Entry("argument", ActualType(arguments[i].type), i)
      BY <2>1
    <2> QED  BY <1>1, <2>3, <2>4 DEF ArgumentsAsWritten
  <1>6. stage' \in Stages /\ TableAsWritten' /\ ErrorsCounted'
    BY <1>1 DEF WrittenInv, TableAsWritten, ErrorsCounted
  <1>7. ReadsWhatIsWritten' /\ PathConverts' /\ RefusedAsListed'
    BY <1>1 DEF WrittenInv, Holds, ReadsWhatIsWritten, PathConverts, RefusedAsListed
  <1> QED  BY <1>4, <1>5, <1>6, <1>7 DEF WrittenInv

\* What a hop has to show: that the entry it reads is the one written, that it
\* is read along a listed conversion if the request goes on, and that it leads
\* to what can be asked for.
LEMMA HopAsWritten ==
    ASSUME LookupInv, WrittenInv, Pending, NEW e \in EntryTypes, Step(e),
           UNCHANGED <<bind_map, num_errors, calls, params, context, request>>,
           ReadsRight(want, e),
           stage' \in Stages, want' \in Written,
           Holds' => UNCHANGED stage,
           Holds' /\ (answer' # <<>> => answer'[1] # NoEntry) =>
             Converts(want.type, e.type),
           stage' = "unconvertible" => ~Converts(want.type, e.type)
    PROVE  WrittenInv'
  <1>1. LookupTyped /\ Holds /\ answer = <<>> /\ PathConverts /\ ReadsWhatIsWritten
    BY DEF LookupInv, WrittenInv, Pending, Holds
  <1>2. /\ path' \in Seq(Hops) /\ Len(path) \in Nat /\ Len(path') = Len(path) + 1
        /\ path'[Len(path) + 1].entry = e /\ path'[Len(path) + 1].want = want
    BY <1>1, PathGrows
  <1>3. TableAsWritten' /\ ErrorsCounted' /\ ArgumentsAsWritten'
    BY DEF WrittenInv, TableAsWritten, ErrorsCounted, ArgumentsAsWritten
  <1>4. path' # <<>>
    BY <1>2
  <1>5. RequestAsWritten'
    BY <1>4 DEF WrittenInv, RequestAsWritten
  <1>6. ReadsWhatIsWritten'
    BY <1>1, HopReads
  <1>7. PathConverts'
    BY <1>1, HopConverts DEF PathConverts
  <1>8. RefusedAsListed'
    BY <1>2, <1>4 DEF RefusedAsListed
  <1> QED  BY <1>3, <1>5, <1>6, <1>7, <1>8 DEF WrittenInv

\* An entry that may be read is read if and only if its conversion is listed.
LEMMA ReadIfListed ==
    ASSUME LookupInv, WrittenInv, Readable
    PROVE  ReadAs(want.type, Found.type) # {} <=> Converts(want.type, Found.type)
  <1>1. Pending /\ want.type.spec \notin Internals /\ Found.type # NoType
    BY DEF Readable, PendingLookup
  <1>2. /\ Found.type \in Types /\ Found.type.spec = want.type.spec
        /\ Found.type.cat = "value" => ~Found.type.const
    BY <1>1, FoundAsWritten
  <1>3. want.type \in Types /\ (want.type.cat = "value" => ~want.type.const)
    BY <1>1, AnnotatedTyped DEF WrittenInv, RequestAsWritten, Pending, Written
  <1> QED  BY <1>2, <1>3, ConversionsAreTheListed

\* No binding is for an internal type, so no binding was passed over.
LEMMA InternalIsRight ==
    ASSUME LookupInv, WrittenInv, Pending, want.type.spec \in Internals
    PROVE  ReadsRight(want, Entry("internal", want.type, 0))
  <1>1. want \in Written
    BY DEF Pending, WrittenInv, RequestAsWritten
  <1>2. Assisted \notin ToSet(want.ats)
    BY <1>1 DEF Written
  <1>3. calls \in Seq(Calls) /\ Len(calls) \in Nat /\ Len(Bindings) = Len(calls)
    BY DEF LookupInv, LookupTyped, Bindings
  <1> DEFINE J == {i \in 1..Len(Bindings) : SameAs(Bindings[i], want, {})}
  <1>4. J = {}
    <2> SUFFICES ASSUME NEW i \in 1..Len(calls)  PROVE ~SameAs(Bindings[i], want, {})
      BY <1>3
    <2>1. calls[i] \in Calls /\ Bindings[i] = calls[i].lhs
      BY <1>3 DEF Bindings
    <2>2. calls[i].lhs.type.spec \notin Internals
      BY <2>1, LookupAssumption
    <2> QED  BY <2>1, <2>2 DEF SameAs
  <1>5. FirstWrittenAs(want, Bindings, {}) = 0
    BY <1>3, <1>4, FirstWritten
  <1> QED  BY <1>2, <1>5 DEF ReadsRight, Entry

\* Every step of a module or of a request keeps to what is written.
LEMMA WrittenStepHolds ==
    LookupInv /\ WrittenInv /\ [LookupNext]_lookup_vars => WrittenInv'
  <1> SUFFICES ASSUME LookupInv, WrittenInv, [LookupNext]_lookup_vars  PROVE WrittenInv'
    OBVIOUS
  <1>0. /\ LookupTyped
        /\ request # <<>> => want \in Written /\ want.type \in Types
    BY DEF LookupInv, LookupTyped, WrittenInv, RequestAsWritten
  <1>1. ASSUME NEW c \in Calls, MakeCall(c)
        PROVE  WrittenInv'
    BY <1>1, CallAsWritten
  <1>2. CASE FinishCreate
    <2>1. /\ UNCHANGED <<bind_map, num_errors, calls, params, context, request, want, path, answer>>
          /\ path = <<>> /\ stage' \in {"live", "refused"}
      BY <1>0, <1>2 DEF FinishCreate, Between, call_vars, LookupTyped
    <2>2. TableAsWritten' /\ ErrorsCounted' /\ ArgumentsAsWritten' /\ RequestAsWritten'
      BY <2>1 DEF WrittenInv, TableAsWritten, ErrorsCounted, ArgumentsAsWritten, RequestAsWritten
    <2>3. stage' \in Stages /\ ReadsWhatIsWritten' /\ PathConverts' /\ RefusedAsListed'
      BY <2>1 DEF Stages, ReadsWhatIsWritten, PathConverts, RefusedAsListed
    <2> QED  BY <2>2, <2>3 DEF WrittenInv
  <1>3. ASSUME NEW w \in Wants, Get(w) \/ GetBoundInstance(w)
        PROVE  WrittenInv'
    BY <1>3, AskAsWritten DEF Get, GetBoundInstance, Holds
  <1>4. ASSUME NEW w \in Wants, NEW p \in ParameterLists, CallFactory(w, p)
        PROVE  WrittenInv'
    BY <1>4, AskAsWritten DEF CallFactory, Holds
  <1>5. CASE GetInternal
    <2> DEFINE e == Entry("internal", want.type, 0)
    <2>1. /\ UNCHANGED <<stage, bind_map, num_errors, calls, params, context, request, want>>
          /\ Pending /\ want.type.spec \in Internals /\ Step(e)
      BY <1>5 DEF GetInternal, table_vars, call_vars
    <2>2. want \in Written /\ want.type \in Types
      BY <1>0, <2>1 DEF Pending
    <2>3. e \in EntryTypes
      BY <2>2, EntryTyped DEF EntryKinds
    <2>4. e.type = want.type
      BY DEF Entry
    <2>5. ReadsRight(want, e)
      BY <2>1, InternalIsRight
    <2> HIDE DEF e
    <2>6. Converts(want.type, e.type)
      BY <2>4 DEF Converts
    <2>7. stage' \in Stages /\ stage' # "unconvertible"
      BY <2>1 DEF WrittenInv, Pending
    <2> QED  BY <2>1, <2>2, <2>3, <2>5, <2>6, <2>7, HopAsWritten
  <1>6. CASE Missing \/ NotAnInstance \/ CanNotConvert \/ ReadMismatched \/ NotBound
             \/ FollowType \/ Read
    <2>1. Pending /\ want.type.spec \notin Internals
      BY <1>6 DEF Missing, NotAnInstance, CanNotConvert, ReadMismatched, NotBound, FollowType,
                  Read, Readable, PendingLookup
    <2>2. /\ want \in Written /\ want.type \in Types
          /\ stage \in {"configuring", "live"} /\ {"configuring", "live"} \subseteq Stages
      BY <1>0, <2>1 DEF Pending, Stages
    <2>3. Found \in EntryTypes
      BY <1>0, <2>2, FoundTyped DEF LookupInv
    <2>4. /\ ReadsRight(want, Found)
          /\ Found.how = "type" => Found.to \in Written
      BY <2>1, FoundAsWritten
    <2>5. CASE Missing \/ NotAnInstance \/ CanNotConvert \/ ReadMismatched
      <3>1. PICK how \in {"missing", "not_instance", "unconvertible", "undefined"} :
              /\ Stops(how)
              /\ how = "unconvertible" => Readable /\ ReadAs(want.type, Found.type) = {}
        BY <2>5 DEF Missing, NotAnInstance, CanNotConvert, ReadMismatched
      <3>2. /\ UNCHANGED <<bind_map, num_errors, calls, params, context, request, want>>
            /\ Step(Found) /\ stage' = how
        BY <3>1 DEF Stops, call_vars
      <3>3. ~Holds' /\ stage' \in Stages
        BY <3>2 DEF Holds, Stages
      <3>4. stage' = "unconvertible" => ~Converts(want.type, Found.type)
        BY <3>1, <3>2, ReadIfListed
      <3> QED  BY <2>1, <2>2, <2>3, <2>4, <3>2, <3>3, <3>4, HopAsWritten
    <2>6. CASE NotBound
      <3>1. /\ UNCHANGED <<stage, bind_map, num_errors, calls, params, context, request, want>>
            /\ Step(Found) /\ answer' = <<NoEntry>>
        BY <2>6 DEF NotBound, table_vars, call_vars
      <3>2. answer' # <<>> /\ answer'[1] = NoEntry
        BY <3>1
      <3> QED  BY <2>1, <2>2, <2>3, <2>4, <3>1, <3>2, HopAsWritten
    <2>7. CASE FollowType \/ Read
      <3>1. /\ UNCHANGED <<stage, bind_map, num_errors, calls, params, context, request>>
            /\ Step(Found) /\ Readable /\ ReadAs(want.type, Found.type) # {}
            /\ want' \in {want, Found.to} /\ (want' # want => Found.how = "type")
        BY <2>7 DEF FollowType, Read, table_vars, call_vars
      <3>2. Converts(want.type, Found.type)
        BY <3>1, ReadIfListed
      <3>3. want' \in Written
        BY <2>2, <2>4, <3>1
      <3> QED  BY <2>1, <2>2, <2>3, <2>4, <3>1, <3>2, <3>3, HopAsWritten
    <2> QED  BY <1>6, <2>5, <2>6, <2>7
  <1>7. CASE Return
    <2>1. /\ UNCHANGED <<stage, bind_map, num_errors, calls>>
          /\ request' = <<>> /\ params' = <<>> /\ context' = <<>>
          /\ path' = <<>> /\ answer' = <<>> /\ Holds
      BY <1>0, <1>7 DEF Return, table_vars, LookupTyped
    <2>2. TableAsWritten' /\ ErrorsCounted' /\ ArgumentsAsWritten' /\ RequestAsWritten'
      BY <2>1 DEF WrittenInv, TableAsWritten, ErrorsCounted, ArgumentsAsWritten, RequestAsWritten
    <2>3. stage' \in Stages /\ ReadsWhatIsWritten' /\ PathConverts' /\ RefusedAsListed'
      BY <2>1 DEF WrittenInv, Holds, ReadsWhatIsWritten, PathConverts, RefusedAsListed
    <2> QED  BY <2>2, <2>3 DEF WrittenInv
  <1>8. CASE UNCHANGED lookup_vars
    <2>1. UNCHANGED <<stage, bind_map, num_errors, calls, params, context, request, want,
                      path, answer>>
      BY <1>8 DEF lookup_vars, table_vars, call_vars
    <2>2. TableAsWritten' /\ ErrorsCounted' /\ ArgumentsAsWritten' /\ RequestAsWritten'
      BY <2>1 DEF WrittenInv, TableAsWritten, ErrorsCounted, ArgumentsAsWritten, RequestAsWritten
    <2>3. ReadsWhatIsWritten' /\ PathConverts' /\ RefusedAsListed'
      BY <2>1 DEF WrittenInv, Holds, ReadsWhatIsWritten, Bindings, PathConverts, RefusedAsListed
    <2> QED  BY <2>1, <2>2, <2>3 DEF WrittenInv
  <1> QED  BY <1>1, <1>2, <1>3, <1>4, <1>5, <1>6, <1>7, <1>8 DEF LookupNext

\* Every entry of the table and of a context is there because of the call or
\* the parameter it was written for, and every hop keeps to that.
THEOREM WrittenInvariant == LookupSpec => []WrittenInv
  <1>1. LookupInit => LookupInv /\ WrittenInv
    BY LookupInitHolds, WrittenInitHolds
  <1>2. LookupInv /\ WrittenInv /\ [LookupNext]_lookup_vars => LookupInv' /\ WrittenInv'
    BY LookupStepHolds, WrittenStepHolds
  <1> QED  BY <1>1, <1>2, PTL DEF LookupSpec

\* Each hop of a request reads the first binding written for its type and label
\* or, for Assisted, the first such parameter, in whatever order the annotations
\* are written, and a default entry only if there is none (AtUtil::GetAt,
\* InjectorUtil::GetBindId, BindTable::FindEntry, LocalContext::FindEntry).
THEOREM RequestsReadWhatIsWritten == LookupSpec => []ReadsWhatIsWritten
  <1>1. WrittenInv => ReadsWhatIsWritten
    BY DEF WrittenInv
  <1> QED  BY <1>1, WrittenInvariant, PTL

\* A request is answered along listed conversions, and refused only for one
\* that is not listed (TableEntryReader::Get).
THEOREM RefusedIfUnlisted == LookupSpec => []RefusedOnlyIfUnlisted
  <1>1. LookupInv /\ WrittenInv => RefusedOnlyIfUnlisted
    BY DEF LookupInv, LookupTyped, WrittenInv, PathConverts, RefusedAsListed,
           RefusedOnlyIfUnlisted, Last
  <1> QED  BY <1>1, LookupInvariant, WrittenInvariant, PTL

\* Type correctness of bindings, contexts and requests.
THEOREM LookupTypeCorrect == LookupSpec => []LookupTypeOK
  <1>1. ASSUME LookupInv, WrittenInv
        PROVE  LookupTypeOK
    <2>1. /\ DOMAIN bind_map = BindIds /\ calls \in Seq(Calls) /\ Len(calls) \in Nat
      BY <1>1 DEF LookupInv, LookupTyped
    <2>2. ASSUME NEW id \in BindIds
          PROVE  \/ bind_map[id] = NoEntry
                 \/ /\ bind_map[id].type \in Types /\ bind_map[id].n \in 1..Len(calls)
                    /\ ~(bind_map[id].type.cat = "value" /\ bind_map[id].type.const)
      <3>1. CASE bind_map[id] # NoEntry
        <4>1. PICK i \in 1..Len(calls) : bind_map[id] = EntryOf(calls[i], i)
          BY <1>1, <3>1 DEF WrittenInv, TableAsWritten
        <4>2. calls[i] \in Calls /\ i \in Nat
          BY <2>1
        <4> QED  BY <4>1, <4>2, EntryOfWritten
      <3> QED  BY <3>1
    <2>3. /\ stage \in Stages /\ num_errors \in 0..Len(calls)
          /\ params \in ParameterLists \cup {<<>>} /\ Len(context) = Len(params)
          /\ request \in {<<>>} \cup {<<w>> : w \in Annotated}
          /\ answer # <<>> => path # <<>>
      BY <1>1 DEF WrittenInv, ErrorsCounted, ArgumentsAsWritten, RequestAsWritten
    <2> QED  BY <2>1, <2>2, <2>3 DEF LookupTypeOK
  <1> QED  BY <1>1, LookupInvariant, WrittenInvariant, PTL
=============================================================================
