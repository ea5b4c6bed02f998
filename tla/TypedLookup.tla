----------------------------- MODULE TypedLookup -----------------------------
(***************************************************************************)
(* From the type a requester writes down to the entry that answers: how    *)
(* At<> annotations become an id (InjectType, Label, type specifier), which *)
(* inject handler looks the id up and where, and which conversion          *)
(* TableEntryReader makes from the type of the entry to the type asked for. *)
(* Resolution.tla takes all of that as given and models the calls around it.*)
(*                                                                         *)
(* Most of this code runs in the compiler. A Type stands for a C++ type of  *)
(* one of the shapes T, T*, T& with or without const; what the compiler     *)
(* rejects is not among the inputs.                                        *)
(***************************************************************************)
EXTENDS Integers, SequencesExt

CONSTANTS
    Classes,        \* classes with GUICPP_INJECT_CTOR or GUICPP_DEFINE
    Abstract,       \* classes with GUICPP_INJECTABLE
    Primitives,     \* types that are neither classes nor unions
    Internals,      \* Injector and the factories
    Labels,         \* classes derived from Label
    Assisted,
    Calls,          \* binder calls a module may make
    ParameterLists, \* parameter types of the factories
    Wants,          \* what constructors and users ask for
    MaxCalls        \* bound: binder calls of one module

Specs == Classes \cup Abstract \cup Primitives \cup Internals
Types == [spec : Specs, cat : {"value", "pointer", "reference"}, const : BOOLEAN]

Value(s) == [spec |-> s, cat |-> "value", const |-> FALSE]
Pointer(s, const) == [spec |-> s, cat |-> "pointer", const |-> const]
Reference(s, const) == [spec |-> s, cat |-> "reference", const |-> const]

\* At<A1, A2, T>, At<A1, T> and plain T: one annotation of a kind at most.
Annotated ==
    {a \in [ats : UNION {[1..n -> Labels \cup {Assisted}] : n \in 0..2}, type : Types] :
       \A i, j \in DOMAIN a.ats : i # j => {a.ats[i], a.ats[j]} \cap {Assisted} # {}
                                            /\ a.ats[i] # a.ats[j]}

\* The binder's calls, and the entries they make.
How == [Bind |-> "type", BindValueType |-> "type", BindToInstance |-> "instance",
        BindRefToPointed |-> "pointed", BindToValue |-> "value",
        BindToProvider |-> "provider", BindValueToProvider |-> "provider"]

\* What compiles: bindings of values to values, never for Assisted or for an
\* internal type; Bind() only to a pointer that converts to the bound one. No
\* handler takes an internal type that is Assisted or not a pointer, and the
\* default annotations are internal classes, which nobody writes.
ASSUME LookupAssumption ==
    /\ Assisted \notin Labels
    /\ {"NormalInject", "NotLabelled"} \cap (Labels \cup {Assisted}) = {}
    /\ MaxCalls \in Nat
    /\ Wants \subseteq Annotated
    /\ \A w \in Wants : w.type.spec \in Internals =>
         w.type.cat = "pointer" /\ Assisted \notin ToSet(w.ats)
    /\ ParameterLists \subseteq Seq(Annotated)
    /\ \A p \in ParameterLists : \A i \in 1..Len(p) : p[i].type.spec \notin Internals
    /\ \A c \in Calls :
         /\ c.op \in DOMAIN How /\ c.lhs \in Annotated /\ c.rhs \in Annotated
         /\ c.lhs.type.cat = "value" /\ c.rhs.type.cat = "value"
         /\ c.lhs.type.spec \notin Internals
         /\ Assisted \notin ToSet(c.lhs.ats)
         /\ c.op = "Bind" => (c.rhs.type.const => c.lhs.type.const)
         /\ How[c.op] = "type" /\ c.rhs.type.spec \in Internals =>
              c.op = "Bind" /\ Assisted \notin ToSet(c.rhs.ats)

-----------------------------------------------------------------------------
(* Annotations and types (guicpp_at.h, guicpp_util.h, guicpp_types.h)       *)

AnnotationType(a) == IF a = Assisted THEN "InjectType" ELSE "Label"

\* AtUtil::GetAt: the annotation of that kind, wherever it is written.
GetAt(ats, lookup, default) ==
    LET i == SelectInSeq(ats, LAMBDA a : AnnotationType(a) = lookup)
    IN IF i = 0 THEN default ELSE ats[i]

\* Mutant of ActualType: const stays.
ActualType_KeepsConst(type) == type

\* AtUtil::GetTypes::ActualType: remove_cv drops the const of a value only.
ActualType(type) ==
    IF type.cat = "value" THEN [type EXCEPT !.const = FALSE] ELSE type

InjectTypeOf(ats) == GetAt(ats, "InjectType", "NormalInject")

\* The id in the bind table, LabelHelper<NormalInject, Label, TypeSpecifier>,
\* and the one in a list of factory parameters, which are Assisted by default.
\* Neither has the shape of the type in it.
BindId(ats, type) ==
    <<InjectTypeOf(ats), GetAt(ats, "Label", "NotLabelled"), type.spec>>
FactoryArgsBindId(ats, type) ==
    <<GetAt(ats, "InjectType", Assisted), GetAt(ats, "Label", "NotLabelled"),
      type.spec>>

-----------------------------------------------------------------------------
(* Entries *)

NoType == [spec |-> "none", cat |-> "none", const |-> FALSE]
NoTarget == [ats |-> <<>>, type |-> NoType]
Entry(how, type, n) == [how |-> how, type |-> type, n |-> n, to |-> NoTarget]
NoEntry == Entry("none", NoType, 0)

\* The type a binder call binds: ArgType*, ArgType& or ActualType.
BoundType(op, type) ==
    IF op \in {"BindValueType", "BindToValue", "BindValueToProvider"}
    THEN ActualType(type)
    ELSE IF op = "BindRefToPointed" THEN Reference(type.spec, type.const)
    ELSE Pointer(type.spec, type.const)

\* What the binder call with number n allocates.
EntryOf(call, n) ==
    LET entry == Entry(How[call.op], BoundType(call.op, call.lhs.type), n)
    IN IF entry.how # "type" THEN entry
       ELSE [entry EXCEPT !.to = [ats |-> call.rhs.ats,
                                  type |-> BoundType(call.op, call.rhs.type)]]

\* GuicppGetDefaultEntry(): a new object, whatever the label.
DefaultEntry(s) ==
    IF s \in Classes THEN Entry("ctor", Pointer(s, FALSE), 0)
    ELSE IF s \in Abstract THEN Entry("invalid", NoType, 0) ELSE NoEntry

VARIABLES
    stage,      \* of the injector, or how the process ended
    bind_map,   \* the bind table, by id
    num_errors,
    calls,      \* history: the binder calls made
    params,     \* parameter types of the factory call, and
    context,    \* the LocalContext made for it
    request,    \* the type asked for, <<>> between requests
    want,       \* the type to be found next
    path,       \* history: what was wanted and the entry found, hop by hop
    answer      \* <<>>, or the entry that answers

table_vars == <<stage, bind_map, num_errors, calls>>
call_vars == <<params, context, request>>
lookup_vars == <<table_vars, call_vars, want, path, answer>>

Stages == {"configuring", "live",
           "refused",        \* the module has errors
           "missing", "not_instance", "unconvertible",  \* fatal requests
           "undefined"}      \* an entry read as what it is not
BindIds == {"NormalInject"} \X (Labels \cup {"NotLabelled"}) \X Specs

\* Type invariant: no entry is of a const value type, a refused binding is
\* counted once, and every answer has an entry behind it.
LookupTypeOK ==
    /\ stage \in Stages
    /\ DOMAIN bind_map = BindIds
    /\ \A id \in BindIds : LET e == bind_map[id] IN
         e = NoEntry \/ (e.type \in Types /\ e.n \in 1..Len(calls)
                         /\ ~(e.type.cat = "value" /\ e.type.const))
    /\ calls \in Seq(Calls) /\ num_errors \in 0..Len(calls)
    /\ params \in ParameterLists \cup {<<>>} /\ Len(context) = Len(params)
    /\ request \in {<<>>} \cup {<<w>> : w \in Annotated}
    /\ answer # <<>> => path # <<>>

LookupInit ==
    /\ stage = "configuring"
    /\ bind_map = [id \in BindIds |-> NoEntry]
    /\ num_errors = 0 /\ calls = <<>>
    /\ params = <<>> /\ context = <<>> /\ request = <<>>
    /\ want = NoTarget /\ path = <<>> /\ answer = <<>>

-----------------------------------------------------------------------------
(* Module::Configure() and Injector::Create()                               *)

Between == request = <<>>

\* A binder call: the first binding of an id stays, another is counted.
MakeCall(c) ==
    /\ stage = "configuring" /\ Between
    /\ Len(calls) < MaxCalls
    /\ calls' = Append(calls, c)
    /\ LET id == BindId(c.lhs.ats, c.lhs.type) IN
         IF bind_map[id] = NoEntry
         THEN /\ bind_map' = [bind_map EXCEPT ![id] = EntryOf(c, Len(calls'))]
              /\ UNCHANGED num_errors
         ELSE UNCHANGED bind_map /\ num_errors' = num_errors + 1
    /\ UNCHANGED <<stage, call_vars, want, path, answer>>

FinishCreate ==
    /\ stage = "configuring" /\ Between
    /\ stage' = IF num_errors = 0 THEN "live" ELSE "refused"
    /\ UNCHANGED <<bind_map, num_errors, calls, call_vars, want, path, answer>>

-----------------------------------------------------------------------------
(* Requests *)

Ask(w, arguments) ==
    /\ Between
    /\ request' = <<w>>
    /\ want' = [ats |-> w.ats, type |-> ActualType(w.type)]
    /\ params' = arguments
    /\ context' = [i \in 1..Len(arguments) |->
                     [id |-> FactoryArgsBindId(arguments[i].ats, arguments[i].type),
                      entry |-> Entry("argument", ActualType(arguments[i].type), i)]]
    /\ UNCHANGED <<table_vars, path, answer>>

\* Injector::Get<w>() by the user, with an empty context, or the Get() of a
\* factory whose annotations and return type make up w.
Get(w) == stage = "live" /\ Ask(w, <<>>)
CallFactory(w, arguments) == stage = "live" /\ Ask(w, arguments)

\* Binder::GetBoundInstance<T>() in Configure().
GetBoundInstance(w) ==
    /\ stage = "configuring"
    /\ w.type.cat = "pointer" /\ w.type.spec \notin Internals
    /\ Assisted \notin ToSet(w.ats)
    /\ Ask(w, <<>>)

ArgumentAt(i) == IF i = 0 THEN NoEntry ELSE context[i].entry

\* Mutant of FindArgument: from the last parameter down.
FindArgument_Last(id) == ArgumentAt(SelectLastInSeq(context, LAMBDA c : c.id = id))

\* LocalContext::FindEntry: the first parameter with that id.
FindArgument(id) == ArgumentAt(SelectInSeq(context, LAMBDA c : c.id = id))

\* The inject handler that GuicppGetInjectHandler() selects, and what it finds.
IsAssisted == InjectTypeOf(want.ats) = Assisted
Found ==
    IF IsAssisted THEN FindArgument(BindId(want.ats, want.type))
    ELSE IF bind_map[BindId(want.ats, want.type)] # NoEntry \/ stage = "configuring"
         THEN bind_map[BindId(want.ats, want.type)]
         ELSE DefaultEntry(want.type.spec)

Pending == request # <<>> /\ answer = <<>> /\ stage \in {"configuring", "live"}
PendingLookup == Pending /\ want.type.spec \notin Internals

\* Mutant of Overloads: a pointer to const is read as a plain one.
Overloads_LosesConst(s) ==
    {<<Pointer(s, FALSE), Pointer(s, TRUE), Pointer(s, TRUE)>>,
     <<Pointer(s, TRUE), Pointer(s, FALSE), Pointer(s, FALSE)>>,
     <<Reference(s, TRUE), Reference(s, FALSE), Reference(s, FALSE)>>,
     <<Value(s), Reference(s, FALSE), Reference(s, FALSE)>>}

\* Mutant of Overloads: const is not added to a reference.
Overloads_KeepsReference(s) ==
    {<<Pointer(s, TRUE), Pointer(s, FALSE), Pointer(s, FALSE)>>,
     <<Value(s), Reference(s, FALSE), Reference(s, FALSE)>>,
     <<Value(s), Reference(s, TRUE), Reference(s, FALSE)>>}

\* TableEntryReader::GetAndCast: <<requested, bound, the type the entry is then
\* taken to have>>, for each overload that is not the fatal one.
Overloads(s) ==
    {<<Pointer(s, TRUE), Pointer(s, FALSE), Pointer(s, FALSE)>>,
     <<Reference(s, TRUE), Reference(s, FALSE), Reference(s, FALSE)>>,
     <<Value(s), Reference(s, FALSE), Reference(s, FALSE)>>,
     <<Value(s), Reference(s, TRUE), Reference(s, FALSE)>>}

ReadAs(requested, bound) ==
    IF requested = bound THEN {bound}
    ELSE {o[3] : o \in {x \in Overloads(requested.spec) :
                          x[1] = requested /\ x[2] = bound}}

Step(e) == path' = Append(path, [want |-> want, entry |-> e])

Stops(how) ==
    /\ Step(Found)
    /\ stage' = how
    /\ UNCHANGED <<bind_map, num_errors, calls, call_vars, want, answer>>

\* InternalTypeInjectHandler: the injector itself, or a new RealFactory.
GetInternal ==
    /\ Pending
    /\ want.type.spec \in Internals
    /\ answer' = <<Entry("internal", want.type, 0)>>
    /\ Step(Entry("internal", want.type, 0))
    /\ UNCHANGED <<table_vars, call_vars, want>>

\* No parameter, no binding of a primitive type, or an InvalidEntry.
Missing ==
    /\ PendingLookup /\ stage = "live"
    /\ Found.type = NoType
    /\ Stops("missing")

\* GetBoundInstance() of a type that is not bound.
NotBound ==
    /\ PendingLookup /\ stage = "configuring"
    /\ Found = NoEntry
    /\ answer' = <<NoEntry>>
    /\ Step(NoEntry)
    /\ UNCHANGED <<table_vars, call_vars, want>>

\* ... or that is bound to something else than an instance.
NotAnInstance ==
    /\ PendingLookup /\ stage = "configuring"
    /\ Found # NoEntry /\ Found.how # "instance"
    /\ Stops("not_instance")

\* The entry may be read: GetBoundInstance() reads instances only.
Readable ==
    PendingLookup /\ Found.type # NoType /\ (stage = "live" \/ Found.how = "instance")

CanNotConvert ==
    /\ Readable
    /\ ReadAs(want.type, Found.type) = {}
    /\ Stops("unconvertible")

\* GetBoundType() casts the entry to a type it does not have. Without RTTI the
\* cast is unchecked and the read goes through a class the entry is not.
ReadMismatched ==
    /\ Readable
    /\ \E t \in ReadAs(want.type, Found.type) : t # Found.type
    /\ Stops("undefined")

\* BindToTypeEntry::Get(): on to the type on the right-hand side.
FollowType ==
    /\ Readable
    /\ Found.how = "type"
    /\ ReadAs(want.type, Found.type) # {}
    /\ Step(Found)
    /\ want' = Found.to
    /\ UNCHANGED <<table_vars, call_vars, answer>>

\* Any other entry's Get() is an object or a value. A mismatched read may well
\* give the same.
Read ==
    /\ Readable
    /\ Found.how # "type"
    /\ ReadAs(want.type, Found.type) # {}
    /\ Step(Found)
    /\ answer' = <<Found>>
    /\ UNCHANGED <<table_vars, call_vars, want>>

Return ==
    /\ answer # <<>>
    /\ request' = <<>> /\ params' = <<>> /\ context' = <<>>
    /\ want' = NoTarget /\ path' = <<>> /\ answer' = <<>>
    /\ UNCHANGED table_vars

LookupNext ==
    \/ \E c \in Calls : MakeCall(c)
    \/ FinishCreate
    \/ \E w \in Wants : Get(w) \/ GetBoundInstance(w)
    \/ \E w \in Wants, p \in ParameterLists : CallFactory(w, p)
    \/ GetInternal
    \/ Missing
    \/ NotBound
    \/ NotAnInstance
    \/ CanNotConvert
    \/ ReadMismatched
    \/ FollowType
    \/ Read
    \/ Return

LookupSpec == LookupInit /\ [][LookupNext]_lookup_vars

-----------------------------------------------------------------------------
(* Properties *)

\* The first element of `list` written for the same type with the same
\* annotations as w, in whatever order, `implied` ones included; 0 if none.
FirstWrittenAs(w, list, implied) ==
    SelectInSeq(list, LAMBDA a :
      /\ a.type.spec = w.type.spec
      /\ ToSet(a.ats) \cup implied = ToSet(w.ats) \cup implied)

Bindings == [i \in 1..Len(calls) |-> calls[i].lhs]

\* "the order of label and Assisted annotation does not matter"
\* (guicpp_annotations.h), the shape of the type does not matter either, and
\* nothing else does: each hop of a request, along chains of Bind(), reads the
\* first binding written for the type and label wanted or, for Assisted, the
\* first parameter, and a default entry only when there is no binding.
ReadsWhatIsWritten ==
    \A i \in 1..Len(path) :
      LET w == path[i].want
          e == path[i].entry
      IN IF Assisted \in ToSet(w.ats)
         THEN e.how \in {"argument", "none"} /\ e.n = FirstWrittenAs(w, params, {Assisted})
         ELSE e.how # "argument" /\ e.n = FirstWrittenAs(w, Bindings, {})

\* What the comments of TableEntryReader list: const may be added to a pointer
\* or a reference, and a reference, const or not, may be read as a value.
Converts(requested, bound) ==
    \/ requested.cat = bound.cat /\ (bound.const => requested.const)
    \/ requested.cat = "value" /\ bound.cat = "reference"

\* A request is answered only along listed conversions, and is never refused
\* for one that is listed (TableEntryReader::Get).
RefusedOnlyIfUnlisted ==
    /\ answer # <<>> /\ answer[1] # NoEntry =>
         \A i \in 1..Len(path) : Converts(path[i].want.type, path[i].entry.type)
    /\ stage = "unconvertible" => ~Converts(Last(path).want.type, Last(path).entry.type)

\* A pointer or a reference that is handed out is to the object that was bound
\* or passed, never to a copy, and no chain of bindings lets the requester
\* write to an object that was const anywhere on the way.
ConstAndIdentityKept ==
    answer # <<>> /\ answer[1] # NoEntry /\ request[1].type.cat # "value" =>
      \A i \in 1..Len(path) :
        /\ path[i].entry.type.cat = request[1].type.cat
        /\ path[i].entry.type.const => request[1].type.const

\* "4. const-reference to value" is among the conversions TableEntryReader is
\* said to allow: no listed conversion reads an entry through a wrong type.
ListedConversionsAreSafe == stage # "undefined"
=============================================================================
