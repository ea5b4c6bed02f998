----------------------------- MODULE Resolution -----------------------------
(***************************************************************************)
(* How a request is resolved: InjectorUtil::GetWithContext() dispatches it *)
(* to a handler, the handler reads an entry, and the entry answers or      *)
(* asks for what it needs in turn. The model has the C++ call stack of one *)
(* thread, with a frame per request in progress and per call of a          *)
(* factory's Get(), and the LocalContext each frame was handed.            *)
(*                                                                         *)
(* A key is what a TypeId stands for: a type together with a label. What   *)
(* the compiler decides (which handler, which conversions) is settled      *)
(* before the program runs and is part of the bindings.                    *)
(***************************************************************************)
EXTENDS Naturals, Sequences, FiniteSets, SequencesExt

CONSTANTS
    Keys,
    Bindings,    \* the applications considered: functions from Keys to entries
    MaxRequests, \* bound: requests the user makes
    MaxCalls     \* bound: calls of factories

Wants == [how : {"normal", "assisted"}, key : Keys]

\* What FindEntry() or, if there is none, the default entry of the type is.

\* BindToFunction, the default entry of GUICPP_INJECT_CTOR: a constructor, with
\* its arguments and those of the factories among them that its body calls.
CtorEntries == [kind : {"ctor"}, args : Seq(Wants), calls : SUBSET Keys]

\* BindToProviderEntry, with the arguments of the user's Get(), whose body may
\* call factories as well.
ProviderEntries == [kind : {"provider"}, args : Seq(Wants), calls : SUBSET Keys]

\* BindToTypeEntry: whatever `to` resolves to.
TypeEntries == [kind : {"type"}, to : Wants]

\* BindToProviderEntry over a LazySingletonProvider, whose constructed type is
\* `to`, the same type with the UnScoped label.
SingletonEntries == [kind : {"singleton"}, to : Wants]

\* A factory interface: no entry at all, the handler makes one for `to` with the
\* parameters `params`.
FactoryEntries == [kind : {"factory"}, to : Wants, params : SUBSET Keys]

\* An entry that holds its value.
InstanceEntries == [kind : {"instance"}]

\* Neither bound nor constructible: the InvalidEntry of GUICPP_INJECTABLE.
InvalidEntries == [kind : {"none"}]

Entries ==
    CtorEntries \cup ProviderEntries \cup TypeEntries \cup SingletonEntries
      \cup FactoryEntries \cup InstanceEntries \cup InvalidEntries

\* What is requested before a request for k is answered. To make a factory
\* nothing is; what it makes is requested where it is called.
NeededBy(b, k) ==
    CASE b[k].kind \in {"ctor", "provider"} ->
           ToSet(b[k].args) \cup {b[f].to : f \in b[k].calls}
      [] b[k].kind \in {"type", "singleton"} -> {b[k].to}
      [] b[k].kind \in {"factory", "instance", "none"} -> {}

\* Requests that lead back to themselves recurse without end in this library. A
\* factory of the very type that owns it is in order, unless a constructor or a
\* provider on the way calls it.
Acyclic(b) ==
    \A group \in (SUBSET Keys) \ {{}} :
      \E k \in group : \A w \in NeededBy(b, k) :
        w.how = "normal" => w.key \notin group

CallsFactories(b) ==
    \A k \in Keys : b[k].kind \in {"ctor", "provider"} =>
      \A f \in b[k].calls : b[f].kind = "factory"

ASSUME ResolutionAssumption ==
    /\ \A b \in Bindings : DOMAIN b = Keys /\ \A k \in Keys : b[k] \in Entries
    /\ \A b \in Bindings : CallsFactories(b) /\ Acyclic(b)
    /\ IsFiniteSet(Keys)
    /\ MaxRequests \in Nat /\ MaxCalls \in Nat

VARIABLES
    entry,    \* the application's bindings, fixed from Init on
    stack,
    objects,  \* what new, a provider or a factory handler has made, in order
    single,   \* LazySingletonProvider::object_
    handed,   \* what requests of the program's own code have returned, in order
    requests, \* requests the user may still make
    calls,    \* factory calls so far
    status    \* "ok", "aborted" (a GUICPP_LOG_(FATAL)) or "corrupt"

vars == <<entry, stack, objects, single, handed, requests, calls, status>>

\* A LocalContext: the call of Get() whose parameters it lists, and those.
EmptyContext == [call |-> 0, params |-> {}]

\* Values. A pointer is as good as what it points to.
New(n) == [from |-> "new", id |-> n]
Argument(call, key) == [from |-> "argument", call |-> call, key |-> key]
BoundInstance(key) == [from |-> "bound", key |-> key]
NoValue == [from |-> "nowhere"]

Steps == {"look",    \* the handler is about to look the request up
          "args",    \* arguments are requested, one nested frame each
          "wait",    \* waits for the frame above, whose value it passes on
          "call",    \* the same, in a factory's Get()
          "body",    \* the constructor or the provider's Get() runs
          "invoked", \* BindToProviderEntry is about to return the value
          "return"}  \* returns its value

Frame(want, context, step) ==
    [want |-> want, context |-> context, step |-> step,
     got |-> <<>>,    \* arguments resolved so far, by position
     at |-> 0,        \* the position under way
     value |-> NoValue]

TopFrame == Last(stack)
EntryOfTop == entry[TopFrame.want.key]
Running(step) == status = "ok" /\ stack # <<>> /\ TopFrame.step = step
ReplaceTop(f) == stack' = Append(Front(stack), f)
Answer(v) == ReplaceTop([TopFrame EXCEPT !.value = v, !.step = "return"])
Push(waiting, f) == stack' = Front(stack) \o <<waiting, f>>

Init ==
    /\ entry \in Bindings
    /\ stack = <<>>
    /\ objects = <<>>
    /\ single = [k \in Keys |-> NoValue]
    /\ handed = <<>>
    /\ requests = MaxRequests
    /\ calls = 0
    /\ status = "ok"

-----------------------------------------------------------------------------
(* The two ways in.                                                         *)

\* Injector::Get(), with an empty context.
Get(k) ==
    /\ status = "ok"
    /\ stack = <<>>
    /\ requests > 0
    /\ requests' = requests - 1
    /\ stack' = <<Frame([how |-> "normal", key |-> k], EmptyContext, "look")>>
    /\ UNCHANGED <<entry, objects, single, handed, calls, status>>

\* RealFactory::Get(): the parameters become a LocalContext, in which the
\* factory's return type is requested. Whoever owns the factory may call it:
\* the body that was given it, if it is one to call it, or the user later on.
CallFactory(n) ==
    /\ status = "ok"
    /\ calls < MaxCalls
    /\ n \in 1..Len(objects)
    /\ objects[n].made = "factory"
    /\ \/ stack = <<>>
       \/ /\ Running("body")
          /\ New(n) \in ToSet(TopFrame.got)
          /\ objects[n].key \in EntryOfTop.calls
    /\ LET e == entry[objects[n].key]
           here == [call |-> calls + 1, params |-> e.params] IN
         stack' = stack \o <<Frame(e.to, here, "call"), Frame(e.to, here, "look")>>
    /\ calls' = calls + 1
    /\ UNCHANGED <<entry, objects, single, handed, requests, status>>

-----------------------------------------------------------------------------
(* The handlers and the entries.                                            *)

\* AssistedInjectHandler: the value is the parameter of that key.
LookupAssisted ==
    /\ Running("look")
    /\ TopFrame.want.how = "assisted"
    /\ TopFrame.want.key \in TopFrame.context.params
    /\ Answer(Argument(TopFrame.context.call, TopFrame.want.key))
    /\ UNCHANGED <<entry, objects, single, handed, requests, calls, status>>

\* NormalInjectHandler and MissingDefaultTypeHandler: the bind table, then the
\* default entry of the type. The context is handed on, never looked at.
LookupNormal(kinds) ==
    /\ Running("look")
    /\ TopFrame.want.how = "normal"
    /\ EntryOfTop.kind \in kinds

\* CreateHelpers::Create() and ProviderGet::GetInvoker() need arguments first.
BeginArguments ==
    /\ LookupNormal({"ctor", "provider"})
    /\ ReplaceTop([TopFrame EXCEPT !.step = "args",
                                   !.got = [i \in DOMAIN EntryOfTop.args |-> NoValue]])
    /\ UNCHANGED <<entry, objects, single, handed, requests, calls, status>>

ReadInstance ==
    /\ LookupNormal({"instance"})
    /\ Answer(BoundInstance(TopFrame.want.key))
    /\ UNCHANGED <<entry, objects, single, handed, requests, calls, status>>

\* Mutant of FollowType: the context is not handed on.
FollowType_DropsContext ==
    /\ LookupNormal({"type"})
    /\ Push([TopFrame EXCEPT !.step = "wait"],
            Frame(EntryOfTop.to, EmptyContext, "look"))
    /\ UNCHANGED <<entry, objects, single, handed, requests, calls, status>>

FollowType ==
    /\ LookupNormal({"type"})
    /\ Push([TopFrame EXCEPT !.step = "wait"],
            Frame(EntryOfTop.to, TopFrame.context, "look"))
    /\ UNCHANGED <<entry, objects, single, handed, requests, calls, status>>

\* LazySingletonProvider::Get(), when the instance exists.
ReadSingleton ==
    /\ LookupNormal({"singleton"})
    /\ single[TopFrame.want.key] # NoValue
    /\ ReplaceTop([TopFrame EXCEPT !.value = single[TopFrame.want.key],
                                   !.step = "invoked"])
    /\ UNCHANGED <<entry, objects, single, handed, requests, calls, status>>

\* Mutant of CreateSingleton: the context of the request is handed on.
CreateSingleton_HandsOnContext ==
    /\ LookupNormal({"singleton"})
    /\ single[TopFrame.want.key] = NoValue
    /\ Push([TopFrame EXCEPT !.step = "wait"],
            Frame(EntryOfTop.to, TopFrame.context, "look"))
    /\ UNCHANGED <<entry, objects, single, handed, requests, calls, status>>

\* Mutant of CreateSingleton: runs on every request, as without the once.
CreateSingleton_EveryTime ==
    /\ LookupNormal({"singleton"})
    /\ Push([TopFrame EXCEPT !.step = "wait"],
            Frame(EntryOfTop.to, EmptyContext, "look"))
    /\ UNCHANGED <<entry, objects, single, handed, requests, calls, status>>

\* Mutant of CreateSingleton: asks for the type without the UnScoped label, and
\* so for the singleton itself.
CreateSingleton_Unlabelled ==
    /\ LookupNormal({"singleton"})
    /\ single[TopFrame.want.key] = NoValue
    /\ Push([TopFrame EXCEPT !.step = "wait"],
            Frame(TopFrame.want, EmptyContext, "look"))
    /\ UNCHANGED <<entry, objects, single, handed, requests, calls, status>>

\* ... and when it does not: injector_->Get(), with a context of its own.
CreateSingleton ==
    /\ LookupNormal({"singleton"})
    /\ single[TopFrame.want.key] = NoValue
    /\ Push([TopFrame EXCEPT !.step = "wait"],
            Frame(EntryOfTop.to, EmptyContext, "look"))
    /\ UNCHANGED <<entry, objects, single, handed, requests, calls, status>>

\* InternalTypeInjectHandler::GetHelper(FactoryBase*): a new RealFactory.
MakeFactory ==
    /\ LookupNormal({"factory"})
    /\ objects' = Append(objects, [key |-> TopFrame.want.key, made |-> "factory",
                                   args |-> <<>>, holds |-> {}])
    /\ Answer(New(Len(objects) + 1))
    /\ UNCHANGED <<entry, single, handed, requests, calls, status>>

\* Nothing to instantiate, or no such factory parameter: fatal.
MissingBinding ==
    /\ \/ LookupNormal({"none"})
       \/ /\ Running("look")
          /\ TopFrame.want.how = "assisted"
          /\ TopFrame.want.key \notin TopFrame.context.params
    /\ status' = "aborted"
    /\ UNCHANGED <<entry, stack, objects, single, handed, requests, calls>>

\* Mutant of NextArgument: positions are counted from one too many.
NextArgument_OffByOne ==
    /\ Running("args")
    /\ \E i \in DOMAIN TopFrame.got :
         /\ TopFrame.got[i] = NoValue
         /\ Push([TopFrame EXCEPT !.at = i + 1],
                 Frame(EntryOfTop.args[i], TopFrame.context, "look"))
    /\ UNCHANGED <<entry, objects, single, handed, requests, calls, status>>

\* The arguments of one call expression are evaluated in any order.
NextArgument ==
    /\ Running("args")
    /\ \E i \in DOMAIN TopFrame.got :
         /\ TopFrame.got[i] = NoValue
         /\ Push([TopFrame EXCEPT !.at = i],
                 Frame(EntryOfTop.args[i], TopFrame.context, "look"))
    /\ UNCHANGED <<entry, objects, single, handed, requests, calls, status>>

\* All arguments are there. An object holds on to what it was given, and so to
\* the factory arguments held by that.
EnterBody ==
    /\ Running("args")
    /\ NoValue \notin ToSet(TopFrame.got)
    /\ LET given == ToSet(TopFrame.got)
           through == UNION {objects[v.id].holds : v \in {g \in given : g.from = "new"}} IN
         objects' = Append(objects,
                      [key |-> TopFrame.want.key, made |-> EntryOfTop.kind,
                       args |-> TopFrame.got,
                       holds |-> through \cup {g \in given : g.from = "argument"}])
    /\ ReplaceTop([TopFrame EXCEPT !.step = "body", !.value = New(Len(objects) + 1)])
    /\ UNCHANGED <<entry, single, handed, requests, calls, status>>

\* The body is done: a constructed object is returned as it is, what a
\* provider's Get() returned goes through InvokeGet().
LeaveBody ==
    /\ Running("body")
    /\ ReplaceTop([TopFrame EXCEPT !.got = <<>>, !.at = 0,
                     !.step = IF EntryOfTop.kind = "provider" THEN "invoked"
                              ELSE "return"])
    /\ UNCHANGED <<entry, objects, single, handed, requests, calls, status>>

\* AbstractProvider::InvokeGet() has no return statement. Unoptimised builds
\* happen to leave the value in the return register; otherwise the behaviour
\* is undefined and nothing more can be said of the program.
InvokeGetReturns ==
    /\ Running("invoked")
    /\ ReplaceTop([TopFrame EXCEPT !.step = "return"])
    /\ UNCHANGED <<entry, objects, single, handed, requests, calls, status>>

InvokeGetRunsOff ==
    /\ Running("invoked")
    /\ status' = "corrupt"
    /\ UNCHANGED <<entry, stack, objects, single, handed, requests, calls>>

\* The top frame's value goes to the frame below it, or to the user.
Below == stack[Len(stack) - 1]
ReplaceTwo(f) == stack' = Append(SubSeq(stack, 1, Len(stack) - 2), f)
ReturnsInto(step) == Running("return") /\ Len(stack) > 1 /\ Below.step = step
AnswersSingleton(f) ==
    f.step = "wait" /\ f.want.how = "normal" /\ entry[f.want.key].kind = "singleton"

ReturnToUser ==
    /\ Running("return")
    /\ Len(stack) = 1
    /\ stack' = <<>>
    /\ handed' = Append(handed, TopFrame.value)
    /\ UNCHANGED <<entry, objects, single, requests, calls, status>>

\* Mutant of ReturnAsArgument: arguments of the same key share one value.
ReturnAsArgument_Shared ==
    /\ ReturnsInto("args")
    /\ LET args == entry[Below.want.key].args IN
         ReplaceTwo([Below EXCEPT !.at = 0,
           !.got = [i \in DOMAIN args |-> IF args[i] = args[Below.at]
                                          THEN TopFrame.value ELSE @[i]]])
    /\ UNCHANGED <<entry, objects, single, handed, requests, calls, status>>

ReturnAsArgument ==
    /\ ReturnsInto("args")
    /\ ReplaceTwo([Below EXCEPT !.got[Below.at] = TopFrame.value, !.at = 0])
    /\ UNCHANGED <<entry, objects, single, handed, requests, calls, status>>

ReturnThrough ==
    /\ ReturnsInto("wait")
    /\ ~AnswersSingleton(Below)
    /\ ReplaceTwo([Below EXCEPT !.value = TopFrame.value, !.step = "return"])
    /\ UNCHANGED <<entry, objects, single, handed, requests, calls, status>>

\* object_ = injector_->Get<At<UnScoped, T*> >(); Get() returns object_.
ReturnToSingleton ==
    /\ ReturnsInto("wait")
    /\ AnswersSingleton(Below)
    /\ single' = [single EXCEPT ![Below.want.key] = TopFrame.value]
    /\ ReplaceTwo([Below EXCEPT !.value = TopFrame.value, !.step = "invoked"])
    /\ UNCHANGED <<entry, objects, handed, requests, calls, status>>

\* RealFactory::Get() returns, to the user or to the body that called it, and
\* its LocalContext is gone. The object is the caller's, to keep or to delete.
ReturnFromCall ==
    /\ ReturnsInto("call")
    /\ stack' = SubSeq(stack, 1, Len(stack) - 2)
    /\ handed' = Append(handed, TopFrame.value)
    /\ UNCHANGED <<entry, objects, single, requests, calls, status>>

-----------------------------------------------------------------------------

\* What the thread does of its own accord once a request is under way.
Progress ==
    \/ LookupAssisted
    \/ BeginArguments
    \/ ReadInstance
    \/ FollowType
    \/ ReadSingleton
    \/ CreateSingleton
    \/ MakeFactory
    \/ MissingBinding
    \/ NextArgument
    \/ EnterBody
    \/ LeaveBody
    \/ InvokeGetReturns
    \/ InvokeGetRunsOff
    \/ ReturnToUser
    \/ ReturnAsArgument
    \/ ReturnThrough
    \/ ReturnToSingleton
    \/ ReturnFromCall

Next ==
    \/ \E k \in Keys : Get(k)
    \/ \E n \in 1..Len(objects) : CallFactory(n)
    \/ Progress

Spec == Init /\ [][Next]_vars

-----------------------------------------------------------------------------
(* Properties *)

\* Type invariant: a frame of Create() or GetInvoker() that waits for an argument
\* waits for one of its own, and every context is that of a call made so far.
TypeOK ==
    /\ entry \in Bindings
    /\ \A i \in 1..Len(stack) :
         /\ stack[i].want \in Wants /\ stack[i].step \in Steps
         /\ stack[i].context.call \in 0..calls
         /\ stack[i].context.params \subseteq Keys
         /\ stack[i].at \in 0..Len(stack[i].got)
         /\ stack[i].at # 0 => i < Len(stack)
    /\ calls \in 0..MaxCalls /\ requests \in 0..MaxRequests
    /\ status \in {"ok", "aborted", "corrupt"}

\* Factory arguments are kept by reference (FactoryArgumentEntry::object_) and
\* "are guaranteed to exist till it returns": every frame's context is that of
\* the innermost factory call that is still on the stack, and a frame under
\* the creation of a singleton has none.
ContextIsInnermostCall ==
    \A i \in 1..Len(stack) :
      LET borders == {j \in 1..i : stack[j].step = "call"
                                   \/ (j < i /\ AnswersSingleton(stack[j]))}
          border == CHOOSE j \in borders : \A k \in borders : k <= j IN
        stack[i].context.call =
          IF borders = {} \/ AnswersSingleton(stack[border]) THEN 0
          ELSE stack[border].context.call

\* A singleton is there for every later request and call: neither it nor
\* anything it was built from holds an argument of a factory call, not even
\* when a factory call was what created it.
SingletonsHoldNoArguments ==
    \A k \in Keys : single[k].from = "new" => objects[single[k].id].holds = {}

\* "This is supposed to be called only once" (LazySingletonProvider::Create()):
\* not even the requests it makes, or a factory called on the way, come back to
\* it, so the instance that is handed out first is never replaced.
SingletonsAreCreatedOnce ==
    [][\A k \in Keys : single[k] # NoValue => single'[k] = single[k]]_vars

\* What Guic++ constructs belongs to whoever asked for it, an object under
\* construction or the program's own code (a constructor that calls a factory
\* included): apart from singletons, no object is given to two owners.
FreshHasOneOwner ==
    \A n \in 1..Len(objects) :
      LET given == UNION {{m} \X {i \in DOMAIN objects[m].args :
                                  objects[m].args[i] = New(n)} : m \in DOMAIN objects}
          kept == {i \in DOMAIN handed : handed[i] = New(n)} IN
        (\A k \in Keys : single[k] # New(n)) => Cardinality(given) + Cardinality(kept) <= 1

Request(w, params) == [want |-> w, params |-> params]
Requests == [want : Wants, params : SUBSET Keys]

\* What the bindings say of a request under the given factory parameters.
Resolves[r \in Requests] ==
    IF r.want.how = "assisted" THEN r.want.key \in r.params
    ELSE LET e == entry[r.want.key] IN
           CASE e.kind \in {"ctor", "provider"} ->
                  \A i \in DOMAIN e.args : Resolves[Request(e.args[i], r.params)]
             [] e.kind = "type" -> Resolves[Request(e.to, r.params)]
             [] e.kind = "singleton" -> Resolves[Request(e.to, {})]
             [] e.kind \in {"instance", "factory"} -> TRUE
             [] e.kind = "none" -> FALSE

\* Whether a request succeeds is a matter of the bindings and of the factory
\* parameters: not of the order in which arguments are evaluated, nor of which
\* singletons exist already.
OutcomeIsAsBound ==
    \A i \in 1..Len(stack) :
      LET resolves == Resolves[Request(stack[i].want, stack[i].context.params)] IN
        /\ stack[i].step \in {"body", "invoked", "return"} => resolves
        /\ (status = "aborted" /\ \A j \in i..Len(stack) : stack[j].step # "body")
             => ~resolves

\* As long as the bindings do not lead back to themselves, the recursion of
\* Get() does not either: not through a singleton, which asks for its own type
\* under another label, nor through a factory that a constructor calls. It is
\* no deeper than there are keys, and one for what is on top.
RecursionIsBounded == Len(stack) <= Cardinality(Keys) + 1

\* "all direct and indirect dependencies are created by combining factory-
\* parameters and injector" (guicpp_factory.h): under a factory call, an
\* assisted argument that the call has a parameter for is found.
ParametersReachDependencies ==
    status = "aborted" /\ TopFrame.want.how = "assisted" =>
      \A i \in 1..Len(stack) :
        stack[i].step = "call" /\ (\A j \in i+1..Len(stack) : stack[j].step # "call")
          => TopFrame.want.key \notin stack[i].context.params
=============================================================================
