# Guic++ in TLA+

Guic++ is a dependency injection library for C++98. A *module* binds types to
implementations, instances, providers or scopes; an *injector* is made from a
module and answers requests for instances, constructing what is missing
argument by argument; *factories* are injected interfaces whose `Get()`
combines parameters given at the call with what the injector knows. Everything
an injector was given or has created in a scope is deleted with it.

This directory holds TLA+ models of that library, TLC configurations that check
them on small instances, and theorems checked by TLAPS. Every definition stands
for lines of the source; `PROJECT.json` has the table (`map`), the runs, the
mutants each property must catch, the hazards the properties are aimed at and
the theorems.

Paths below are relative to the repository: `internal/` is
`include/guicpp/internal/`, headers without a directory are in
`include/guicpp/`, `.cc` files are in `src/`, and `notifier/` is
`examples/notifier/`.

## 1. The system

| component | state | operations | who calls it |
|---|---|---|---|
| `BindTable` (`internal/guicpp_table.h`, `guicpp_table.cc`) | `bind_map_`, `cleanup_list_` | `AddEntry`, `AddToCleanupList`, `FindEntry`, destructor | the binder fills it, the injector owns and reads it |
| table entries (`internal/guicpp_entries.h`, `guicpp_builder.h`) | a pointer, value, provider or cleanup action | `Get`, destructor | resolution; the table's destructor |
| `Binder`, `Module` (`guicpp_binder.h/.cc`) | the table, `num_errors_` | `Bind*`, `AddCleanupAction`, `Install`, `GetBoundInstance` | the user's module during `Configure()` |
| `Injector`, `CreateInjector`, `WrapperModule` (`guicpp_injector.*`, `guicpp_tools.*`) | the table | `Create`, `Get`, destructor | the user |
| lazy singleton scope (`guicpp_singleton.h/.cc`) | per provider `object_`, `once_`; per injector `init_list_`, `cleanup_list_`, its size, a mutex | `ConfigureScope`, `Get`/`Create`, `Init`, `AddToCleanupList`, `Cleanup`, destructors | requests, from any thread; the deletion of the injector |
| port (`internal/guicpp_port.h`) | `Mutex::locked_`, `GoogleOnceDynamic::called_` | `Lock`, `Unlock`, `Init` | the scope |
| resolution (`internal/guicpp_inject_util.h`, `guicpp_create_helpers.h`, `guicpp_local_context.*`) | the C++ call stack; a `LocalContext` per factory call | `GetWithContext`, the inject handlers, `CreateHelpers::Create` | `Injector::Get`, entries and factories, recursively |
| factories (`guicpp_factory.h`, `internal/guicpp_factory_helpers.h`) | the injector | `RealFactory::Get` | user code, also from within constructors |
| providers (`guicpp_provider.h`, `internal/guicpp_provider_helpers.h`) | the user's | `InvokeGet`, `GetInvoker` | resolution |
| `TableEntryReader`, `TypeInfo` (`internal/guicpp_table.h`, `guicpp_types.h`) | none | conversions between value, reference and pointer | resolution |
| annotations, `At` (`guicpp_at.h`, `guicpp_annotations.h`, `internal/guicpp_util.h`), macros | none, compile time | select the handler, the key and the default entry | the compiler |
| the example server (`notifier/`) | one connection, one buffer, the contacts | accept, read, parse, dispatch, write, close | clients, in any order and at any speed |

How they interact. `CreateInjector()` wraps the user's module: the wrapper binds
a new `ScopeSetupContext` first, installs the user's module, which binds through
the same `Binder`, has the context allocate its array once all providers have
registered, and adds last the entry whose destructor calls
`ScopeSetupContext::Cleanup()`. `~BindTable` deletes the entries in reverse, so
that cleanup comes first and the context goes last; user code (cleanup actions,
destructors) runs in between. A request walks through the handlers to an entry
and from there to further requests; a singleton's provider starts over with
`Injector::Get()`, and a factory starts a context of its own.

What is hard here:

* *Threads.* First requests for singletons race in `GoogleOnceDynamic::Init()`
  and in `AddToCleanupList()`, while each holds a chain of nested requests. The
  port layer ships placeholders for the two primitives and asks for them to be
  ported.
* *Order of destruction.* It is the order of creation reversed, and that is
  decided by arguments evaluated in an unspecified order, in several threads.
* *Partial failure.* A duplicate binding is refused by the map, owned by the
  list, counted by the binder, and registered with the context all the same.
* *Callbacks.* Destructors and cleanup actions may call back into an injector
  that is being deleted.
* *Parameters by reference.* A factory's parameters live in the frame of its
  `Get()`, and contexts that point at them are handed down the stack.
* *Types behind casts.* The table knows its entries by their base class. What a
  requester wrote, what was bound and what an entry is then cast to are three
  types that chains of bindings bring together in many combinations.
* *Clients.* The example server meets requests in pieces, connections that are
  gone, and one buffer for everybody.

What makes each part correct:

| part | correct means |
|---|---|
| bind table | first binding wins; what is found is owned and exists; everything handed over is deleted once, youngest first |
| scope | each bound type is instantiated once, everybody gets that instance, it dies before what it was built from, nothing is left |
| injector | handed out only if every binding took effect; the context outlives its users; providers die empty; deletion ends |
| lookup | the order of annotations and the shape of a type do not matter; the first binding or parameter written for a type and label is read, along listed conversions only; const and identity are kept |
| example server | an answer is made from that client's request alone; the message goes out as it was submitted; every connection is served |
| resolution | a request's outcome depends on bindings and parameters alone; a frame sees the parameters of the innermost call; singletons keep no parameter; what is constructed has one owner; the recursion is bounded |

## 2. The modules

| module | models |
|---|---|
| `OwnerStack` | abstract: an owner adopts objects, then deletes them youngest first, each once |
| `SingletonScope` | abstract: one life per provider, after its dependencies' births and before their deaths |
| `BindTable` | the table; implements `OwnerStack` |
| `Port` | mutex and once, placeholder or ported |
| `LazySingleton` | extends `Port`: the scope with any number of threads; implements `SingletonScope` and `OwnerStack` |
| `InjectorLife` | extends `BindTable`: binder, wrapper, injector, deletion |
| `Resolution` | handlers, entries, factories, providers: the call stack of one thread |
| `TypedLookup` | annotations, ids, handlers and conversions: one request at a time, by types |
| `NotifierText`, `Notifier` | the texts the example server parses; its loop, handler and notifiers, with its clients |
| `BindTableProofs`; `LazySingletonProofs`, `LazySingletonScopeProofs`; `InjectorLifeProofs`; `ResolutionProofs`, `ResolutionOwnerProofs`; `TypedLookupProofs`; `NotifierProofs` | the theorems about each |
| `MCLazySingleton`, `MCInjectorLife`, `MCResolution`, `MCTypedLookup`, `MCNotifier` | the instances TLC checks |

Operators whose name ends in `_Something` and whose comment begins "Mutant of"
are single mistakes one could make in the code. They are used by no
specification: each is there to be put in the place of the definition it varies,
and a property listed for it in `PROJECT.json` must then fail.

**BindTable.** Variables carry the members' names. `AddEntry` keeps the two
halves of the code apart: `Insert` is `std::map::insert`, `AddToCleanupList`
happens either way. The destructor is `BeginDelete`, one `DeleteEntry` per
iteration and `EndDelete`, because user code runs between iterations.
`handed_over` and `freed` are history: what the callers allocated and what has
been deleted. Entries are opaque.

**Port.** Two constants say, for each primitive, whether it is the placeholder
in the file or what its comment asks for. A placeholder `Lock()` is a test and a
later assignment and aborts on a locked mutex; a ported one waits. A placeholder
`Init()` sets the flag after the call; a ported one lets one thread run and the
others wait. The ported primitives are external: the repository has none. Threads
that race on the placeholders' plain fields are undefined behaviour in C++; here
each read and write takes effect at once and in program order, as on a
sequentially consistent machine. So a violation on a placeholder is an execution
that can happen, and what is said to hold on one (`NeverNull`,
`SequentialKeepsPromises`, `SequentialScope`) holds of those interleavings only.
Behind a ported mutex and once the plain accesses do not race.

**LazySingleton.** A thread's activation of one provider's `Get()` is a *frame*,
`<<thread, provider>>`, with a program counter; `callee` is the nested request a
frame waits for. Every read and write of shared state that another thread can
come between is an action: the test of `called_`, the assignment of `object_`,
both halves of the placeholder lock, the read of the size, the write to the
slot, the release, the setting of `called_`, the read of `object_` that is
returned. `ResolveDep` picks any open argument, as C++ does. `seen[p]` is what
`LazySingletonProvider::Get()` returned. The `GUICPP_CHECK_`s on the way lead to
the phase `aborted`, a write past the array to `corrupt`. `overlapped` is a
history variable: whether two threads were ever inside `Get()` at once, which
tells what the placeholders still promise a program that never does that.
Configuration and deletion are actions of the one thread that owns the injector,
and deletion waits until no call is under way, since no library call could
survive it.

**InjectorLife.** The table's own actions conjoined with what the binder and the
wrapper add: any sequence of binder calls, with and without the wrapper,
`num_errors_`, the registration of providers that the table may refuse,
`FinishCreate` and `RefuseCreate`. A nested module (`Install`) is only more
calls of the same binder. The scope is abstracted to the sequence of instances
in cleanup order; threads are `LazySingleton`'s business. `DestroyEntry` does
what the destructor of the entry's kind does. `CallbackStep` is user code that
calls the injector in the middle of its deletion; `late` remembers the instances
it makes. A type in `Defaults` has an inject macro: where no binding is found
the default entry constructs an object for each request (`Fresh`), which asks
for its own arguments in turn (`AskedFor`); another unbound type ends the
process (`GetUnbound`, `CallbackUnbound`). A destructor that `Cleanup()` runs
and that asks for a new instance comes back to a mutex its own thread holds
(`DestructorGet`): the placeholder aborts, a ported mutex waits for ever, and
the model has both. The table of an injector is a `BindTable` by construction,
and all the properties of the table are checked, and proved, in this
composition.

**Resolution.** `stack` is the C++ stack, one frame per request and per factory
call, each with the `LocalContext` it was handed. A *key* is a `TypeId`, that
is, a type with its label. `entry` maps each key to what the lookup finds, a
binding or the default entry of an inject macro, one set of records per kind of
entry. `objects` records what was constructed, from which arguments, and which
factory parameters it can reach. An entry with a body (`ctor`, `provider`)
names, in `calls`, the factories among its arguments that the body calls. A
factory is not a request for what it makes: a type may own the factory that
makes it, or one that leads back to it, and only a call made by a body on the
way counts for `Acyclic`. `handed` is everything that requests of the program's
own code have returned, to the user or to a body that called a factory; what
that code does with it afterwards (a constructor that stores what its factory
returned, a provider that returns one object twice) is its own affair and
outside the properties. `AbstractProvider::InvokeGet()`
(`guicpp_provider.h:131`) has no return statement: it flows off its end, which
is undefined behaviour, although `InvokeGet_CallsGetToCreateObject`
(`guicpp_provider_test.cc`) expects the object. `InvokeGetReturns` and
`InvokeGetRunsOff` are the two things a build may do with it, and `corrupt` is
where the second one ends.

**TypedLookup.** What `Resolution` takes for granted, which entry answers and as
what. A C++ type is a record: its specifier, one of the categories value, pointer
and reference, and whether it is const. An annotated type is a sequence of
annotations with a type. Ids are computed as the templates compute them, without
the shape and with the annotations looked up by kind. A module is any sequence of
binder calls, a factory call a sequence of parameters, and a request walks from
hop to hop (`FollowType`); `path` remembers what was wanted and found at each.
`Overloads` has one element for each overload of `GetAndCast`: the type requested,
the type bound, and the type the entry is then cast to. Where the last two differ
the read is undefined, and both `ReadMismatched` and `Read` are possible.

**Notifier.** The loop of `SimpleHttpServer`, one action per system call,
between clients that connect, send a request in a first piece and a rest, and
hang up. A request is a sequence of tokens, the separators the parser searches
for and the words between them; `NotifierText` has the parser, as functions of
such texts, and the reader of the contact file. The handler, the notifiers and
the senders are one action, `Dispatch`, since they run without meeting anybody
else. How the injector builds them is `Resolution`'s business, whose instance is
this application. A client may hang up in an orderly way or reset the
connection, by which what the server has not read is lost. A line break is one
token, with a carriage return or line feed on its own as tokens too; `Canonical`
says that a text is not written with two tokens where `strstr` would see one.
What a client submits is what a browser makes of the words a user fills in:
`Submitted` is its encoding, external, of which `Escape` tells apart the
characters that matter to the parser.

## 3. The runs

| run | instance | shows |
|---|---|---|
| `singleton_ported` | 2 threads, 4 providers in a diamond, a request each, ported primitives | everything the scope promises, no threads that wait in a circle, termination included |
| `singleton_placeholder` | 2 threads, a chain of 2, placeholders | calls that do not overlap get everything the scope promises, from whichever thread; those that do never return NULL |
| `once_race` | as above, ported mutex, placeholder once | **violation**: two instances |
| `mutex_race` | 2 threads, 2 unrelated providers, placeholder mutex, ported once | **violation**: the process aborts |
| `injector_life` | 3 types, each built from the next, the middle one constructed by default where it is not bound, 5 binder calls, callbacks to both ends of the chain | the table and its refinement, configuration errors, order of deletion with user code in between, which instances can be left, deletion ends |
| `late_get` | the same, 3 calls | **violation**: a provider deleted with an instance inside |
| `resolution` | 9 keys, 192 applications, 2 requests, 2 factory calls | contexts, parameters, ownership, outcomes, a singleton is created once, a bound on the recursion |
| `resolution_arguments` | the same | **violation**: a parameter does not reach below a singleton |
| `lookup` | a class, an interface, a primitive and `Injector`, one label; modules of 2 calls out of 17, factories with up to 2 parameters, requests in all shapes | which entry answers, by which conversion, and that const and identity are kept |
| `lookup_const_reference` | the same | **violation**: a listed conversion reads an entry through a wrong type |
| `notifier` | 2 clients, 7 requests, 2 contact files | nothing left over from another request, the message goes out as it was submitted, every connection served |
| `notifier_filled_in` | 1 client with a form whose words have spaces in them, a file with that nickname | **violation**: what is looked up and sent is the browser's encoding of what was filled in |

Deadlock is checked in every run; the MC modules add a stuttering step
(`Finished`, `Quiet`) in exactly the states in which the program has ended or
has nothing left to do, so that a reported deadlock is one.

*The violations.* `once_race` and `mutex_race` show what the placeholders in
`internal/guicpp_port.h` do to the promises of `guicpp_singleton.h`; the file
says that they must be ported, and `singleton_ported` shows that porting them is
enough. `late_get`: a cleanup action or destructor that requests a singleton for
the first time runs after `Cleanup()`, and the check in `~LazySingletonProvider`
aborts. `resolution_arguments`: `LazySingletonProvider::Create()` starts over
with an empty context, against "all direct and indirect dependencies are created
by combining factory-parameters and injector" in `guicpp_factory.h`; the same
choice is what makes `SingletonsHoldNoArguments` hold. `lookup_const_reference`:
the overload for a value requested from a const reference casts the entry to
that of a reference to non-const; `ReadsWhatIsWritten` and its companions in
`lookup` hold all the same, because they speak of what is read when the cast
does no harm. `notifier_filled_in`: the page that `Handle()` writes has the
browser submit its form urlencoded, and neither `ReadHttpRequest()` nor
`Handle()` decodes it, so that the nickname "tom cat" is looked up as "tom+cat"
and reported unknown. "If nickname is specified, send message to that person"
(`nfe_request_handler.cc`) is true of nicknames and messages that the encoding
leaves alone; `MessagesAsSubmitted`, which `notifier` checks, is what holds of
all.

*Bounds and why they are enough.* Two threads, because every interference in
this code is between the one creator and one other; four providers in a diamond,
the least with an argument reached along two paths, two arguments in one call
and two creations that both threads may be in the middle of at once (with three
in a row every append to the list waits for another's once, and a mutex that
excludes nobody goes unnoticed). One request per thread is five calls of
`Get()`, nested ones included, and the second thread may come at any point of
them or after; the runs with smaller graphs have two or three requests.
`MaxCalls` = 5 binder calls in `injector_life`: a binding for each of three
types in any order, as a scope or an instance, with two calls to spare for a
duplicate or a cleanup action anywhere (`late_get` needs only three); a chain of
three is the least with an instance that is built from one and needed by
another, and its middle is where an object made afresh passes on what it needs.
The applications of `Resolution` are the example of `guicpp_factory.h` with the
sender bound to a type, a singleton, a provider or nothing, its log to an
instance, a singleton or a type, assisted arguments at any depth, a handler that
may own the factory it is made by, and a dispatcher that may be a singleton
whose constructor calls the factory; two user requests and two factory calls
give a second request and a call of the same factory after singletons exist, and
`MaxRequests`, `MaxCalls` and `MaxGets` bound nothing but how long the user goes
on. `lookup`: two bindings are the least for a chain or a duplicate, and a third
hop comes from the parameters or a default entry; two parameters are the least
for a duplicate. `notifier`: what one client leaves behind the next one meets,
and the queue of connections never needs more than one to wait; a first piece
and a rest are all the pieces that a server that reads once can tell apart;
`Cuts` fall after a method, behind the name of an input, in the middle of a
nickname, and in front of or within a value; of the requests one does not fit into
`kBufferSize`, one has a bare line feed before its query, and the forms have
words with a space, with an `&` and without any.

*Fairness.* A thread inside `Get()` keeps taking steps and so does the thread
that deletes (`LazySingleton!Fairness`): weak fairness per thread, as an
operating system's scheduler gives it; a ported mutex or once that is free at
last wakes somebody. No liveness is claimed of the placeholders, on which nothing
ever waits. `InjectorLife` and `Resolution` have one thread, which runs
on. Nobody is obliged to make a request, to call a factory or to delete an
injector. The example server's thread runs on as well, and `NotifierSpec` makes
one assumption that the code does not justify but needs: a client that has
connected sends something or hangs up. `read()` has no timeout, and without the
assumption one silent client keeps all others waiting.

## 4. The theorems

All hold for every value of the constants that satisfies the named assumptions.
Every invariant and every safety action property or refinement that a passing run
checks is proved.

**The bind table** (`BindTableProofs`, from `NullAssumption`: the null pointer
is no entry). `TableInv` is `TableTypeOK` with four facts: the list holds
exactly what was handed over; no entry is in it twice; a bound entry is in the
list, under one type id only; the deleted entries are exactly those behind the
iterator. None of the properties is inductive alone: that a lookup finds no
deleted entry needs the iterator, and that nothing leaks needs list and
history to agree. `TableInvariant` proves it, and from it follow
`TableTypeCorrect`, `LookupsSafe`, `TableLeaksNothing`, `BindingsAreFinal`
(an action property) and `TableImplementsOwner`, the refinement: binding is
adopting, an iteration of the destructor releases the youngest, the rest
stutters.

**The once** (`LazySingletonProofs`, from `PortAssumption` and
`SingletonAssumption`). `SingletonTypeCorrect` and `SingletonNeverNull` hold for
both kinds of port: an instance may be replaced by a second one, but `object_` is
set from the first constructor on, until no call is left. With `PortedOnce` and
*either* mutex, `OnceInvariant` proves `OnceInv`: type
correctness; a frame inside `Create()` belongs to the provider's runner and
`called` is not set (`OneCreator`); there is no instance before construction and
when nobody runs the once, and exactly one from construction on and once `called`
is set (`CreatedByRunner`); what calls returned is that instance, and while the
injector is in use so is `object` (`ReturnedIsTheInstance`).
`SingletonInstantiatedOnce` and `SingletonSameInstance` follow. The assumption is
needed: `once_race` is the counterexample without it.

**The scope** (`LazySingletonScopeProofs`, from the same assumptions). One
invariant, `ScopeInv`, serves two cases at once (`Orderly`): the port waits, or
no two threads have overlapped so far, whichever port it is. Its parts build on
each other. The frames of a thread form a stack, of which the top runs
(`CallStack`). Hence one frame at a time is in `Create()` for a provider
(`OneCreates`) and one is in the critical section, with a size that is up to
date (`MutexHeld`). A constructor runs when its arguments have been returned
(`ArgumentsReturned`), and an argument is returned after it was appended, so
that the list holds each provider once and after what it needs (`ListedOnce`,
`DependenciesFirst`). `Cleanup()` leaves deleted what it has passed and nothing
else (`CleanedFromTheEnd`). That the array is long enough is the pigeonhole
principle: its slots hold different providers, the one about to append is not
among them, and all are registered. `ScopeInvariant` is proved without any
assumption on the port; `SingletonNeverCrashes`, `SingletonAllDestroyed` and
`SingletonDependenciesOutlive` take a port that waits, as `singleton_ported`
does; `mutex_race` refutes the first of them for a placeholder mutex.
`SingletonSequentialKeepsPromises` and `SingletonSequentialScope` take no
assumption: they say what the shipped placeholders promise. The refinements
follow step by step. For `SingletonImplementsScope` a constructor meets living
arguments, and a turn of `Cleanup()`'s loop deletes a provider's instance that
nobody alive was built from; for `SingletonImplementsOwner` an append adopts,
since no other frame has got the same slot, and that turn releases the youngest.

`SingletonSomebodyGoesOn` is freedom from deadlock, for any number of threads, any
acyclic dependencies and any port: threads inside `Get()` never all wait. What a
frame may wait for is a nested call of its own, the creator of the same instance,
or the thread at the list (`Waits`). `WaitInv` says that somebody is there to be
waited for: a once that is taken has its creator inside `Create()`
(`RunnerCreates`), a locked mutex its holder at the list (`HolderIsInside`), and
nested calls are for arguments (`ArgumentsOnly`). Take, of all instances that
some thread is inside `Get()` for, one that needs none of the others
(`WaitsEnd`): there its creator neither has a nested call open nor waits for an
argument, and if it waits for the list, the holder of the lock does not wait.

**The injector** (`InjectorLifeProofs`, from the assumptions of `InjectorLife`
and `BindTable`). Every action has one of four shapes as far as the table goes
(`Binds`, `Adds`, `Deletes`, `LeavesTable`), so that what concerns the table is
argued four times and not once per action. `LifeImplementsTable`: whatever
modules, requests and callbacks do, the table inside takes steps of `BindTable`;
its theorems carry over, `InjectorLeaksNothing` first, and with the types of the
table `LifeTypeCorrect`. `LifeInv` adds to `TableInv` that entries are numbered
by the calls that made them, that refused entries are counted, and that without
errors every entry is the one bound. `HandedOutSound` follows. `ScopeInv` adds
the scope: the wrapper's last entry is that of `InvokeCleanup`, before
configuration has ended there are no instances, after that entry has gone there
are late ones only, and what an instance needs stands before it in the list or
is bound. From it follow `OnlyLateRemain` and `NeedsAreOutlived`, and
`ContextOutlives`: there are providers only where the wrapper is, whose context
is the first in a list that is deleted from its end (`ScopeIsWrapped`,
`ContextIsFirst`). `RoomIsEnough` counts: every instance, existing or destroyed,
is of a type that is bound to a scope (`OneEach`), the provider of a binding
that the map finds has registered (`Registered`), and the map finds it under its
own type (`FoundByKey`), so that different instances have different places in
`init_list`, which refused duplicates can only make longer.

**Resolution** (`ResolutionProofs`, `ResolutionOwnerProofs`, from
`ResolutionAssumption`: finitely many keys and acyclic bindings). `StackInv`
says what holds of each frame (`FrameOK`), of two neighbours (`Linked`: the
upper one is the request the lower one waits for, with its context, an empty one
below a singleton, or that of the call), of the bottom and of the top; an action
replaces the top, pushes or returns, and each is argued once.
`ResolutionTypeCorrect` follows, and `ContextOfInnermostCall`: take the first
frame whose context is not that of the innermost call below it; the frame under
it, whose context is right, is its neighbour. `SingletonsKeepNoArguments` needs
that what is handed up to a frame with an empty context holds no parameter
(`CleanInv`). For the rest, `Reaches` says what a key's bindings lead to, and
`BuiltInv` that the frames of the stack go strictly down in it. A call of a
factory by a body is no exception, since what the factory makes is among what
that body's entry needs (`NeededBy`, `CallDescends`), though not among what the
factory's owner needs. So no request comes back to a singleton that is being
created (`SingletonsCreatedOnce`, an action property). `OwnerInv`: an object
that is no singleton is in one place, a frame's value or arguments, another
object or the user's hand, and every action moves it or leaves it
(`FreshObjectsHaveOneOwner`). `OutcomeInv`: what a frame has got resolves, and a
check fails only in a frame that misses something; an aborted stack misses all
the way down (`OutcomesAreAsBound`). This last theorem compares with a recursive
function, `Resolves`, over requests. That there is such a function cannot be had
from the library's recursion theorems; it is proved with the union of all groups
of requests that miss nothing which is not in the group (`ResolvesExists`), and
acyclicity makes it the answer to every request. `RecursionBounded`: the C++
call stack never holds more frames than there are keys, and one. No code
enforces that; it rests on acyclic bindings, on the UnScoped label, under which
a singleton asks for another key than its own, and on calls of factories being
counted where a body makes them. Each frame below the top stands for a key of
its own: that of its request or, if it is a factory's `Get()`, that of a factory
which makes what it requests (`KeyOf`, `KeyStands`); two frames with one key
would need themselves (`KeysDiffer`).

**Lookup** (`TypedLookupProofs`, from `LookupAssumption`: programs that
compile). `ConversionsAreTheListed`: what the overloads accept is what their
comments list, for every two types of one class. `LookupInvariant`: the types of
bindings and parameters are those they were written with, `Bind()` keeps the
const of its right-hand side (`BindingsKeep`), and along the path of a request
const only ever grows towards the requester (`WantIsBounded`, `PathIsBounded`).
`ConstIsKept` follows: for modules and chains of any length, no requester gets a
non-const pointer or reference to what was bound const. `WrittenInvariant` is
about the ids: an id says which class and annotations were written and nothing
of their order or shape (`IdSaysWhatIsWritten`), the table holds for each id
what the first call for it wrote (`TableAsWritten`), a context what the
parameters at its places wrote (`ArgumentsAsWritten`). Then each hop found what
is written for what it wanted (`RequestsReadWhatIsWritten`), a request was
refused for a conversion that is not listed (`RefusedIfUnlisted`), and the types
are right (`LookupTypeCorrect`). The assumption does its part: no annotation is
one of the library's internal defaults, and `Assisted` and internal types do not
mix.

**The example server** (`NotifierProofs`, from `NotifierAssumption` and
`FormAssumption`). `NotifierInvariant`: between connections the buffer is all
zeros, and while one is served it holds what was read and zeros behind it, so
that the string in it ends where the read did. That is why `NothingIsLeftOver`
holds, for any clients, texts and size of the buffer: it takes that no client
sends a NUL, that `Close` clears the buffer after every request, and that the
last byte is never read into. `MessagesAreAsSubmitted` is about the way from the
submitted text to the message. `MessagesInvariant` has it from the parsed
arguments on: nothing is sent before the handler runs, and then what the
arguments name. The rest is the parser, which cuts the text at separators again
and again. The inputs of a form, in a text with anything around them, are
described by position instead of by recursion (`InputsAt`), and the lemmas show
for each cut what it leaves, so that the arguments parsed are the values
submitted. `FormAssumption` has the page's inputs and leaves the words open: any
text may be filled in, spaces and `&` included, and `EscapedIsNoSeparator` shows
that its encoding has none of the parser's separators. That the encoding is then
sent on as it is, is the finding of `notifier_filled_in`. Likewise
`ContactsAreOfLines`: the contact of a nickname is what the last line with it
says, of those up to the first that is too long (`LinesFor`).

*Only model-checked.* Liveness under fairness (`GetReturns`, `TeardownEnds`,
`DeletionEnds`, `ConnectionsAreServed`), which is out of the prover's reach, as
is enabledness. `SingletonSomebodyGoesOn` and `RecursionIsBounded` are what of
it can be stated as safety. A refused duplicate ends `Injector::Create()` in a
failed check, so that in `injector_life` no table with one in it is ever
deleted; that it would be deleted too is what the theorem `TableLeaksNothing`
adds to the run.

## 5. Not modelled

* The macros' work in the preprocessor, `volatile`, pointers to pointers, and what
  the compiler rejects: the models start from programs that compile.
* Bindings with cycles: the library recurses without end, and every model
  assumes there are none (`Acyclic`, `NeedsAcyclic`). In `Resolution` a cycle
  through a factory is one only if a constructor or a provider on it calls the
  factory while it runs.
* What user code does with objects: a constructor that stores what it got from a
  factory it called, a user's provider that returns one object twice, cleanup
  actions of values that others still use.
* In `LazySingleton`, destructors of instances that call the injector back: that is
  `InjectorLife`'s `CallbackStep`, in one thread. `DeletionEnds` allows there, by
  name, the failed check, the read of a deleted entry and the wait for the mutex
  that `DestructorGet` ends in.
* What a request during the deletion of an injector ought to return, and a factory
  that outlives its injector: nothing documents either.
* Two requests of one user that overlap in `TypedLookup`, and factories called from
  constructors there: the stack is `Resolution`'s, the threads are
  `LazySingleton`'s.
* Of the example server: what the HTML says, the logger, errors of `socket()` and
  `bind()`, a `write()` that sends a part, a backlog that overflows, and
  `/quitquitquit`, which its comments mention and no code handles.
* Logging, `scoped_ptr` and the other library stand-ins of the port; the code
  generators (`.pump`); the negative compilation check; the illustrations, whose
  bindings are among the inputs; the tests, which were read as a reference.

## 6. The plan

In order of importance. Done: 1 to 11.

1. `BindTable` and `OwnerStack`, with proofs of safety and refinement.
2. `Port`, `LazySingleton`, `SingletonScope`: the threads; proof of the once.
3. `InjectorLife`, which composes the table with the wrapper and the scope.
4. `Resolution`, with factories and providers.
5. Theorems for 1 and the first of 2.
6. `TypedLookup`: ids, positions of factory parameters, requests for `Injector*`,
   the conversions; proof that const is kept.
7. Theorems for `InjectorLife`.
8. `Notifier`, the application.
9. Theorems for the scope: with a mutex that excludes, the list has one slot per
   finished instance (`AllDestroyed`, `NeverCrashes`), dependencies come before
   their users in it (`DependenciesOutlive`), then the two refinements.
10. Theorems for `Resolution`, `RoomForEveryInstance`, `TypedLookup` and
    `Notifier`.
11. Theorems for what liveness rests on: no circle of waiting threads, a bound on
    the recursion; the parser of `Notifier` for all texts.
12. Left: `InjectorLife` with the scope of `LazySingleton` in the place of its
    abstraction, on a small instance.
