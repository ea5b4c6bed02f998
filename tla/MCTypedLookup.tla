--------------------------- MODULE MCTypedLookup ---------------------------
(* TypedLookup with a class that can be constructed, an interface, a primitive *)
(* type and Injector, and one label. A module makes up to two of the calls     *)
(* below; the factories have up to two parameters, some of them twice the same *)
(* type and label.                                                             *)
EXTENDS TypedLookup

CONSTANTS store, iface, num, injector, red

A(ats, type) == [ats |-> ats, type |-> type]
ConstValue(s) == [Value(s) EXCEPT !.const = TRUE]
Call(op, lhs, rhs) == [op |-> op, lhs |-> lhs, rhs |-> rhs]
Plain == {<<>>, <<red>>}

\* The example of examples/illustrations/reference is among them:
\* BindRefToPointed<const ExampleArgType>.
SomeCalls ==
    {Call(op, A(ats, t), A(<<>>, t)) :
       op \in {"BindToInstance", "BindRefToPointed"}, ats \in Plain,
       t \in {Value(store), ConstValue(store)}} \cup
    {Call("BindToProvider", A(<<red>>, ConstValue(store)), A(<<>>, ConstValue(store))),
     Call("BindValueToProvider", A(<<red>>, ConstValue(num)), A(<<>>, ConstValue(num))),
     Call("BindToValue", A(<<>>, ConstValue(num)), A(<<>>, ConstValue(num))),
     Call("BindValueType", A(<<red>>, Value(num)), A(<<>>, Value(num))),
     Call("BindValueType", A(<<>>, Value(num)), A(<<Assisted>>, Value(num))),
     Call("Bind", A(<<>>, Value(iface)), A(<<red>>, Value(store))),
     Call("Bind", A(<<>>, ConstValue(iface)), A(<<red>>, ConstValue(store))),
     Call("Bind", A(<<red>>, Value(iface)), A(<<>>, Value(iface))),
     Call("Bind", A(<<red>>, ConstValue(store)), A(<<>>, Value(store))),
     Call("Bind", A(<<>>, ConstValue(store)), A(<<Assisted, red>>, Value(store)))}

\* ReferenceArgUserFactory takes a reference.
SomeParameters ==
    {<<A(<<>>, Reference(store, FALSE))>>,
     <<A(<<red>>, Reference(store, TRUE)), A(<<>>, Pointer(store, FALSE))>>,
     <<A(<<>>, Pointer(store, TRUE)), A(<<Assisted>>, Pointer(store, FALSE))>>,
     <<A(<<red, Assisted>>, Pointer(store, FALSE)), A(<<red>>, Value(store))>>,
     <<A(<<>>, ConstValue(num)), A(<<red>>, Value(num))>>}

SomeWants ==
    {A(ats, t) : ats \in Plain \cup {<<Assisted>>, <<Assisted, red>>, <<red, Assisted>>},
                 t \in {Value(store), Pointer(store, FALSE), Pointer(store, TRUE),
                        Reference(store, FALSE), Reference(store, TRUE), ConstValue(num)}}
    \cup {A(ats, Pointer(iface, const)) : ats \in Plain, const \in BOOLEAN}
    \cup {A(<<red>>, Pointer(injector, FALSE))}

\* The process has ended.
Finished ==
    /\ stage \notin {"configuring", "live"}
    /\ UNCHANGED lookup_vars

MCSpec == LookupInit /\ [][LookupNext \/ Finished]_lookup_vars
=============================================================================
