---------------------------- MODULE MCResolution ----------------------------
(* Resolution on the example that guicpp_factory.h explains factories with: a *)
(* dispatcher owns a factory of request handlers; a handler needs the request *)
(* and a sender; the sender writes to a log, which may want the request too.  *)
EXTENDS Resolution, TLC

CONSTANTS dispatcher, desk, handlers, handler, request, sender, sms, log, unscoped

N(k) == [how |-> "normal", key |-> k]
A(k) == [how |-> "assisted", key |-> k]

Ctor(args) == [kind |-> "ctor", args |-> args, calls |-> {}]
None == [kind |-> "none"]

\* What does not vary.
Example ==
    desk :> [kind |-> "ctor", args |-> <<N(handlers)>>, calls |-> {handlers}]
    @@ handlers :> [kind |-> "factory", to |-> N(handler), params |-> {request}]
    @@ request :> None

\* A handler may own the factory that makes it, for requests that it passes on.
Handlers == { Ctor(<<A(request), N(sender)>>), Ctor(<<A(request), N(handlers)>>) }

\* The dispatcher may be a singleton, whose constructor calls the factory.
Dispatchers == { Ctor(<<N(handlers)>>), [kind |-> "singleton", to |-> N(desk)] }

\* The abstract sender is bound to a type, a provider, a scope, or not at all.
Senders == { [kind |-> "type", to |-> N(sms)],
             [kind |-> "singleton", to |-> N(sms)],
             [kind |-> "provider", args |-> <<N(log), N(log)>>, calls |-> {}],
             None }
Smss == { Ctor(<<N(log)>>), Ctor(<<N(log), A(request)>>) }
Logs == { [kind |-> "instance"],
          [kind |-> "singleton", to |-> N(unscoped)],
          [kind |-> "type", to |-> N(unscoped)] }
Unscopeds == { Ctor(<<>>), Ctor(<<A(request)>>) }

Examples == { Example @@ dispatcher :> d @@ handler :> h @@ sender :> s @@ sms :> m
                @@ log :> l @@ unscoped :> u :
                d \in Dispatchers, h \in Handlers, s \in Senders, m \in Smss,
                l \in Logs, u \in Unscopeds }

Quiet ==
    /\ status # "ok" \/ (stack = <<>> /\ requests = 0)
    /\ UNCHANGED vars

MCNext == Next \/ Quiet
MCSpec == Init /\ [][MCNext]_vars
=============================================================================
