------------------------------ MODULE Notifier ------------------------------
(***************************************************************************)
(* The notification server of examples/notifier, the application the        *)
(* library's documentation is built around: SimpleHttpServer's loop, one     *)
(* connection after the other through one buffer, the handler that a factory *)
(* makes for each request, and the notifiers it sends with. Clients connect, *)
(* send in pieces and hang up when they like. How the library puts the       *)
(* objects together is the subject of Resolution.tla.                        *)
(***************************************************************************)
EXTENDS NotifierText

CONSTANTS
    Clients,        \* each connects at most once
    Texts,          \* requests a client may send, as texts
    Files,          \* contents of contacts.csv
    Cuts,           \* how much of a request may come in its first piece
    Forms,          \* what users fill in, as sequences of <<input, words>>
    kBufferSize,
    NoClient

ASSUME NotifierAssumption ==
    /\ NoClient \notin Clients
    /\ kBufferSize \in Nat \ {0, 1}
    /\ Texts \subseteq Text
    /\ \A t \in Texts : NUL \notin ToSet(t) /\ Canonical(t)
    /\ Files \subseteq Seq([fields : Seq(Text), long : BOOLEAN])

\* The inputs of the page that Handle() writes; any words go into them.
InputNames == {"nickname", "message", "priority"}

ASSUME FormAssumption ==
    \A form \in Forms : form \in Seq(InputNames \X Text) /\ form # <<>>

VARIABLES
    contacts,       \* ContactList::contact_map_
    conn,           \* of each client: "idle", "queued", "accepted", "closed"
    to_send,        \* what a client has still to send
    wire,           \* sent and not yet read
    hung_up,        \* the client has closed its end
    backlog,        \* connections to be accepted, in order
    pc,             \* where the server's loop is
    client,         \* the connection it is serving
    buffer,         \* buffer_
    rsize,          \* tokens the read returned
    request,        \* HttpRequest: what was parsed
    output,         \* HttpRequest::output_, what it says of the notification
    messages,       \* history: what the senders were given for the client
    arrived,        \* history: what was read from the client
    text            \* history: what each connected client set out to send

client_vars == <<conn, to_send, wire, hung_up, backlog>>
history_vars == <<messages, arrived, text>>
request_vars == <<request, output>>
notifier_vars == <<contacts, client_vars, pc, client, buffer, rsize,
                   request_vars, history_vars>>

Zeroed == [i \in 1..kBufferSize |-> NUL]

\* CreateInjector() has loaded the contacts, the server is built and listens.
NotifierInit ==
    /\ contacts \in {ParseCSV(file) : file \in Files}
    /\ conn = [c \in Clients |-> "idle"]
    /\ text = [c \in Clients |-> <<>>]
    /\ to_send = text
    /\ wire = [c \in Clients |-> <<>>]
    /\ hung_up = [c \in Clients |-> FALSE]
    /\ backlog = <<>>
    /\ pc = "accept" /\ client = NoClient
    /\ buffer = Zeroed /\ rsize = 0
    /\ request = ParseError /\ output = "none"
    /\ messages = {} /\ arrived = <<>>

-----------------------------------------------------------------------------
(* Clients and the network between them and the server.                     *)

Connect(c) ==
    /\ conn[c] = "idle"
    /\ conn' = [conn EXCEPT ![c] = "queued"]
    /\ backlog' = Append(backlog, c)
    /\ \E t \in Texts : /\ text' = [text EXCEPT ![c] = t]
                       /\ to_send' = [to_send EXCEPT ![c] = t]
    /\ UNCHANGED <<contacts, wire, hung_up, pc, client, buffer, rsize,
                   request_vars, messages, arrived>>

Connected(c) == conn[c] \in {"queued", "accepted"} /\ ~hung_up[c]

\* A first piece of the request arrives, and later the rest: as the server reads
\* once, more pieces would show it nothing else.
Send(c) ==
    /\ Connected(c)
    /\ \E n \in 1..Len(to_send[c]) :
         /\ n = Len(to_send[c]) \/ (to_send[c] = text[c] /\ n \in Cuts)
         /\ wire' = [wire EXCEPT ![c] = @ \o SubSeq(to_send[c], 1, n)]
         /\ to_send' = [to_send EXCEPT ![c] = SubSeq(@, n + 1, Len(@))]
    /\ UNCHANGED <<contacts, conn, hung_up, backlog, pc, client, buffer, rsize,
                   request_vars, history_vars>>

\* The client closes its end, or resets the connection: what was not read yet is
\* lost then.
HangUp(c) ==
    /\ Connected(c)
    /\ hung_up' = [hung_up EXCEPT ![c] = TRUE]
    /\ wire' \in {wire, [wire EXCEPT ![c] = <<>>]}
    /\ UNCHANGED <<contacts, conn, to_send, backlog, pc, client, buffer, rsize,
                   request_vars, history_vars>>

-----------------------------------------------------------------------------
(* SimpleHttpServer::StartServer, one action per system call.                *)

Accept ==
    /\ pc = "accept" /\ backlog # <<>>
    /\ client' = Head(backlog)
    /\ backlog' = Tail(backlog)
    /\ conn' = [conn EXCEPT ![Head(backlog)] = "accepted"]
    /\ pc' = "read"
    /\ UNCHANGED <<contacts, to_send, wire, hung_up, buffer, rsize, request_vars,
                   history_vars>>

\* read(newsockfd, buffer_, kBufferSize - 1), once: what is there.
Read ==
    /\ pc = "read" /\ wire[client] # <<>>
    /\ rsize' = Min({Len(wire[client]), kBufferSize - 1})
    /\ buffer' = [i \in 1..kBufferSize |->
                    IF i <= rsize' THEN wire[client][i] ELSE buffer[i]]
    /\ wire' = [wire EXCEPT ![client] = SubSeq(@, rsize' + 1, Len(@))]
    /\ arrived' = SubSeq(wire[client], 1, rsize')
    /\ pc' = "parse"
    /\ UNCHANGED <<contacts, conn, to_send, hung_up, backlog, client,
                   request_vars, messages, text>>

\* close(newsockfd): what was still under way is lost, and the loop goes on.
CloseConnection ==
    /\ conn' = [conn EXCEPT ![client] = "closed"]
    /\ wire' = [wire EXCEPT ![client] = <<>>]
    /\ to_send' = [to_send EXCEPT ![client] = <<>>]
    /\ text' = [text EXCEPT ![client] = <<>>]
    /\ hung_up' = [hung_up EXCEPT ![client] = TRUE]
    /\ client' = NoClient
    /\ pc' = "accept"

\* Mutant of ReadNothing: the connection is not closed.
ReadNothing_StaysOpen ==
    /\ pc = "read" /\ wire[client] = <<>> /\ hung_up[client]
    /\ client' = NoClient
    /\ pc' = "accept"
    /\ UNCHANGED <<contacts, client_vars, buffer, rsize, request_vars,
                   history_vars>>

\* rsize <= 0, after a close (0) or a reset (-1): close(newsockfd); continue
ReadNothing ==
    /\ pc = "read" /\ wire[client] = <<>> /\ hung_up[client]
    /\ CloseConnection
    /\ UNCHANGED <<contacts, backlog, buffer, rsize, request_vars, messages,
                   arrived>>

\* A new HttpRequest, filled from the string in the buffer.
Parse ==
    /\ pc = "parse"
    /\ request' = ReadHttpRequest[CString(buffer)]
    /\ output' = IF request'.ok THEN "form" ELSE "parse_error"
    /\ pc' = IF request'.ok THEN "dispatch" ELSE "write"
    /\ UNCHANGED <<contacts, client_vars, client, buffer, rsize, history_vars>>

\* Dispatcher::Dispatch: the factory makes a handler for this request, its
\* Handle() sends at most one message, and the handler is deleted.
Message(kind, to) ==
    [from |-> client, sender |-> kind, to |-> to,
     nickname |-> CgiArg(request.args, "nickname"),
     body |-> CgiArg(request.args, "message")]

\* EmailNotifier::Notify and SmsNotifier::Notify.
EmailNotify(contact) == messages' = messages \cup {Message("email", contact.email_id)}
SmsNotify(contact) == messages' = messages \cup {Message("sms", contact.mobile_number)}

\* Mutant of Notify: the notifiers are given in the wrong order.
Notify_Swapped(nickname) ==
    IF CgiArg(request.args, "priority") = <<"high">>
    THEN EmailNotify(contacts[nickname]) ELSE SmsNotify(contacts[nickname])

Notify(nickname) ==
    IF CgiArg(request.args, "priority") = <<"high">>
    THEN SmsNotify(contacts[nickname]) ELSE EmailNotify(contacts[nickname])

Dispatch ==
    /\ pc = "dispatch"
    /\ pc' = "write"
    /\ LET nickname == CgiArg(request.args, "nickname") IN
         \/ nickname = <<>> /\ UNCHANGED <<output, messages>>
         \/ nickname # <<>> /\ nickname \notin DOMAIN contacts
            /\ output' = "unknown" /\ UNCHANGED messages
         \/ nickname # <<>> /\ nickname \in DOMAIN contacts
            /\ output' = "sent" /\ Notify(nickname)
    /\ UNCHANGED <<contacts, client_vars, client, buffer, rsize, request,
                   arrived, text>>

\* WriteOutput(): the header and the output.
WriteOutput ==
    /\ pc = "write"
    /\ pc' = "close"
    /\ UNCHANGED <<contacts, client_vars, client, buffer, rsize, request_vars,
                   history_vars>>

ForgetRequest == /\ rsize' = 0 /\ request' = ParseError /\ output' = "none"
                 /\ messages' = {} /\ arrived' = <<>>

\* Mutant of Close: the buffer is not cleared.
Close_KeepsBuffer ==
    /\ pc = "close"
    /\ CloseConnection
    /\ ForgetRequest
    /\ UNCHANGED <<contacts, backlog, buffer>>

\* memset(buffer_, '\0', rsize); close(newsockfd). The request goes out of
\* scope.
Close ==
    /\ pc = "close"
    /\ buffer' = [i \in 1..kBufferSize |-> IF i <= rsize THEN NUL ELSE buffer[i]]
    /\ CloseConnection
    /\ ForgetRequest
    /\ UNCHANGED <<contacts, backlog>>

\* A SIMPLE_CHECK on accept() or write() fails, or the write raises SIGPIPE:
\* the client has gone away in between.
CheckFails ==
    /\ \/ pc = "accept" /\ backlog # <<>> /\ hung_up[Head(backlog)]
       \/ pc = "write" /\ hung_up[client]
    /\ pc' = "aborted"
    /\ UNCHANGED <<contacts, client_vars, client, buffer, rsize, request_vars,
                   history_vars>>

ServerStep ==
    \/ Accept
    \/ Read
    \/ ReadNothing
    \/ Parse
    \/ Dispatch
    \/ WriteOutput
    \/ Close
    \/ CheckFails

NotifierNext ==
    \/ \E c \in Clients : Connect(c) \/ Send(c) \/ HangUp(c)
    \/ ServerStep

\* The server's thread runs on. A client that has connected sends something or
\* hangs up: read() has no timeout, so that one which never does either keeps
\* all the others waiting.
NotifierSpec ==
    /\ NotifierInit
    /\ [][NotifierNext]_notifier_vars
    /\ WF_notifier_vars(ServerStep)
    /\ \A c \in Clients : WF_notifier_vars(Send(c) \/ HangUp(c))

-----------------------------------------------------------------------------
(* What users ask for, without a parser: a request of a form has its inputs at  *)
(* places of the text, each a name, "=" and the words as the browser submits     *)
(* them, with "&" between two.                                                  *)

\* What a browser makes of the words filled in, application/x-www-form-urlencoded:
\* a token is one of these characters, or a run of others that it leaves alone.
Escape(token) ==
    CASE token = " " -> "+"
      [] token = "+" -> "%2B"
      [] token = "%" -> "%25"
      [] token = "&" -> "%26"
      [] token = "=" -> "%3D"
      [] token = "?" -> "%3F"
      [] token = EOL -> "%0D%0A"
      [] token = EOH -> "%0D%0A%0D%0A"
      [] token = CR -> "%0D"
      [] token = LF -> "%0A"
      [] token = NUL -> "%00"
      [] OTHER -> token
Encoded(words) == [k \in 1..Len(words) |-> Escape(words[k])]
Submitted(form) == [i \in 1..Len(form) |-> <<form[i][1], Encoded(form[i][2])>>]

\* Input i of the form is in the query from at[i] up to the "&" before at[i + 1].
InputsAt(q, form, at) ==
    /\ at[1] = 1 /\ at[Len(form) + 1] = Len(q) + 2
    /\ \A i, j \in 1..Len(form) + 1 : i < j => at[i] + 2 < at[j]
    /\ \A i \in 1..Len(form) :
         /\ q[at[i]] = form[i][1] /\ q[at[i] + 1] = "="
         /\ SubSeq(q, at[i] + 2, at[i + 1] - 2) = form[i][2]
         /\ i < Len(form) => q[at[i + 1] - 1] = "&"
IsQuery(q, form) ==
    \E at \in [1..Len(form) + 1 -> 1..Len(q) + 2] : InputsAt(q, form, at)

\* GET has the query between the path and a space, POST behind the headers.
IsRequest(t, form) ==
    \E i \in 3..Len(t) : \E j \in i..Len(t) :
      /\ t[2] = " "
      /\ \/ /\ t[1] = "GET" /\ t[i] = "?" /\ j < Len(t) /\ t[j + 1] = " "
            /\ \A k \in 3..i - 1 : t[k] \notin {"?"} \cup LineEnds
         \/ /\ t[1] = "POST" /\ t[i] = EOH /\ j = Len(t)
            /\ \A k \in 3..i - 1 : t[k] # EOH
      /\ IsQuery(SubSeq(t, i + 1, j), form)

Requests ==
    UNION {{<<t, form>> : t \in {u \in Texts : IsRequest(u, Submitted(form))}} :
             form \in Forms}

\* The line of the contact file that counts for a nickname: the last with it of
\* those that are read, which the first one that is too long ends.
IsRead(file, i) == \A j \in 1..i - 1 : ~file[j].long
LinesFor(file, nickname) ==
    {i \in 1..Len(file) :
       /\ IsRead(file, i) /\ Field(file[i], 1) = nickname
       /\ \A j \in i + 1..Len(file) : IsRead(file, j) => Field(file[j], 1) # nickname}

\* What is asked for with the words of a form, by the last input of a name:
\* without a nickname, or for an unknown one, nothing is sent.
LastOf(form, name) ==
    LET i == SelectLastInSeq(form, LAMBDA input : input[1] = name)
    IN IF i = 0 THEN <<>> ELSE form[i][2]
Expected(c, form, file) ==
    LET nickname == LastOf(form, "nickname")
        kind == IF LastOf(form, "priority") = <<"high">> THEN "sms" ELSE "email"
    IN {[from |-> c, sender |-> kind, nickname |-> nickname,
         body |-> LastOf(form, "message"),
         to |-> Field(file[i], IF kind = "sms" THEN 4 ELSE 3)] :
          i \in IF nickname = <<>> THEN {} ELSE LinesFor(file, nickname)}

-----------------------------------------------------------------------------
(* Properties *)

\* The answer a connection is about to get was made from what this connection
\* has sent and from nothing else that ever was in the buffer.
NothingLeftOver ==
    pc \in {"dispatch", "write", "close"} => request = ReadHttpRequest[arrived]

\* When a request has been read as a whole, one message goes out for a form whose
\* nickname, as it was submitted, is known, by SMS for high priority and by email
\* otherwise, to what the last line with that nickname has in the file of contacts
\* and with the text that was submitted, which is the browser's encoding of the
\* text filled in; and none for another form or for a request in which no nickname
\* is (NotifyRequestHandler::Handle, ContactList::ParseCSV). Of a request of which
\* less was read only the latter is said: see the hazards.
MessagesAsSubmitted ==
    pc = "close" =>
      /\ arrived = text[client] => \E file \in Files :
           \A form \in Forms :
             <<arrived, form>> \in Requests =>
               messages = Expected(client, Submitted(form), file)
      /\ "nickname" \notin ToSet(arrived) => messages = {}

\* "If nickname is specified, send message to that person using notifier"
\* (NotifyRequestHandler::Handle): the message goes to the nickname and with the
\* text that the user has filled in. It does not: nothing undoes the encoding of
\* the form, neither ReadHttpRequest() nor Handle().
MessagesAsFilledIn ==
    pc = "close" /\ arrived = text[client] =>
      \E file \in Files : \A form \in Forms :
        <<arrived, form>> \in Requests => messages = Expected(client, form, file)

\* Every accepted connection is closed again, and so the next one served,
\* unless a check ends the process (StartServer's loop).
ConnectionsAreServed ==
    \A c \in Clients : conn[c] = "queued" ~> (conn[c] = "closed" \/ pc = "aborted")
=============================================================================
