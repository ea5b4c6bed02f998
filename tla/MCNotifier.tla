----------------------------- MODULE MCNotifier -----------------------------
(* Two clients, and contacts with a nickname on two lines, with a newline at  *)
(* the end of the file and with a line that is too long.                      *)
EXTENDS Notifier

\* The texts a browser makes of a form, its words encoded.
RECURSIVE Query(_)
Query(pairs) ==
    IF pairs = <<>> THEN <<>>
    ELSE <<Head(pairs)[1], "=">> \o Head(pairs)[2]
         \o (IF Len(pairs) = 1 THEN <<>> ELSE <<"&">>) \o Query(Tail(pairs))
GET(form) == <<"GET", " ", "/", "?">> \o Query(Submitted(form)) \o <<" ", "HTTP", EOH>>
POST(form) == <<"POST", " ", "/", " ", "HTTP", EOH>> \o Query(Submitted(form))

\* "tommy", of which a cut can leave "tom".
Tommy == <<"tom", "my">>
TommyForm == << <<"nickname", Tommy>>, <<"message", <<"hi", "&", "bye">> >>,
                <<"priority", <<"high">> >> >>
AnnForm == << <<"nickname", <<"ann">> >>, <<"priority", <<"high">> >>,
              <<"priority", <<"low">> >> >>
TomCat == <<"tom", " ", "cat">>
TomCatForm == << <<"nickname", TomCat>>, <<"message", <<"hi", " ", "there">> >> >>
LongForm == << <<"nickname", Tommy>>, <<"message", <<"hi", " ", "there", "you">> >>,
               <<"nickname", <<"tom">> >> >>
NoBodyForm == << <<"nickname", <<>> >>, <<"message", <<"hi">> >> >>
SomeForms == {TommyForm, AnnForm, TomCatForm, LongForm, NoBodyForm}

\* The last three are a request that does not fit, one whose first line ends
\* before the query and one that is not understood.
SomeTexts ==
    {POST(TommyForm), GET(AnnForm), GET(TomCatForm),
     GET(NoBodyForm), POST(LongForm), <<"GET", " ", "/", LF, "?", "priority", EOH>>, <<"PUT", " ", "/", EOH>>}

\* A request for a nickname of two words, which is in the file.
TomCatTexts == {GET(TomCatForm)}

Line(nick, email, mobile) ==
    [fields |-> <<nick, nick, <<email>>, <<mobile>> >>, long |-> FALSE]
SomeFiles ==
    {<<Line(<<"tom">>, "mail1", "num1"), Line(Tommy, "mail2", "num2"),
       Line(<<"ann">>, "mail3", "num3"), Line(Tommy, "mail4", "num4"),
       Line(TomCat, "mail5", "num5"),
       [fields |-> <<>>, long |-> FALSE]>>,
     <<Line(<<"tom">>, "mail1", "num1"), [fields |-> << <<"ann">> >>, long |-> TRUE],
       Line(Tommy, "mail2", "num2")>>}
TomCatFiles == {<<Line(TomCat, "mail5", "num5")>>}

Finished ==
    /\ pc = "aborted" \/ \A c \in Clients : conn[c] = "closed"
    /\ UNCHANGED notifier_vars

MCSpec ==
    /\ NotifierInit
    /\ [][NotifierNext \/ Finished]_notifier_vars
    /\ WF_notifier_vars(ServerStep)
    /\ \A c \in Clients : WF_notifier_vars(Send(c) \/ HangUp(c))
=============================================================================
