---------------------------- MODULE NotifierText ----------------------------
(***************************************************************************)
(* The two texts the example application of examples/notifier reads: HTTP   *)
(* requests (SimpleHttpServer::ReadHttpRequest) and the list of contacts    *)
(* (ContactList::ParseCSV). A text is a sequence of tokens, the separators   *)
(* the parsers look for and the words between them, in as many parts as one *)
(* likes to tell apart; a C string in a buffer ends at the first NUL.       *)
(* A line break is one token with what belongs to it: see Canonical.        *)
(***************************************************************************)
EXTENDS Integers, SequencesExt

NUL == "NUL"
EOL == "CRLF"           \* "\r\n"
EOH == "CRLFCRLF"       \* "\r\n\r\n", the end of the headers
CR == "CR"              \* one without the other
LF == "LF"

LineEnds == {EOL, EOH, CR, LF}
ArgumentEnds == {" "} \cup LineEnds

Text == Seq(STRING)

\* No two tokens of a text make a line break that strstr would find: that is
\* one token. A cut of a text is one too.
Canonical(text) ==
    \A i \in 1..Len(text) - 1 :
      <<text[i], text[i + 1]>> \notin {<<CR, LF>>, <<EOL, EOL>>, <<EOL, EOH>>}

\* strchr, strstr and strpbrk: the first place of one of the tokens, 0 if none.
Find(tokens) == [text \in Text |-> SelectInSeq(text, LAMBDA x : x \in tokens)]

Before(tokens) ==
    [text \in Text |->
       LET end == Find(tokens)[text]
       IN IF end = 0 THEN text ELSE SubSeq(text, 1, end - 1)]

After(tokens) ==
    [text \in Text |-> SubSeq(text, Find(tokens)[text] + 1, Len(text))]

CString(buffer) ==
    LET end == SelectInSeq(buffer, LAMBDA x : x = NUL)
    IN IF end = 0 THEN buffer ELSE SubSeq(buffer, 1, end - 1)

-----------------------------------------------------------------------------
(* CGI arguments: `key=value` pairs with `&` between them, up to the end of  *)
(* the line or a space. A piece without `=` has the value "1".               *)

Starts(text) == {1} \cup {i + 1 : i \in {j \in 1..Len(text) : text[j] = "&"}}
Piece(text, i) == Before({"&"})[SubSeq(text, i, Len(text))]
Key(piece) == Before({"="})[piece]
Val(piece) == IF Find({"="})[piece] = 0 THEN <<"1">> ELSE After({"="})[piece]

\* cgi_args_map_[key] = value, piece after piece: the last one stays.
ReadArguments[text \in Text] ==
    LET Of(key) == {i \in Starts(text) : Key(Piece(text, i)) = key}
    IN [key \in {Key(Piece(text, i)) : i \in Starts(text)} |->
          Val(Piece(text, CHOOSE i \in Of(key) : \A j \in Of(key) : j <= i))]

NoArguments == [key \in {} |-> <<>>]
ParseError == [ok |-> FALSE, args |-> NoArguments]
Parsed(args) == [ok |-> TRUE, args |-> args]

\* SimpleHttpServer::ReadHttpRequest: the method up to the first space, then
\* what follows the first '?' of the first line (GET) or the headers (POST).
ReadHttpRequest[text \in Text] ==
    LET method == Before({" "})[text]
        line == Before(LineEnds)[text]
        Arguments(rest) == ReadArguments[Before(ArgumentEnds)[rest]]
    IN IF Find({" "})[text] = 0 THEN ParseError
       ELSE IF method = <<"GET">>
       THEN IF Find({"?"})[line] = 0 THEN Parsed(NoArguments)
            ELSE Parsed(Arguments(After({"?"})[line]))
       ELSE IF method = <<"POST">> /\ Find({EOH})[text] # 0
       THEN IF After({EOH})[text] = <<>> THEN Parsed(NoArguments)
            ELSE Parsed(Arguments(After({EOH})[text]))
       ELSE ParseError

\* GetCgiArg() of nfe_request_handler.cc: "" when the argument is missing.
CgiArg(args, key) == IF <<key>> \in DOMAIN args THEN args[<<key>>] ELSE <<>>

-----------------------------------------------------------------------------
(* A line of the file is [fields, long]: its fields, and whether it exceeds  *)
(* kMaxLineLength. A file that ends in a newline has one more, empty, line.  *)

\* readValue(): a field that is not there leaves the string empty.
Field(line, i) == IF i <= Len(line.fields) THEN line.fields[i] ELSE <<>>

\* ContactList::ParseCSV: lines are read while the stream is good, an
\* over-long one is the last, and a later line of a nickname replaces an
\* earlier one.
ParseCSV(lines) ==
    LET long == SelectInSeq(lines, LAMBDA line : line.long)
        read == IF long = 0 THEN lines ELSE SubSeq(lines, 1, long)
        Nickname(line) == Field(line, 1)
    IN [nick \in {Nickname(read[i]) : i \in 1..Len(read)} |->
          LET line == read[SelectLastInSeq(read, LAMBDA x : Nickname(x) = nick)]
          IN [email_id |-> Field(line, 3), mobile_number |-> Field(line, 4)]]
=============================================================================
