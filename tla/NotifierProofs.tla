---------------------------- MODULE NotifierProofs ----------------------------
(***************************************************************************)
(* A request is made from what its own connection has sent, and a request    *)
(* that spells a form yields the values the form has, for any clients, texts, *)
(* forms and size of the buffer. The invariant of the first part: between    *)
(* connections the buffer is all zeros, and while one is served it holds what *)
(* was read and then zeros, so that the string in it ends where the read did; *)
(* no client sends a NUL, and the last byte of the buffer is never read into. *)
(* The second part shows that the parser, which cuts the text at separators,  *)
(* finds the words that InputsAt places in it, that the reader of the contact *)
(* file keeps the line that counts, and that the handlers send what the form  *)
(* asks for.                                                                  *)
(***************************************************************************)
EXTENDS Notifier, TLAPS, SequenceTheorems, WellFoundedInduction

\* What a client may send.
Token == STRING \ {NUL}

Serving == pc \in {"parse", "dispatch", "write", "close"}

WiresTyped ==
    /\ wire \in [Clients -> Seq(Token)]
    /\ to_send \in [Clients -> Seq(Token)]
    /\ backlog \in Seq(Clients)
    /\ pc \in {"accept", "read", "parse", "dispatch", "write", "close", "aborted"}
    /\ pc \notin {"accept", "aborted"} => client \in Clients

\* What the buffer holds when s was read into it and nothing before.
Filled(s) == [i \in 1..kBufferSize |-> IF i <= Len(s) THEN s[i] ELSE NUL]

BufferHoldsRequest ==
    /\ pc \in {"accept", "read"} => buffer = Zeroed
    /\ Serving => /\ arrived \in Seq(Token) /\ Len(arrived) = rsize
                  /\ rsize < kBufferSize
                  /\ buffer = Filled(arrived)

NotifierInv == WiresTyped /\ BufferHoldsRequest /\ NothingLeftOver

-----------------------------------------------------------------------------

\* The least element is the one Min() chooses.
LEMMA MinIs ==
    ASSUME NEW S \in SUBSET Nat, NEW m \in S, \A x \in S : m <= x
    PROVE  Min(S) = m
  <1>1. Min(S) \in S /\ \A x \in S : Min(S) <= x
    BY DEF Min
  <1>2. Min(S) <= m /\ m <= Min(S) /\ m \in Nat /\ Min(S) \in Nat
    BY <1>1
  <1> QED  BY <1>2

LEMMA MinOfTwo ==
    ASSUME NEW a \in Nat, NEW b \in Nat, a <= b
    PROVE  Min({a, b}) = a /\ Min({b, a}) = a
  <1>1. ASSUME NEW S, S = {a, b}
        PROVE  Min(S) = a
    <2>1. S \in SUBSET Nat /\ a \in S /\ \A x \in S : a <= x
      BY <1>1
    <2> QED  BY <2>1, MinIs
  <1>2. {a, b} = {b, a}
    OBVIOUS
  <1> QED  BY <1>1, <1>2

\* The string that strchr() and its like see in the buffer ends where the read
\* did (SimpleHttpServer::StartServer).
LEMMA StringEndsWhereRead ==
    ASSUME NEW s \in Seq(Token), Len(s) < kBufferSize
    PROVE  CString(Filled(s)) = s
  <1> DEFINE b == Filled(s)
             n == Len(s)
             I == {i \in 1..Len(b) : b[i] = NUL}
             end == SelectInSeq(b, LAMBDA x : x = NUL)
  <1>1. n \in Nat /\ kBufferSize \in Nat /\ \A i \in 1..n : s[i] # NUL
    BY NotifierAssumption DEF Token
  <1>2. /\ Len(b) = kBufferSize
        /\ \A i \in 1..kBufferSize : b[i] = IF i <= n THEN s[i] ELSE NUL
        /\ b = [i \in 1..kBufferSize |-> IF i <= n THEN s[i] ELSE NUL]
    BY <1>1 DEF Filled
  <1>3. end = IF I # {} THEN Min(I) ELSE 0
    BY DEF SelectInSeq
  <1>4. n + 1 \in I /\ \A i \in I : n + 1 <= i
    BY <1>1, <1>2
  <1>5. I \subseteq Nat
    OBVIOUS
  <1>6. CString(b) = IF end = 0 THEN b ELSE SubSeq(b, 1, end - 1)
    BY DEF CString
  <1> HIDE DEF I, end, b, n
  <1>7. Min(I) = n + 1
    BY <1>4, <1>5, MinIs
  <1>8. end = n + 1
    BY <1>3, <1>4, <1>7
  <1>9. CString(b) = SubSeq(b, 1, n)
    BY <1>1, <1>6, <1>8
  <1>10. SubSeq(b, 1, n) = s
    BY <1>1, <1>2, n < kBufferSize DEF n
  <1> QED  BY <1>9, <1>10 DEF b

\* A piece of what a client sends.
LEMMA PieceTyped ==
    ASSUME NEW s \in Seq(Token), NEW m \in Nat \ {0}, NEW n \in Nat, n <= Len(s)
    PROVE  SubSeq(s, m, n) \in Seq(Token)
  <1>1. \A i \in 1..Len(s) : s[i] \in Token
    OBVIOUS
  <1> QED  BY <1>1, SubSeqProperties

-----------------------------------------------------------------------------
(* What the parsers of NotifierText.tla find.                               *)

LEMMA LeastOf ==
    ASSUME NEW I \in SUBSET Nat, I # {}
    PROVE  \E x \in I : \A y \in I : x <= y
  <1>1. PICK x \in I : \A y \in I : ~(<<y, x>> \in OpToRel(<, Nat))
    BY WFMin, NatLessThanWellFounded, Zenon
  <1>2. \A y \in I : ~(y < x)
    <2> SUFFICES ASSUME NEW y \in I, y < x  PROVE FALSE
      OBVIOUS
    <2>1. <<y, x>> \in Nat \X Nat /\ <<y, x>>[1] = y /\ <<y, x>>[2] = x
      OBVIOUS
    <2>2. <<y, x>> \in OpToRel(<, Nat)
      BY <2>1, Zenon DEF OpToRel
    <2> QED  BY <1>1, <2>2
  <1> QED  BY <1>2

\* Find at the first place that counts (strchr, strstr, strpbrk).
FirstAt(t, T, k) ==
    /\ t \in Text /\ k \in 1..Len(t) /\ t[k] \in T
    /\ \A i \in 1..(k - 1) : t[i] \notin T

LEMMA FindIs ==
    ASSUME NEW t, NEW T, NEW k, FirstAt(t, T, k)
    PROVE  /\ Find(T)[t] = k
           /\ Before(T)[t] = SubSeq(t, 1, k - 1)
           /\ After(T)[t] = SubSeq(t, k + 1, Len(t))
  <1> USE DEF FirstAt
  <1> DEFINE I == {i \in 1..Len(t) : t[i] \in T}
  <1>1. Find(T)[t] = IF I # {} THEN Min(I) ELSE 0
    BY DEF Find, SelectInSeq
  <1>2. Len(t) \in Nat
    BY DEF Text
  <1>3. I \in SUBSET Nat /\ k \in I /\ \A i \in I : k <= i
    BY <1>2
  <1> HIDE DEF I
  <1>4. Min(I) = k
    BY <1>3, MinIs
  <1>5. Find(T)[t] = k
    BY <1>1, <1>3, <1>4
  <1>6. k # 0
    BY <1>2
  <1>7. Before(T)[t] = SubSeq(t, 1, k - 1)
    BY <1>5, <1>6 DEF Before
  <1>8. After(T)[t] = SubSeq(t, k + 1, Len(t))
    BY <1>5 DEF After
  <1> QED  BY <1>5, <1>7, <1>8

LEMMA FindNothing ==
    ASSUME NEW t \in Text, NEW T,
           \A i \in 1..Len(t) : t[i] \notin T
    PROVE  Find(T)[t] = 0 /\ Before(T)[t] = t
  <1> DEFINE I == {i \in 1..Len(t) : t[i] \in T}
  <1>1. Find(T)[t] = IF I # {} THEN Min(I) ELSE 0
    BY DEF Find, SelectInSeq
  <1>2. I = {}
    OBVIOUS
  <1>3. Find(T)[t] = 0
    BY <1>1, <1>2
  <1> QED  BY <1>3 DEF Before

LEMMA FindFinds ==
    ASSUME NEW t \in Text, NEW T
    PROVE  \/ Find(T)[t] = 0 /\ \A i \in 1..Len(t) : t[i] \notin T
           \/ /\ Find(T)[t] \in 1..Len(t) /\ t[Find(T)[t]] \in T
              /\ \A i \in 1..(Find(T)[t] - 1) : t[i] \notin T
  <1> DEFINE I == {i \in 1..Len(t) : t[i] \in T}
  <1>1. CASE I = {}
    <2>1. \A i \in 1..Len(t) : t[i] \notin T
      BY <1>1
    <2> QED  BY <2>1, FindNothing
  <1>2. CASE I # {}
    <2>1. I \in SUBSET Nat /\ Len(t) \in Nat
      BY DEF Text
    <2>2. PICK k \in I : \A i \in I : k <= i
      BY <1>2, <2>1, LeastOf
    <2>3. k \in 1..Len(t) /\ t[k] \in T
      OBVIOUS
    <2>4. \A i \in 1..(k - 1) : t[i] \notin T
      BY <2>1, <2>2, <2>3
    <2>5. Find(T)[t] = k
      BY <2>3, <2>4, FindIs DEF FirstAt
    <2> QED  BY <2>3, <2>4, <2>5
  <1> QED  BY <1>1, <1>2

-----------------------------------------------------------------------------
(* What the parser makes of the query of a form.                            *)

\* A part of a text is one.
LEMMA Part ==
    ASSUME NEW t \in Text, NEW m \in Nat \ {0}, NEW n \in Nat, n <= Len(t), m <= n + 1
    PROVE  /\ SubSeq(t, m, n) \in Text /\ Len(SubSeq(t, m, n)) = n - m + 1
           /\ \A k \in 1..n - m + 1 : SubSeq(t, m, n)[k] = t[m + k - 1]
  <1>1. \A k \in m..n : t[k] \in STRING
    BY DEF Text
  <1>2. (IF m <= n THEN n - m + 1 ELSE 0) = n - m + 1
    OBVIOUS
  <1> QED  BY <1>1, <1>2, SubSeqProperties DEF Text

\* What parsers look for is not in the words that a browser submits.
Separators == {"&"} \cup ArgumentEnds

Submissions == {Submitted(form) : form \in Forms}

LEMMA EscapedIsNoSeparator ==
    ASSUME NEW token
    PROVE  Escape(token) \notin Separators
  <1>1. Separators = {"&", " ", "CRLF", "CRLFCRLF", "CR", "LF"}
    BY DEF Separators, ArgumentEnds, LineEnds, EOL, EOH, CR, LF
  <1> QED  BY <1>1 DEF Escape, EOL, EOH, CR, LF, NUL

LEMMA SubmissionWords ==
    ASSUME NEW form \in Submissions
    PROVE  /\ Len(form) \in Nat \ {0}
           /\ \A i \in 1..Len(form) :
                /\ form[i][1] \notin Separators /\ form[i][1] # "="
                /\ \A k \in 1..Len(form[i][2]) : form[i][2][k] \notin Separators
  <1>1. PICK filled \in Forms : form = Submitted(filled)
    BY DEF Submissions
  <1>2. filled \in Seq(InputNames \X Text) /\ filled # <<>>
    BY FormAssumption
  <1>3. /\ Len(filled) \in Nat \ {0} /\ Len(form) = Len(filled)
        /\ form = [i \in 1..Len(filled) |-> <<filled[i][1], Encoded(filled[i][2])>>]
    BY <1>1, <1>2 DEF Submitted
  <1>4. ASSUME NEW i \in 1..Len(form)
        PROVE  /\ form[i][1] \notin Separators /\ form[i][1] # "="
               /\ \A k \in 1..Len(form[i][2]) : form[i][2][k] \notin Separators
    <2>1. filled[i][1] \in InputNames /\ filled[i][2] \in Seq(STRING)
      <3>1. filled[i] \in InputNames \X Text
        BY <1>2, <1>3
      <3> QED  BY <3>1 DEF Text
    <2>2. form[i][1] = filled[i][1] /\ form[i][2] = Encoded(filled[i][2])
      BY <1>3
    <2>3. \A k \in 1..Len(Encoded(filled[i][2])) : Encoded(filled[i][2])[k] \notin Separators
      BY <2>1, EscapedIsNoSeparator DEF Encoded
    <2>4. \A name \in InputNames : name \notin Separators /\ name # "="
      BY DEF InputNames, Separators, ArgumentEnds, LineEnds, EOL, EOH, CR, LF
    <2> QED  BY <2>1, <2>2, <2>3, <2>4
  <1> QED  BY <1>3, <1>4

QueryAt(q, form, at) ==
    /\ q \in Text /\ form \in Submissions
    /\ at \in [1..Len(form) + 1 -> 1..Len(q) + 2]
    /\ InputsAt(q, form, at)

\* Every input has its place, and every place of the query is of one input.
LEMMA InputPlaces ==
    ASSUME NEW q, NEW form, NEW at, QueryAt(q, form, at)
    PROVE  /\ Len(form) \in Nat \ {0} /\ Len(q) \in Nat
           /\ \A i \in 1..Len(form) :
                /\ at[i] \in 1..Len(q) /\ at[i + 1] \in 1..Len(q) + 2
                /\ at[i] + 2 < at[i + 1]
                /\ form[i][1] \in STRING /\ form[i][2] \in Text
                /\ form[i][1] \notin Separators /\ form[i][1] # "="
           /\ \A i \in 1..Len(form) : i < Len(form) => at[i + 1] <= Len(q)
           /\ \A i, j \in 1..Len(form) : i < j => at[i] < at[j]
  <1> DEFINE n == Len(form)
  <1>1. q \in Seq(STRING) /\ form \in Submissions
    BY DEF QueryAt, Text
  <1>2. n \in Nat \ {0} /\ Len(q) \in Nat
    BY <1>1, SubmissionWords
  <1>3. \A i \in 1..n + 1 : at[i] \in 1..Len(q) + 2
    BY DEF QueryAt
  <1>4. /\ \A i, j \in 1..n + 1 : i < j => at[i] + 2 < at[j]
        /\ at[n + 1] = Len(q) + 2
    BY DEF QueryAt, InputsAt
  <1>5. \A i \in 1..n : form[i][1] \notin Separators /\ form[i][1] # "="
    BY <1>1, SubmissionWords, Zenon
  <1> HIDE DEF n
  <1>6. \A i \in 1..n : /\ i \in 1..n + 1 /\ i + 1 \in 1..n + 1 /\ n + 1 \in 1..n + 1
                        /\ i < i + 1 /\ i < n + 1 /\ (i < n => i + 1 < n + 1)
    BY <1>2
  <1>7. \A i \in 1..n : /\ at[i] \in 1..Len(q) /\ at[i + 1] \in 1..Len(q) + 2
                        /\ at[i] + 2 < at[i + 1]
                        /\ i < n => at[i + 1] <= Len(q)
    BY <1>2, <1>3, <1>4, <1>6
  <1>8. \A i, j \in 1..n : i < j => at[i] < at[j]
    BY <1>2, <1>3, <1>4, <1>6
  <1>9. \A i \in 1..n : form[i][1] \in STRING /\ form[i][2] \in Text
    <2> SUFFICES ASSUME NEW i \in 1..n  PROVE form[i][1] \in STRING /\ form[i][2] \in Text
      OBVIOUS
    <2>1. form[i][1] = q[at[i]] /\ form[i][2] = SubSeq(q, at[i] + 2, at[i + 1] - 2)
      BY DEF QueryAt, InputsAt, n
    <2>2. /\ at[i] + 2 \in Nat \ {0} /\ at[i + 1] - 2 \in Nat
          /\ at[i + 1] - 2 <= Len(q) /\ at[i] + 2 <= at[i + 1] - 2 + 1
      BY <1>2, <1>7
    <2>3. SubSeq(q, at[i] + 2, at[i + 1] - 2) \in Text
      BY <1>1, <2>2, Part DEF Text
    <2> QED  BY <1>1, <1>7, <2>1, <2>3
  <1> QED  BY <1>2, <1>5, <1>7, <1>8, <1>9 DEF n

\* The words of an input stand behind its "=".
WrittenAt(q, form, at, i) ==
    /\ q[at[i]] = form[i][1] /\ q[at[i] + 1] = "="
    /\ form[i][2] = SubSeq(q, at[i] + 2, at[i + 1] - 2)
    /\ Len(form[i][2]) = at[i + 1] - at[i] - 3
    /\ i < Len(form) => q[at[i + 1] - 1] = "&"
    /\ at[Len(form) + 1] = Len(q) + 2
    /\ \A j \in at[i]..at[i + 1] - 2 : q[j] \notin Separators

LEMMA InputWords ==
    ASSUME NEW q, NEW form, NEW at, QueryAt(q, form, at), NEW i \in 1..Len(form)
    PROVE  WrittenAt(q, form, at, i)
  <1> DEFINE a == at[i] + 2
             b == at[i + 1] - 2
             w == form[i][2]
  <1>1. /\ q[at[i]] = form[i][1] /\ q[at[i] + 1] = "=" /\ w = SubSeq(q, a, b)
        /\ i < Len(form) => q[at[i + 1] - 1] = "&"
        /\ at[Len(form) + 1] = Len(q) + 2
    BY DEF QueryAt, InputsAt
  <1>2. /\ at[i] \in 1..Len(q) /\ at[i + 1] \in 1..Len(q) + 2 /\ at[i] + 2 < at[i + 1]
        /\ Len(q) \in Nat
    BY InputPlaces
  <1>10. form[i][1] \notin Separators /\ form[i][1] # "="
    BY InputPlaces
  <1>3. a \in Nat /\ b \in Nat /\ a <= b + 1 /\ 1 <= a /\ b <= Len(q)
    <2>1. \A x, y, m \in Nat : x + 2 < y /\ 1 <= x /\ y <= m + 2 =>
            /\ x + 2 \in Nat /\ y - 2 \in Nat /\ x + 2 <= (y - 2) + 1
            /\ 1 <= x + 2 /\ y - 2 <= m
      OBVIOUS
    <2>2. at[i] \in Nat /\ at[i + 1] \in Nat /\ 1 <= at[i] /\ at[i + 1] <= Len(q) + 2
      BY <1>2
    <2> QED  BY <1>2, <2>1, <2>2
  <1>4. \A k \in 1..Len(w) : w[k] \notin Separators
    BY SubmissionWords DEF QueryAt
  <1>5. \A k \in a..b : q[k] \in STRING
    BY <1>3 DEF QueryAt, Text
  <1> HIDE DEF a, b, w
  <1>6. Len(w) = b - a + 1 /\ \A k \in 1..(b - a + 1) : w[k] = q[a + k - 1]
    BY <1>1, <1>3, <1>5, SubSeqProperties
  <1>7. \A j \in a..b : q[j] \notin Separators
    <2> SUFFICES ASSUME NEW j \in a..b  PROVE q[j] \notin Separators
      OBVIOUS
    <2>1. j - a + 1 \in 1..Len(w) /\ j - a + 1 \in 1..(b - a + 1) /\ a + (j - a + 1) - 1 = j
      BY <1>3, <1>6
    <2>2. w[j - a + 1] = q[j]
      BY <1>6, <2>1
    <2> QED  BY <1>4, <2>1, <2>2
  <1>8. \A j \in at[i]..at[i + 1] - 2 : j = at[i] \/ j = at[i] + 1 \/ j \in a..b
    <2>1. \A x, y \in Nat : \A j \in x..y - 2 :
            j = x \/ j = x + 1 \/ j \in x + 2..y - 2
      OBVIOUS
    <2>2. at[i] \in Nat /\ at[i + 1] \in Nat
      BY <1>2
    <2> QED  BY <2>1, <2>2, Zenon DEF a, b
  <1>9. \A j \in at[i]..at[i + 1] - 2 : q[j] \notin Separators
    <2>1. "=" \notin Separators
      BY DEF Separators, ArgumentEnds, LineEnds, EOL, EOH, CR, LF
    <2>2. q[at[i]] \notin Separators /\ q[at[i] + 1] \notin Separators
      BY <1>1, <1>10, <2>1, Zenon
    <2> SUFFICES ASSUME NEW j \in at[i]..at[i + 1] - 2  PROVE q[j] \notin Separators
      OBVIOUS
    <2>3. j = at[i] \/ j = at[i] + 1 \/ j \in a..b
      BY <1>8
    <2>4. CASE j = at[i] \/ j = at[i] + 1
      BY <2>2, <2>4, Zenon
    <2>5. CASE j \in a..b
      BY <1>7, <2>5, Zenon
    <2> QED  BY <2>3, <2>4, <2>5, Zenon
  <1>11. Len(w) = at[i + 1] - at[i] - 3
    <2>1. \A x, y \in Nat : (y - 2) - (x + 2) + 1 = y - x - 3
      OBVIOUS
    <2>2. at[i] \in Nat /\ at[i + 1] \in Nat
      BY <1>2
    <2>3. (at[i + 1] - 2) - (at[i] + 2) + 1 = at[i + 1] - at[i] - 3
      BY <2>1, <2>2
    <2> QED  BY <1>6, <2>3, Zenon DEF a, b
  <1> QED  BY <1>1, <1>9, <1>11, Zenon DEF WrittenAt, a, b, w

LEMMA InputOfPlace ==
    ASSUME NEW q, NEW form, NEW at, QueryAt(q, form, at), NEW j \in 1..Len(q)
    PROVE  \E i \in 1..Len(form) : at[i] <= j /\ j < at[i + 1]
  <1> DEFINE n == Len(form)
             I == {m \in 1..n + 1 : j < at[m]}
  <1>1. /\ n \in Nat \ {0} /\ Len(q) \in Nat /\ at[1] = 1 /\ at[n + 1] = Len(q) + 2
        /\ \A m \in 1..n + 1 : at[m] \in Nat
    <2>1. n \in Nat \ {0} /\ Len(q) \in Nat
      BY InputPlaces
    <2>2. at[1] = 1 /\ at[n + 1] = Len(q) + 2
      BY DEF QueryAt, InputsAt
    <2>3. \A m \in 1..n + 1 : at[m] \in 1..Len(q) + 2
      BY DEF QueryAt
    <2> QED  BY <2>1, <2>2, <2>3
  <1>2. I \in SUBSET Nat /\ n + 1 \in I /\ 1 \notin I
    BY <1>1
  <1>3. PICK m \in I : \A k \in I : m <= k
    BY <1>2, LeastOf
  <1>4. m \in 2..n + 1 /\ j < at[m]
    BY <1>1, <1>2, <1>3
  <1>5. m - 1 \in 1..n /\ m - 1 \notin I /\ m - 1 \in 1..n + 1
    BY <1>1, <1>3, <1>4
  <1>6. ~(j < at[m - 1])
    BY <1>5
  <1> HIDE DEF I, n
  <1>7. at[m - 1] \in Nat /\ (m - 1) + 1 = m
    BY <1>1, <1>4, <1>5
  <1>8. at[m - 1] <= j /\ j < at[(m - 1) + 1]
    BY <1>1, <1>4, <1>6, <1>7
  <1> QED  BY <1>5, <1>8 DEF n

\* The only separators of a query are the "&" between two inputs.
LEMMA QuerySeparators ==
    ASSUME NEW q, NEW form, NEW at, QueryAt(q, form, at), NEW j \in 1..Len(q),
           q[j] \in Separators
    PROVE  q[j] = "&" /\ \E i \in 1..Len(form) : i < Len(form) /\ j = at[i + 1] - 1
  <1>1. PICK i \in 1..Len(form) : at[i] <= j /\ j < at[i + 1]
    BY InputOfPlace
  <1>2. /\ \A k \in at[i]..at[i + 1] - 2 : q[k] \notin Separators
        /\ i < Len(form) => q[at[i + 1] - 1] = "&"
        /\ at[Len(form) + 1] = Len(q) + 2
    BY InputWords DEF WrittenAt
  <1>3. at[i] \in 1..Len(q) /\ at[i + 1] \in 1..Len(q) + 2 /\ Len(q) \in Nat /\ Len(form) \in Nat
    BY InputPlaces
  <1>4. j \notin at[i]..at[i + 1] - 2
    BY <1>2, Zenon
  <1>5. j = at[i + 1] - 1
    BY <1>1, <1>3, <1>4
  <1>6. i < Len(form)
    <2>1. i = Len(form) => at[i + 1] = Len(q) + 2
      BY <1>2
    <2> QED  BY <1>3, <1>5, <2>1
  <1> QED  BY <1>2, <1>5, <1>6, Zenon

\* Its pieces are the inputs.
LEMMA QueryStarts ==
    ASSUME NEW q, NEW form, NEW at, QueryAt(q, form, at)
    PROVE  Starts(q) = {at[i] : i \in 1..Len(form)}
  <1> DEFINE n == Len(form)
  <1>1. n \in Nat \ {0} /\ at[1] = 1 /\ Len(q) \in Nat
    <2>1. n \in Nat \ {0} /\ Len(q) \in Nat
      BY InputPlaces
    <2> QED  BY <2>1 DEF QueryAt, InputsAt
  <1>2. ASSUME NEW j \in 1..Len(q), q[j] = "&"
        PROVE  \E i \in 1..n : j + 1 = at[i]
    <2>1. q[j] \in Separators
      BY <1>2 DEF Separators
    <2>2. PICK i \in 1..n : i < n /\ j = at[i + 1] - 1
      BY <2>1, QuerySeparators
    <2>3. i + 1 \in 1..n /\ at[i + 1] \in 1..Len(q) + 2
      <3>1. at[i + 1] \in 1..Len(q) + 2
        BY InputPlaces
      <3> QED  BY <1>1, <2>2, <3>1
    <2>4. j + 1 = at[i + 1]
      BY <2>2, <2>3
    <2> QED  BY <2>3, <2>4
  <1>3. ASSUME NEW i \in 1..n, i # 1
        PROVE  \E j \in 1..Len(q) : q[j] = "&" /\ at[i] = j + 1
    <2>1. i - 1 \in 1..n /\ i - 1 < n /\ (i - 1) + 1 = i
      BY <1>1, <1>3
    <2>2. q[at[(i - 1) + 1] - 1] = "&"
      <3>1. i - 1 \in 1..Len(form) /\ i - 1 < Len(form)
        BY <2>1
      <3>2. WrittenAt(q, form, at, i - 1)
        BY <3>1, InputWords
      <3> QED  BY <3>1, <3>2 DEF WrittenAt
    <2>3. at[i] \in 1..Len(q) /\ at[i - 1] \in 1..Len(q) /\ at[i - 1] < at[i]
      <3>1. at[i] \in 1..Len(q) /\ at[i - 1] \in 1..Len(q)
        BY <2>1, InputPlaces
      <3>2. i - 1 < i
        BY <1>1
      <3>3. at[i - 1] < at[i]
        BY <2>1, <3>2, InputPlaces
      <3> QED  BY <3>1, <3>3
    <2>4. at[i] - 1 \in 1..Len(q) /\ at[i] = (at[i] - 1) + 1
      BY <1>1, <2>3
    <2>5. q[at[i] - 1] = "&"
      BY <2>1, <2>2
    <2> QED  BY <2>4, <2>5
  <1> HIDE DEF n
  <1>4. ASSUME NEW s \in Starts(q)  PROVE s \in {at[i] : i \in 1..n}
    <2>1. CASE s = 1
      BY <1>1, <2>1
    <2>2. CASE s # 1
      <3>1. PICK j \in 1..Len(q) : q[j] = "&" /\ s = j + 1
        BY <2>2 DEF Starts
      <3> QED  BY <1>2, <3>1
    <2> QED  BY <2>1, <2>2
  <1>5. ASSUME NEW i \in 1..n  PROVE at[i] \in Starts(q)
    <2>1. CASE i = 1
      BY <1>1, <2>1 DEF Starts
    <2>2. CASE i # 1
      <3>1. PICK j \in 1..Len(q) : q[j] = "&" /\ at[i] = j + 1
        BY <1>3, <2>2
      <3> QED  BY <3>1 DEF Starts
    <2> QED  BY <2>1, <2>2
  <1> QED  BY <1>4, <1>5 DEF n

\* A piece is the name, "=" and the words of its input.
LEMMA QueryPiece ==
    ASSUME NEW q, NEW form, NEW at, QueryAt(q, form, at), NEW i \in 1..Len(form)
    PROVE  /\ Key(Piece(q, at[i])) = <<form[i][1]>>
           /\ Val(Piece(q, at[i])) = form[i][2]
  <1> DEFINE n == Len(form)
             a == at[i]
             b == at[i + 1]
             rest == SubSeq(q, a, Len(q))
             p == SubSeq(q, a, b - 2)
  <1>1. /\ a \in 1..Len(q) /\ b \in 1..Len(q) + 2 /\ a + 2 < b /\ Len(q) \in Nat
        /\ n \in Nat \ {0}
        /\ i < n => b <= Len(q)
    BY InputPlaces
  <1>2. /\ q[a] = form[i][1] /\ q[a + 1] = "=" /\ form[i][2] = SubSeq(q, a + 2, b - 2)
        /\ i < n => q[b - 1] = "&"
        /\ \A j \in a..b - 2 : q[j] \notin Separators
        /\ i = n => b = Len(q) + 2
    BY InputWords DEF WrittenAt
  <1>3. form[i][1] # "=" /\ form[i][1] \in STRING
    BY InputPlaces
  <1>4. \A j \in 1..Len(q) : q[j] \in STRING
    BY DEF QueryAt, Text
  <1> HIDE DEF n, a, b
  <1>5. /\ rest \in Text /\ Len(rest) = Len(q) - a + 1
        /\ \A k \in 1..Len(q) - a + 1 : rest[k] = q[a + k - 1]
    <2>1. \A j \in a..Len(q) : q[j] \in STRING
      BY <1>1, <1>4
    <2> QED  BY <1>1, <2>1, SubSeqProperties DEF Text
  <1>6. /\ p \in Text /\ Len(p) = b - a - 1
        /\ \A k \in 1..b - a - 1 : p[k] = q[a + k - 1]
    <2>1. \A j \in a..b - 2 : q[j] \in STRING
      BY <1>1, <1>4
    <2> QED  BY <1>1, <2>1, SubSeqProperties DEF Text
  <1> HIDE DEF rest, p
  <1>7. Piece(q, a) = p
    <2>1. Piece(q, a) = Before({"&"})[rest]
      BY DEF Piece, rest
    <2>2. CASE i = n
      <3>1. \A k \in 1..Len(rest) : a + k - 1 \in a..b - 2
        BY <1>1, <1>2, <1>5, <2>2
      <3>2. \A k \in 1..Len(rest) : rest[k] \notin Separators
        BY <1>2, <1>5, <3>1
      <3>3. \A k \in 1..Len(rest) : rest[k] \notin {"&"}
        BY <3>2 DEF Separators
      <3>4. Before({"&"})[rest] = rest
        BY <1>5, <3>3, FindNothing
      <3>5. b - 2 = Len(q)
        BY <1>1, <1>2, <2>2
      <3> QED  BY <2>1, <3>4, <3>5 DEF rest, p
    <2>3. CASE i # n
      <3> DEFINE k == b - a
      <3>1. i < n
        BY <1>1, <2>3 DEF n
      <3>2. k \in 1..Len(rest) /\ a + k - 1 = b - 1
        <4>1. b <= Len(q) /\ Len(rest) = Len(q) - a + 1
          <5>1. b <= Len(q)
            BY <1>1, <3>1
          <5> QED  BY <1>5, <5>1
        <4>2. \A x, y, m \in Nat : x >= 1 /\ x + 2 < y /\ y <= m =>
                y - x \in 1..m - x + 1 /\ x + (y - x) - 1 = y - 1
          OBVIOUS
        <4>3. a \in Nat /\ b \in Nat /\ a >= 1
          BY <1>1
        <4> QED  BY <1>1, <4>1, <4>2, <4>3
      <3>3. rest[k] = "&"
        BY <1>2, <1>5, <3>1, <3>2
      <3>4. \A j \in 1..(k - 1) : j \in 1..Len(rest) /\ a + j - 1 \in a..b - 2
        BY <1>1, <1>5, <3>1
      <3>5. \A j \in 1..(k - 1) : rest[j] \notin {"&"}
        <4>1. \A j \in 1..(k - 1) : rest[j] \notin Separators
          BY <1>2, <1>5, <3>4
        <4> QED  BY <4>1 DEF Separators
      <3> HIDE DEF k
      <3>6. FirstAt(rest, {"&"}, k)
        BY <1>5, <3>2, <3>3, <3>5 DEF FirstAt
      <3>7. Before({"&"})[rest] = SubSeq(rest, 1, k - 1)
        BY <3>6, FindIs
      <3>8. SubSeq(rest, 1, k - 1) = p
        <4>1. /\ SubSeq(rest, 1, k - 1) \in Seq(STRING) /\ Len(SubSeq(rest, 1, k - 1)) = k - 1
              /\ \A j \in 1..(k - 1) : SubSeq(rest, 1, k - 1)[j] = rest[j]
          <5>1. \A j \in 1..(k - 1) : rest[j] \in STRING
            BY <1>5, <3>4 DEF Text
          <5>2. k \in Nat \ {0}
            BY <1>5, <3>2, <1>1
          <5> QED  BY <5>1, <5>2, SubSeqProperties
        <4>2. k - 1 = b - a - 1
          BY DEF k
        <4>3. \A j \in 1..(k - 1) : rest[j] = p[j]
          BY <1>1, <1>5, <1>6, <3>4, <4>2
        <4> QED  BY <1>6, <4>1, <4>2, <4>3 DEF Text
      <3> QED  BY <2>1, <3>7, <3>8
    <2> QED  BY <2>2, <2>3
  <1>8. FirstAt(p, {"="}, 2)
    <2>1. 2 \in 1..Len(p) /\ 1 \in 1..(b - a - 1) /\ 2 \in 1..(b - a - 1) /\ a + 1 - 1 = a /\ a + 2 - 1 = a + 1
      BY <1>1, <1>6
    <2>2. p[1] = q[a] /\ p[2] = q[a + 1]
      BY <1>6, <2>1
    <2>3. p[1] # "=" /\ p[2] = "="
      BY <1>2, <1>3, <2>2
    <2>4. \A j \in 1..(2 - 1) : j = 1
      OBVIOUS
    <2> QED  BY <1>6, <2>1, <2>3, <2>4 DEF FirstAt
  <1>9. /\ Find({"="})[p] = 2 /\ Before({"="})[p] = SubSeq(p, 1, 2 - 1)
        /\ After({"="})[p] = SubSeq(p, 2 + 1, Len(p))
    BY <1>8, FindIs, Zenon
  <1>10. SubSeq(p, 1, 1) = <<form[i][1]>>
    <2>1. 1 \in 1..(b - a - 1) /\ a + 1 - 1 = a /\ Len(p) \in Nat /\ 1 \in 1..Len(p)
      BY <1>1, <1>6
    <2>2. p[1] = form[i][1]
      BY <1>2, <1>6, <2>1
    <2>3. \A j \in 1..1 : p[j] \in STRING
      BY <1>3, <2>2
    <2>4. /\ SubSeq(p, 1, 1) \in Seq(STRING)
          /\ Len(SubSeq(p, 1, 1)) = IF 1 <= 1 THEN 1 - 1 + 1 ELSE 0
          /\ \A j \in 1..1 - 1 + 1 : SubSeq(p, 1, 1)[j] = p[1 + j - 1]
      BY <2>3, SubSeqProperties
    <2>5. Len(SubSeq(p, 1, 1)) = 1 /\ SubSeq(p, 1, 1)[1] = p[1]
      BY <2>4
    <2> DEFINE u == SubSeq(p, 1, 1)
               x == form[i][1]
    <2>6. u \in Seq(STRING) /\ Len(u) = 1 /\ u[1] = x
      BY <2>2, <2>4, <2>5
    <2> HIDE DEF u, x
    <2>7. u = <<x>>
      BY <2>6
    <2> QED  BY <2>7 DEF u, x
  <1>11. SubSeq(p, 3, Len(p)) = SubSeq(q, a + 2, b - 2)
    <2> DEFINE l == b - a - 3
    <2>1. l \in Nat /\ Len(p) = l + 2
      BY <1>1, <1>6
    <2>2. /\ SubSeq(p, 3, Len(p)) \in Seq(STRING) /\ Len(SubSeq(p, 3, Len(p))) = l
          /\ \A k \in 1..l : SubSeq(p, 3, Len(p))[k] = p[k + 2]
      <3>1. \A k \in 3..Len(p) : p[k] \in STRING
        BY <1>6 DEF Text
      <3>2. /\ SubSeq(p, 3, Len(p)) \in Seq(STRING)
            /\ Len(SubSeq(p, 3, Len(p))) = IF 3 <= Len(p) THEN Len(p) - 3 + 1 ELSE 0
            /\ \A k \in 1..Len(p) - 3 + 1 : SubSeq(p, 3, Len(p))[k] = p[3 + k - 1]
        BY <2>1, <3>1, SubSeqProperties
      <3>3. (IF 3 <= Len(p) THEN Len(p) - 3 + 1 ELSE 0) = l /\ Len(p) - 3 + 1 = l
        BY <2>1
      <3>4. \A k \in 1..l : 3 + k - 1 = k + 2
        BY <2>1
      <3> HIDE DEF l
      <3> QED  BY <3>2, <3>3, <3>4
    <2>3. /\ SubSeq(q, a + 2, b - 2) \in Seq(STRING) /\ Len(SubSeq(q, a + 2, b - 2)) = l
          /\ \A k \in 1..l : SubSeq(q, a + 2, b - 2)[k] = q[a + k + 1]
      <3>1. \A k \in a + 2..b - 2 : q[k] \in STRING
        BY <1>1, <1>4
      <3>2. a + 2 \in Int /\ b - 2 \in Int
        BY <1>1
      <3>3. /\ SubSeq(q, a + 2, b - 2) \in Seq(STRING)
            /\ Len(SubSeq(q, a + 2, b - 2)) = IF a + 2 <= b - 2 THEN b - 2 - (a + 2) + 1 ELSE 0
            /\ \A k \in 1..b - 2 - (a + 2) + 1 : SubSeq(q, a + 2, b - 2)[k] = q[a + 2 + k - 1]
        BY <3>1, <3>2, SubSeqProperties
      <3>4. (IF a + 2 <= b - 2 THEN b - 2 - (a + 2) + 1 ELSE 0) = l /\ b - 2 - (a + 2) + 1 = l
        BY <1>1
      <3>5. \A k \in 1..l : a + 2 + k - 1 = a + k + 1
        BY <1>1
      <3> HIDE DEF l
      <3> QED  BY <3>3, <3>4, <3>5
    <2>4. \A k \in 1..l : k + 2 \in 1..b - a - 1 /\ a + (k + 2) - 1 = a + k + 1
      BY <1>1
    <2>5. \A k \in 1..l : p[k + 2] = q[a + k + 1]
      BY <1>6, <2>4
    <2> DEFINE u == SubSeq(p, 3, Len(p))
               v == SubSeq(q, a + 2, b - 2)
    <2> HIDE DEF l
    <2>6. u \in Seq(STRING) /\ v \in Seq(STRING) /\ Len(u) = l /\ Len(v) = l
      BY <2>2, <2>3
    <2>7. \A k \in 1..l : u[k] = v[k]
      BY <2>2, <2>3, <2>5
    <2> HIDE DEF u, v
    <2>8. u = v
      BY <2>6, <2>7
    <2> QED  BY <2>8 DEF u, v
  <1>12. /\ Key(p) = <<form[i][1]>> /\ Val(p) = form[i][2]
    <2>1. 2 - 1 = 1 /\ 2 + 1 = 3 /\ 2 # 0
      OBVIOUS
    <2>2. Find({"="})[p] # 0
      BY <1>9, <2>1
    <2>3. Before({"="})[p] = SubSeq(p, 1, 1) /\ After({"="})[p] = SubSeq(p, 3, Len(p))
      BY <1>9, <2>1
    <2> QED  BY <1>2, <1>10, <1>11, <2>2, <2>3 DEF Key, Val
  <1> QED  BY <1>7, <1>12 DEF a

LEMMA MaxIs ==
    ASSUME NEW S \in SUBSET Nat, NEW m \in S, \A x \in S : x <= m
    PROVE  Max(S) = m
  <1>1. Max(S) \in S /\ \A x \in S : Max(S) >= x
    BY DEF Max
  <1>2. Max(S) <= m /\ m <= Max(S) /\ m \in Nat /\ Max(S) \in Nat
    BY <1>1
  <1> QED  BY <1>2

LEMMA GreatestOf ==
    ASSUME NEW n \in Nat, NEW I \in SUBSET (1..n), I # {}
    PROVE  \E m \in I : \A i \in I : i <= m
  <1> DEFINE J == {n - i : i \in I}
  <1>1. J \in SUBSET Nat /\ J # {}
    <2>1. \A i \in I : n - i \in Nat
      OBVIOUS
    <2>2. PICK i \in I : TRUE
      OBVIOUS
    <2>3. n - i \in J
      OBVIOUS
    <2> QED  BY <2>1, <2>3
  <1>2. PICK j \in J : \A k \in J : j <= k
    BY <1>1, LeastOf
  <1>3. PICK m \in I : j = n - m
    OBVIOUS
  <1>4. \A i \in I : n - i \in J
    BY Zenon
  <1>5. \A i \in I : n - m <= n - i
    BY <1>2, <1>3, <1>4
  <1>6. \A i \in I : i <= m
    BY <1>5
  <1> QED  BY <1>6

\* Of the arguments of a query, each has the words of its last input
\* (cgi_args_map_ in ReadHttpRequest).
LEMMA QueryArguments ==
    ASSUME NEW q, NEW form, NEW at, QueryAt(q, form, at), NEW name
    PROVE  CgiArg(ReadArguments[q], name) = LastOf(form, name)
  <1> DEFINE n == Len(form)
             I == {i \in 1..n : form[i][1] = name}
             Of(key) == {s \in Starts(q) : Key(Piece(q, s)) = key}
             Chosen(key) == CHOOSE s \in Of(key) : \A r \in Of(key) : r <= s
             K == {Key(Piece(q, s)) : s \in Starts(q)}
             last == SelectLastInSeq(form, LAMBDA input : input[1] = name)
  <1>1. ReadArguments[q] = [key \in K |-> Val(Piece(q, Chosen(key)))]
    BY DEF ReadArguments, QueryAt
  <1>2. last = IF I # {} THEN Max(I) ELSE 0
    BY DEF SelectLastInSeq
  <1>3. LastOf(form, name) = IF last = 0 THEN <<>> ELSE form[last][2]
    BY DEF LastOf
  <1>4. Starts(q) = {at[i] : i \in 1..n}
    BY QueryStarts
  <1>5. \A i \in 1..n : Key(Piece(q, at[i])) = <<form[i][1]>> /\ Val(Piece(q, at[i])) = form[i][2]
    BY QueryPiece
  <1>6. n \in Nat \ {0}
    BY InputPlaces
  <1>7. /\ \A i \in 1..n : at[i] \in Nat
        /\ \A i, j \in 1..n : i < j => at[i] < at[j]
    BY InputPlaces
  <1> HIDE DEF last, n
  <1>8. CASE I = {}
    <2>1. \A s \in Starts(q) : Key(Piece(q, s)) # <<name>>
      <3> SUFFICES ASSUME NEW s \in Starts(q), Key(Piece(q, s)) = <<name>>  PROVE FALSE
        OBVIOUS
      <3>1. PICK i \in 1..n : s = at[i]
        BY <1>4
      <3>2. <<form[i][1]>> = <<name>>
        BY <1>5, <3>1
      <3>3. form[i][1] = name
        BY <3>2
      <3> QED  BY <1>8, <3>3
    <2>2. <<name>> \notin K
      BY <2>1
    <2>3. LastOf(form, name) = <<>>
      BY <1>2, <1>3, <1>8
    <2> HIDE DEF K, Chosen
    <2>4. <<name>> \notin DOMAIN ReadArguments[q]
      BY <1>1, <2>2
    <2> QED  BY <2>3, <2>4 DEF CgiArg
  <1>9. CASE I # {}
    <2>1. PICK m \in I : \A i \in I : i <= m
      BY <1>6, <1>9, GreatestOf
    <2>2. m \in 1..n /\ form[m][1] = name
      OBVIOUS
    <2>3. I \in SUBSET Nat
      BY <1>6
    <2>4. Max(I) = m
      BY <2>1, <2>3, MaxIs
    <2>5. LastOf(form, name) = form[m][2]
      BY <1>2, <1>3, <1>6, <1>9, <2>2, <2>4
    <2>6. at[m] \in Of(<<name>>)
      BY <1>4, <1>5, <2>2
    <2>7. \A s \in Of(<<name>>) : s \in Nat /\ s <= at[m]
      <3> SUFFICES ASSUME NEW s \in Of(<<name>>)  PROVE s \in Nat /\ s <= at[m]
        OBVIOUS
      <3>1. PICK i \in 1..n : s = at[i]
        BY <1>4
      <3>2. <<form[i][1]>> = <<name>>
        BY <1>5, <3>1
      <3>3. form[i][1] = name
        BY <3>2
      <3>4. i <= m
        BY <2>1, <3>3
      <3>5. i = m \/ at[i] < at[m]
        BY <1>6, <1>7, <2>2, <3>4
      <3>6. at[i] \in Nat /\ at[m] \in Nat
        BY <1>7, <2>2
      <3> QED  BY <3>1, <3>5, <3>6
    <2> DEFINE O == Of(<<name>>)
               c == CHOOSE s \in O : \A r \in O : r <= s
    <2>8. c = Chosen(<<name>>)
      OBVIOUS
    <2>9. at[m] \in O /\ \A s \in O : s \in Nat /\ s <= at[m]
      BY <2>6, <2>7
    <2>10. <<name>> \in K
      BY <1>5, <2>2, <2>6
    <2> HIDE DEF O, K, I
    <2>11. c \in O /\ \A r \in O : r <= c
      BY <2>9
    <2>12. c = at[m]
      BY <2>9, <2>11
    <2> HIDE DEF c, Chosen
    <2>13. ReadArguments[q][<<name>>] = Val(Piece(q, at[m])) /\ <<name>> \in DOMAIN ReadArguments[q]
      BY <1>1, <2>8, <2>10, <2>12
    <2> QED  BY <1>5, <2>2, <2>5, <2>13 DEF CgiArg
  <1> QED  BY <1>8, <1>9

-----------------------------------------------------------------------------
(* What the parser makes of a request.                                      *)

LEMMA SameText ==
    ASSUME NEW u \in Text, NEW v \in Text, Len(u) = Len(v),
           \A k \in 1..Len(u) : u[k] = v[k]
    PROVE  u = v
  BY DEF Text

\* The method is what stands before the first space.
MethodIs(t, m) ==
    /\ t \in Text /\ 2 \in 1..Len(t)
    /\ t[1] = m /\ m # " " /\ t[2] = " "

LEMMA MethodOf ==
    ASSUME NEW t, NEW m, MethodIs(t, m)
    PROVE  Find({" "})[t] = 2 /\ Before({" "})[t] = <<m>>
  <1>1. FirstAt(t, {" "}, 2)
    <2>1. \A i \in 1..(2 - 1) : i = 1
      OBVIOUS
    <2> QED  BY <2>1 DEF FirstAt, MethodIs
  <1>2. Find({" "})[t] = 2 /\ Before({" "})[t] = SubSeq(t, 1, 2 - 1)
    <2> DEFINE T == {" "}
    <2>1. FirstAt(t, T, 2)
      BY <1>1
    <2> HIDE DEF T
    <2>2. Find(T)[t] = 2 /\ Before(T)[t] = SubSeq(t, 1, 2 - 1)
      BY <2>1, FindIs
    <2> QED  BY <2>2 DEF T
  <1> DEFINE u == SubSeq(t, 1, 1)
  <1>3. u \in Text /\ Len(u) = 1 /\ u[1] = m
    <2>3. t \in Text /\ 2 \in 1..Len(t) /\ t[1] = m
      BY Zenon DEF MethodIs
    <2>1. 1 <= Len(t) /\ Len(t) \in Nat
      BY <2>3 DEF Text
    <2>2. /\ SubSeq(t, 1, 1) \in Text /\ Len(SubSeq(t, 1, 1)) = 1 - 1 + 1
          /\ \A k \in 1..1 - 1 + 1 : SubSeq(t, 1, 1)[k] = t[1 + k - 1]
      BY <2>1, <2>3, Part
    <2> QED  BY <2>2, <2>3
  <1> HIDE DEF u
  <1>5. u = <<m>>
    BY <1>3 DEF Text
  <1>6. 2 - 1 = 1
    OBVIOUS
  <1> QED  BY <1>2, <1>5, <1>6 DEF u

\* Where the query of a request stands.
AskedAt(t, form, i, j) ==
    /\ t \in Text /\ form \in Submissions
    /\ i \in 3..Len(t) /\ j \in i..Len(t) /\ t[2] = " "
    /\ IsQuery(SubSeq(t, i + 1, j), form)

QueryHas(t, form, i, j, q) ==
    /\ q \in Text /\ Len(q) = j - i /\ j - i \in Nat \ {0}
    /\ \A k \in 1..j - i : q[k] = t[i + k] /\ q[k] \notin ArgumentEnds
    /\ \A name : CgiArg(ReadArguments[q], name) = LastOf(form, name)

LEMMA AskedQuery ==
    ASSUME NEW t, NEW form, NEW i, NEW j, AskedAt(t, form, i, j)
    PROVE  QueryHas(t, form, i, j, SubSeq(t, i + 1, j))
  <1> DEFINE q == SubSeq(t, i + 1, j)
  <1>1. i \in Nat /\ j \in Nat /\ 3 <= i /\ i <= j /\ j <= Len(t) /\ Len(t) \in Nat
    <2>1. t \in Text /\ i \in 3..Len(t) /\ j \in i..Len(t)
      BY Zenon DEF AskedAt
    <2> QED  BY <2>1 DEF Text
  <1>2. /\ q \in Text /\ Len(q) = j - i
        /\ \A k \in 1..j - i : q[k] = t[i + k]
    <2>1. i + 1 \in Nat \ {0} /\ i + 1 <= j + 1 /\ j - (i + 1) + 1 = j - i
          /\ \A k \in 1..j - i : i + 1 + k - 1 = i + k
      BY <1>1
    <2>2. t \in Text
      BY DEF AskedAt
    <2>3. /\ q \in Text /\ Len(q) = j - (i + 1) + 1
          /\ \A k \in 1..j - (i + 1) + 1 : q[k] = t[i + 1 + k - 1]
      BY <1>1, <2>1, <2>2, Part
    <2> HIDE DEF q
    <2> QED  BY <2>1, <2>3
  <1> HIDE DEF q
  <1>3. PICK at : QueryAt(q, form, at)
    BY <1>2 DEF AskedAt, IsQuery, QueryAt, q
  <1>4. Len(q) \in Nat \ {0}
    <2>1. Len(form) \in Nat \ {0} /\ Len(q) \in Nat
      BY <1>3, InputPlaces
    <2>2. 1 \in 1..Len(form)
      BY <2>1
    <2>3. at[1] \in 1..Len(q)
      BY <1>3, <2>2, InputPlaces
    <2> QED  BY <2>1, <2>3
  <1>5. \A k \in 1..Len(q) : q[k] \notin ArgumentEnds
    <2> SUFFICES ASSUME NEW k \in 1..Len(q), q[k] \in ArgumentEnds  PROVE FALSE
      OBVIOUS
    <2>1. q[k] \in Separators /\ q[k] # "&"
      BY DEF Separators, ArgumentEnds, LineEnds, EOL, EOH, CR, LF
    <2>2. q[k] = "&"
      BY <1>3, <2>1, QuerySeparators
    <2> QED  BY <2>1, <2>2
  <1>6. \A name : CgiArg(ReadArguments[q], name) = LastOf(form, name)
    BY <1>3, QueryArguments
  <1>7. QueryHas(t, form, i, j, q)
    BY <1>2, <1>4, <1>5, <1>6 DEF QueryHas
  <1> QED  BY <1>7 DEF q

AskedByGet(t, form, i, j) ==
    /\ AskedAt(t, form, i, j)
    /\ t[1] = "GET" /\ t[i] = "?" /\ j < Len(t) /\ t[j + 1] = " "
    /\ \A k \in 3..i - 1 : t[k] \notin {"?"} \cup LineEnds

AskedByPost(t, form, i, j) ==
    /\ AskedAt(t, form, i, j)
    /\ t[1] = "POST" /\ t[i] = EOH /\ j = Len(t)
    /\ \A k \in 3..i - 1 : t[k] # EOH

\* The request has been understood, and has the inputs of the form.
AnswersForm(request_, form) ==
    /\ request_.ok
    /\ \A name : CgiArg(request_.args, name) = LastOf(form, name)

\* The first line goes past the query.
LEMMA FirstLine ==
    ASSUME NEW t, NEW form, NEW i, NEW j, AskedByGet(t, form, i, j)
    PROVE  LET line == Before(LineEnds)[t]
           IN /\ line \in Text /\ Len(line) \in Nat /\ j + 1 <= Len(line)
              /\ \A k \in 1..Len(line) : line[k] = t[k]
  <1> DEFINE Eol == LineEnds
             line == Before(Eol)[t]
             q == SubSeq(t, i + 1, j)
  <1>1. /\ t \in Text /\ i \in 3..Len(t) /\ j \in i..Len(t) /\ t[2] = " "
        /\ t[1] = "GET" /\ t[i] = "?" /\ j < Len(t) /\ t[j + 1] = " "
        /\ \A k \in 3..i - 1 : t[k] \notin {"?"} \cup LineEnds
    BY Zenon DEF AskedByGet, AskedAt
  <1>2. i \in Nat /\ j \in Nat /\ 3 <= i /\ i <= j /\ j < Len(t) /\ Len(t) \in Nat
    <2>1. t \in Text /\ i \in 3..Len(t) /\ j \in i..Len(t) /\ j < Len(t)
      BY <1>1, Zenon
    <2> QED  BY <2>1 DEF Text
  <1>3. QueryHas(t, form, i, j, q)
    BY AskedQuery DEF AskedByGet
  <1>4. \A k \in 1..j - i : t[i + k] \notin ArgumentEnds
    BY <1>3, Zenon DEF QueryHas
  <1>5. t[1] \notin Eol /\ t[2] \notin Eol /\ t[i] \notin Eol /\ t[j + 1] \notin Eol
    BY <1>1 DEF LineEnds, EOL, EOH, CR, LF
  <1>6. \A k \in 3..i - 1 : t[k] \notin Eol
    BY <1>1, Zenon
  <1>7. \A k \in 1..j - i : t[i + k] \notin Eol
    BY <1>4, Zenon DEF ArgumentEnds
  <1> HIDE DEF Eol
  <1>8. ASSUME NEW k \in 1..j + 1  PROVE t[k] \notin Eol
    <2>1. k = 1 \/ k = 2 \/ k \in 3..i - 1 \/ k = i \/ k = j + 1
          \/ (k - i \in 1..j - i /\ i + (k - i) = k)
      BY <1>2
    <2>2. CASE k = 1 \/ k = 2 \/ k = i \/ k = j + 1
      BY <1>5, <2>2, Zenon
    <2>3. CASE k \in 3..i - 1
      BY <1>6, <2>3, Zenon
    <2>4. CASE k - i \in 1..j - i /\ i + (k - i) = k
      <3>1. t[i + (k - i)] \notin Eol
        BY <1>7, <2>4, Zenon
      <3> QED  BY <2>4, <3>1, Zenon
    <2> QED  BY <2>1, <2>2, <2>3, <2>4, Zenon
  <1>9. t \in Text
    BY <1>1, Zenon
  <1>10. CASE Find(Eol)[t] = 0 /\ \A k \in 1..Len(t) : t[k] \notin Eol
    <2>1. line = t
      BY <1>9, <1>10, FindNothing
    <2>2. t \in Text /\ Len(t) \in Nat /\ j + 1 <= Len(t)
          /\ \A k \in 1..Len(t) : t[k] = t[k]
      BY <1>2, <1>9
    <2> HIDE DEF line
    <2>3. line \in Text /\ Len(line) \in Nat /\ j + 1 <= Len(line)
          /\ \A k \in 1..Len(line) : line[k] = t[k]
      BY <2>1, <2>2
    <2> QED  BY <2>3 DEF line, Eol
  <1>11. CASE /\ Find(Eol)[t] \in 1..Len(t) /\ t[Find(Eol)[t]] \in Eol
              /\ \A k \in 1..(Find(Eol)[t] - 1) : t[k] \notin Eol
    <2> DEFINE e == Find(Eol)[t]
    <2>1. FirstAt(t, Eol, e)
      BY <1>9, <1>11 DEF FirstAt
    <2>2. line = SubSeq(t, 1, e - 1)
      BY <2>1, FindIs
    <2>3. e \in 1..Len(t) /\ ~(e \in 1..j + 1)
      BY <1>8, <1>11, Zenon
    <2> HIDE DEF e, line
    <2>4. e \in Nat /\ j + 1 < e /\ e <= Len(t)
      BY <1>2, <2>3
    <2>5. /\ line \in Text /\ Len(line) = e - 1 - 1 + 1
          /\ \A k \in 1..e - 1 - 1 + 1 : line[k] = t[1 + k - 1]
      <3>1. 1 \in Nat \ {0} /\ e - 1 \in Nat /\ e - 1 <= Len(t) /\ 1 <= e - 1 + 1
        BY <1>2, <2>4
      <3> QED  BY <1>9, <2>2, <3>1, Part
    <2>6. e - 1 - 1 + 1 = e - 1 /\ \A k \in 1..e - 1 : 1 + k - 1 = k
      BY <2>4
    <2>7. line \in Text /\ Len(line) \in Nat /\ j + 1 <= Len(line)
          /\ \A k \in 1..Len(line) : line[k] = t[k]
      BY <1>2, <2>4, <2>5, <2>6
    <2> QED  BY <2>7 DEF line, Eol
  <1> QED  BY <1>9, <1>10, <1>11, FindFinds

\* A GET request gives the inputs of the form (ReadHttpRequest).
LEMMA GetIsRead ==
    ASSUME NEW t, NEW form, NEW i, NEW j, AskedByGet(t, form, i, j)
    PROVE  AnswersForm(ReadHttpRequest[t], form)
  <1> DEFINE line == Before(LineEnds)[t]
             rest == After({"?"})[line]
             q == SubSeq(t, i + 1, j)
  <1>1. /\ t \in Text /\ i \in 3..Len(t) /\ j \in i..Len(t) /\ t[2] = " "
        /\ t[1] = "GET" /\ t[i] = "?" /\ j < Len(t) /\ t[j + 1] = " "
        /\ \A k \in 3..i - 1 : t[k] \notin {"?"} \cup LineEnds
    BY Zenon DEF AskedByGet, AskedAt
  <1>2. i \in Nat /\ j \in Nat /\ 3 <= i /\ i <= j /\ j < Len(t) /\ Len(t) \in Nat
    <2>1. t \in Text /\ i \in 3..Len(t) /\ j \in i..Len(t) /\ j < Len(t)
      BY <1>1, Zenon
    <2> QED  BY <2>1 DEF Text
  <1>3. QueryHas(t, form, i, j, q)
    BY AskedQuery DEF AskedByGet
  <1>4. /\ line \in Text /\ Len(line) \in Nat /\ j + 1 <= Len(line)
        /\ \A k \in 1..Len(line) : line[k] = t[k]
    BY FirstLine
  <1>5. Find({" "})[t] = 2 /\ Before({" "})[t] = <<"GET">>
    <2>1. 2 \in 1..Len(t)
      BY <1>2
    <2>2. MethodIs(t, "GET")
      BY <1>1, <2>1 DEF MethodIs
    <2> QED  BY <2>2, MethodOf
  <1>6. Find({"?"})[line] = i /\ rest = SubSeq(line, i + 1, Len(line))
    <2> DEFINE l == line
    <2> HIDE DEF line
    <2>1. i \in 1..Len(l)
      BY <1>2, <1>4
    <2>2. l[i] \in {"?"}
      BY <1>1, <1>4, <2>1
    <2>3. \A k \in 1..(i - 1) : l[k] \notin {"?"}
      <3> SUFFICES ASSUME NEW k \in 1..(i - 1)  PROVE l[k] # "?"
        OBVIOUS
      <3>1. k \in 1..Len(l) /\ (k = 1 \/ k = 2 \/ k \in 3..i - 1)
        BY <1>2, <1>4
      <3>2. l[k] = t[k]
        BY <1>4, <3>1
      <3>3. t[k] # "?"
        <4>1. CASE k = 1 \/ k = 2
          BY <1>1, <4>1
        <4>2. CASE k \in 3..i - 1
          BY <1>1, <4>2, Zenon
        <4> QED  BY <3>1, <4>1, <4>2
      <3> QED  BY <3>2, <3>3
    <2>4. FirstAt(l, {"?"}, i)
      BY <1>4, <2>1, <2>2, <2>3 DEF FirstAt
    <2> QED  BY <2>4, FindIs
  <1> HIDE DEF line, q
  <1>7. /\ rest \in Text /\ Len(rest) = Len(line) - i
        /\ \A k \in 1..Len(line) - i : rest[k] = t[i + k]
    <2>1. /\ i + 1 \in Nat \ {0} /\ Len(line) <= Len(line) /\ i + 1 <= Len(line) + 1
          /\ Len(line) - (i + 1) + 1 = Len(line) - i
          /\ \A k \in 1..Len(line) - i : i + 1 + k - 1 = i + k /\ i + k \in 1..Len(line)
      BY <1>2, <1>4
    <2> HIDE DEF rest
    <2>3. line \in Text /\ Len(line) \in Nat /\ rest = SubSeq(line, i + 1, Len(line))
      BY <1>4, <1>6
    <2>2. /\ rest \in Text /\ Len(rest) = Len(line) - (i + 1) + 1
          /\ \A k \in 1..Len(line) - (i + 1) + 1 : rest[k] = line[i + 1 + k - 1]
      BY <2>1, <2>3, Part
    <2> QED  BY <1>4, <2>1, <2>2
  <1> HIDE DEF rest
  <1>8. Before(ArgumentEnds)[rest] = q
    <2> DEFINE m == j - i
    <2>1. m \in Nat \ {0} /\ q \in Text /\ Len(q) = m /\ \A k \in 1..m : q[k] = t[i + k] /\ q[k] \notin ArgumentEnds
      BY <1>3, Zenon DEF QueryHas
    <2>2. m + 1 \in 1..Len(rest) /\ i + (m + 1) = j + 1 /\ m + 1 - 1 = m /\ Len(rest) \in Nat
      BY <1>2, <1>4, <1>7
    <2> HIDE DEF m
    <2>3. \A k \in 1..m + 1 : k \in 1..Len(rest) /\ rest[k] = t[i + k]
      BY <1>7, <2>1, <2>2
    <2>4. rest[m + 1] = " "
      <3>1. m + 1 \in 1..m + 1
        BY <2>1
      <3>2. rest[m + 1] = t[j + 1]
        BY <2>2, <2>3, <3>1
      <3> QED  BY <1>1, <3>2, Zenon
    <2>5. \A k \in 1..m : k \in 1..m + 1 /\ rest[k] = q[k]
      BY <2>1, <2>3
    <2>6. \A k \in 1..m : rest[k] \notin ArgumentEnds
      BY <2>1, <2>5
    <2> DEFINE z == m + 1
    <2>7. /\ z \in 1..Len(rest) /\ rest[z] \in ArgumentEnds /\ z - 1 = m
          /\ \A k \in 1..(z - 1) : rest[k] \notin ArgumentEnds
      <3>1. rest[z] \in ArgumentEnds
        BY <2>4, Zenon DEF ArgumentEnds
      <3>2. z - 1 = m
        <4>1. m \in Nat
          BY <2>1
        <4> QED  BY <4>1
      <3> QED  BY <2>2, <2>6, <3>1, <3>2
    <2> HIDE DEF z
    <2>8. Before(ArgumentEnds)[rest] = SubSeq(rest, 1, m)
      <3>1. FirstAt(rest, ArgumentEnds, z)
        BY <1>7, <2>7, Zenon DEF FirstAt
      <3>2. Before(ArgumentEnds)[rest] = SubSeq(rest, 1, z - 1)
        BY <3>1, FindIs
      <3> QED  BY <2>7, <3>2
    <2>9. /\ SubSeq(rest, 1, m) \in Text /\ Len(SubSeq(rest, 1, m)) = m
          /\ \A k \in 1..m : SubSeq(rest, 1, m)[k] = rest[k]
      <3>1. m \in Nat /\ m <= Len(rest) /\ 1 <= m + 1 /\ m - 1 + 1 = m
            /\ \A k \in 1..m : 1 + k - 1 = k
        BY <2>1, <2>2
      <3>2. /\ SubSeq(rest, 1, m) \in Text /\ Len(SubSeq(rest, 1, m)) = m - 1 + 1
            /\ \A k \in 1..m - 1 + 1 : SubSeq(rest, 1, m)[k] = rest[1 + k - 1]
        BY <1>7, <3>1, Part
      <3> QED  BY <3>1, <3>2
    <2> DEFINE u == SubSeq(rest, 1, m)
    <2> HIDE DEF u
    <2>10. \A k \in 1..Len(u) : u[k] = q[k]
      BY <2>5, <2>9 DEF u
    <2>11. u = q
      BY <2>1, <2>9, <2>10, SameText DEF u
    <2> QED  BY <2>8, <2>11 DEF u
  <1>9. ReadHttpRequest[t] = Parsed(ReadArguments[q])
    <2>1. t \in Text
      BY <1>1, Zenon
    <2>4. i # 0 /\ 2 # 0
      BY <1>2
    <2>2. Find({" "})[t] # 0 /\ Before({" "})[t] = <<"GET">> /\ Find({"?"})[line] # 0
      BY <1>5, <1>6, <2>4, Zenon
    <2>3. Before(ArgumentEnds)[After({"?"})[line]] = q
      BY <1>8, Zenon DEF ArgumentEnds, rest
    <2> QED  BY <2>1, <2>2, <2>3, Zenon DEF ReadHttpRequest, line
  <1>10. \A name : CgiArg(ReadArguments[q], name) = LastOf(form, name)
    BY <1>3, Zenon DEF QueryHas
  <1> QED  BY <1>9, <1>10 DEF AnswersForm, Parsed

\* So does a POST request.
LEMMA PostIsRead ==
    ASSUME NEW t, NEW form, NEW i, NEW j, AskedByPost(t, form, i, j)
    PROVE  AnswersForm(ReadHttpRequest[t], form)
  <1> DEFINE q == SubSeq(t, i + 1, j)
  <1>1. /\ t \in Text /\ i \in 3..Len(t) /\ j \in i..Len(t) /\ t[2] = " "
        /\ t[1] = "POST" /\ t[i] = EOH /\ j = Len(t)
        /\ \A k \in 3..i - 1 : t[k] # EOH
    BY Zenon DEF AskedByPost, AskedAt
  <1>2. i \in Nat /\ 3 <= i /\ i <= j /\ j = Len(t) /\ Len(t) \in Nat
    <2>1. t \in Text /\ i \in 3..Len(t) /\ j \in i..Len(t) /\ j = Len(t)
      BY <1>1, Zenon
    <2> QED  BY <2>1 DEF Text
  <1>3. QueryHas(t, form, i, j, q)
    BY AskedQuery DEF AskedByPost
  <1>4. Find({" "})[t] = 2 /\ Before({" "})[t] = <<"POST">>
    <2>1. 2 \in 1..Len(t)
      BY <1>2
    <2>2. MethodIs(t, "POST")
      BY <1>1, <2>1 DEF MethodIs
    <2> QED  BY <2>2, MethodOf
  <1>5. Find({EOH})[t] = i /\ After({EOH})[t] = SubSeq(t, i + 1, Len(t))
    <2>1. i \in 1..Len(t)
      BY <1>2
    <2>2. \A k \in 1..(i - 1) : t[k] \notin {EOH}
      <3> SUFFICES ASSUME NEW k \in 1..(i - 1)  PROVE t[k] # EOH
        OBVIOUS
      <3>1. k = 1 \/ k = 2 \/ k \in 3..i - 1
        BY <1>2
      <3>2. t[1] # EOH /\ t[2] # EOH
        BY <1>1 DEF EOH
      <3> QED  BY <1>1, <3>1, <3>2, Zenon
    <2>3. FirstAt(t, {EOH}, i)
      BY <1>1, <2>1, <2>2 DEF FirstAt
    <2> QED  BY <2>3, FindIs
  <1>6. After({EOH})[t] = q
    BY <1>2, <1>5
  <1> HIDE DEF q
  <1>7. q \in Text /\ Len(q) \in Nat \ {0} /\ \A k \in 1..Len(q) : q[k] \notin ArgumentEnds
    BY <1>3 DEF QueryHas
  <1>8. Before(ArgumentEnds)[q] = q /\ q # <<>>
    <2>1. Before(ArgumentEnds)[q] = q
      BY <1>7, FindNothing
    <2>2. q # <<>>
      BY <1>7
    <2> QED  BY <2>1, <2>2, Zenon DEF ArgumentEnds
  <1>9. ReadHttpRequest[t] = Parsed(ReadArguments[q])
    <2>1. t \in Text
      BY <1>1, Zenon
    <2>2. i # 0 /\ 2 # 0
      BY <1>2
    <2>3. <<"POST">> # <<"GET">>
      OBVIOUS
    <2>4. /\ Find({" "})[t] # 0 /\ Before({" "})[t] = <<"POST">>
          /\ Before({" "})[t] # <<"GET">> /\ Find({EOH})[t] # 0
      BY <1>4, <1>5, <2>2, <2>3, Zenon
    <2> QED  BY <1>6, <1>8, <2>1, <2>4, Zenon DEF ReadHttpRequest
  <1>10. \A name : CgiArg(ReadArguments[q], name) = LastOf(form, name)
    BY <1>3, Zenon DEF QueryHas
  <1> QED  BY <1>9, <1>10 DEF AnswersForm, Parsed

\* Whatever a form asks for, the server understands.
LEMMA RequestIsRead ==
    ASSUME NEW t \in Text, NEW form \in Submissions, IsRequest(t, form)
    PROVE  AnswersForm(ReadHttpRequest[t], form)
  <1>1. PICK i \in 3..Len(t) : \E j \in i..Len(t) :
          AskedByGet(t, form, i, j) \/ AskedByPost(t, form, i, j)
    BY Zenon DEF IsRequest, AskedByGet, AskedByPost, AskedAt
  <1> QED  BY <1>1, GetIsRead, PostIsRead

\* A part of a text has only words of it.
Within(u, t) == u \in Text /\ \A k \in 1..Len(u) : \E m \in 1..Len(t) : u[k] = t[m]

LEMMA PartWithin ==
    ASSUME NEW t \in Text, NEW m \in Nat \ {0}, NEW n \in Nat, n <= Len(t), m <= n + 1
    PROVE  Within(SubSeq(t, m, n), t)
  <1> DEFINE u == SubSeq(t, m, n)
  <1>1. u \in Text /\ Len(u) = n - m + 1 /\ \A k \in 1..n - m + 1 : u[k] = t[m + k - 1]
    BY Part
  <1>2. Len(t) \in Nat
    BY DEF Text
  <1>3. \A k \in 1..n - m + 1 : m + k - 1 \in 1..Len(t)
    BY <1>2
  <1> HIDE DEF u
  <1>4. Within(u, t)
    BY <1>1, <1>3 DEF Within
  <1> QED  BY <1>4 DEF u

LEMMA WithinItself ==
    ASSUME NEW t \in Text
    PROVE  Within(t, t)
  BY DEF Within

LEMMA WithinPart ==
    ASSUME NEW u, NEW v, NEW t, Within(u, v), Within(v, t)
    PROVE  Within(u, t)
  BY Zenon DEF Within

LEMMA BeforeWithin ==
    ASSUME NEW t \in Text, NEW T
    PROVE  Within(Before(T)[t], t)
  <1> DEFINE e == Find(T)[t]
  <1>1. Len(t) \in Nat
    BY DEF Text
  <1>2. CASE e = 0
    <2>1. Before(T)[t] = t
      BY <1>2 DEF Before
    <2> QED  BY <2>1, WithinItself
  <1>3. CASE e # 0
    <2>1. Before(T)[t] = SubSeq(t, 1, e - 1)
      BY <1>3 DEF Before
    <2>2. e \in 1..Len(t)
      BY <1>3, FindFinds
    <2> HIDE DEF e
    <2>3. 1 \in Nat \ {0} /\ e - 1 \in Nat /\ e - 1 <= Len(t) /\ 1 <= e - 1 + 1
      BY <1>1, <2>2
    <2> QED  BY <2>1, <2>3, PartWithin
  <1> QED  BY <1>2, <1>3

LEMMA AfterWithin ==
    ASSUME NEW t \in Text, NEW T
    PROVE  Within(After(T)[t], t)
  <1> DEFINE e == Find(T)[t]
  <1>1. Len(t) \in Nat
    BY DEF Text
  <1>2. After(T)[t] = SubSeq(t, e + 1, Len(t))
    BY DEF After
  <1>3. e = 0 \/ e \in 1..Len(t)
    BY FindFinds
  <1> HIDE DEF e
  <1>4. e + 1 \in Nat \ {0} /\ Len(t) <= Len(t) /\ e + 1 <= Len(t) + 1
    BY <1>1, <1>3
  <1> QED  BY <1>1, <1>2, <1>4, PartWithin

\* The name of an argument is in the text.
LEMMA ArgumentNamesWithin ==
    ASSUME NEW t \in Text, NEW name, CgiArg(ReadArguments[t], name) # <<>>
    PROVE  \E m \in 1..Len(t) : t[m] = name
  <1> DEFINE K == {Key(Piece(t, s)) : s \in Starts(t)}
  <1>1. DOMAIN ReadArguments[t] = K
    BY DEF ReadArguments
  <1>2. <<name>> \in K
    BY <1>1 DEF CgiArg
  <1>3. PICK s \in Starts(t) : Key(Piece(t, s)) = <<name>>
    BY <1>2
  <1>4. s \in Nat \ {0} /\ s <= Len(t) + 1 /\ Len(t) \in Nat
    BY DEF Starts, Text
  <1> DEFINE r == SubSeq(t, s, Len(t))
             p == Before({"&"})[r]
  <1>5. Within(r, t)
    BY <1>4, PartWithin
  <1>6. r \in Text
    BY <1>5 DEF Within
  <1>7. Within(p, r)
    BY <1>6, BeforeWithin
  <1>8. p \in Text
    BY <1>7 DEF Within
  <1>9. Within(Before({"="})[p], p)
    BY <1>8, BeforeWithin
  <1>10. Before({"="})[p] = <<name>>
    BY <1>3 DEF Key, Piece
  <1>11. Within(<<name>>, t)
    BY <1>5, <1>7, <1>9, <1>10, WithinPart
  <1>12. 1 \in 1..Len(<<name>>) /\ <<name>>[1] = name
    OBVIOUS
  <1> QED  BY <1>11, <1>12, Zenon DEF Within

\* A request is refused without arguments, or has those of a part of the text.
LEMMA RequestShape ==
    ASSUME NEW t \in Text
    PROVE  \/ ReadHttpRequest[t] \in {ParseError, Parsed(NoArguments)}
           \/ \E u : Within(u, t) /\ ReadHttpRequest[t] = Parsed(ReadArguments[u])
  <1> DEFINE line == Before(LineEnds)[t]
             rest == After({"?"})[line]
             body == After({EOH})[t]
             u == Before(ArgumentEnds)[rest]
             v == Before(ArgumentEnds)[body]
  <1>1. Within(line, t)
    BY BeforeWithin
  <1>2. line \in Text
    BY <1>1, Zenon DEF Within
  <1>3. Within(rest, line)
    BY <1>2, AfterWithin
  <1>4. rest \in Text
    BY <1>3, Zenon DEF Within
  <1>5. Within(u, rest)
    BY <1>4, BeforeWithin
  <1>6. Within(body, t)
    BY AfterWithin
  <1>7. body \in Text
    BY <1>6, Zenon DEF Within
  <1>8. Within(v, body)
    BY <1>7, BeforeWithin
  <1> HIDE DEF line, rest, body, u, v
  <1>9. Within(u, t) /\ Within(v, t)
    BY <1>1, <1>3, <1>5, <1>6, <1>8, WithinPart
  <1>10. ReadHttpRequest[t] \in {ParseError, Parsed(NoArguments), Parsed(ReadArguments[u]),
                                 Parsed(ReadArguments[v])}
    BY Zenon DEF ReadHttpRequest, u, v, rest, body, line
  <1> QED  BY <1>9, <1>10, Zenon

LEMMA NoNicknameNamed ==
    ASSUME NEW t \in Text, \A m \in 1..Len(t) : t[m] # "nickname"
    PROVE  CgiArg(ReadHttpRequest[t].args, "nickname") = <<>>
  <1>1. CgiArg(NoArguments, "nickname") = <<>>
    BY DEF CgiArg, NoArguments
  <1>2. CASE ReadHttpRequest[t] \in {ParseError, Parsed(NoArguments)}
    <2>1. ReadHttpRequest[t].args = NoArguments
      BY <1>2 DEF ParseError, Parsed
    <2> QED  BY <1>1, <2>1
  <1>3. ASSUME NEW u, Within(u, t), ReadHttpRequest[t] = Parsed(ReadArguments[u])
        PROVE  CgiArg(ReadHttpRequest[t].args, "nickname") = <<>>
    <2>1. ReadHttpRequest[t].args = ReadArguments[u]
      BY <1>3 DEF Parsed
    <2>2. u \in Text /\ \A m \in 1..Len(u) : u[m] # "nickname"
      BY <1>3, Zenon DEF Within
    <2>3. CgiArg(ReadArguments[u], "nickname") = <<>>
      BY <2>2, ArgumentNamesWithin
    <2> QED  BY <2>1, <2>3
  <1> QED  BY <1>2, <1>3, RequestShape, Zenon

-----------------------------------------------------------------------------

\* The server listens and has read nothing (nfe_main.cc).
LEMMA NotifierInitHolds == NotifierInit => NotifierInv
  <1> SUFFICES ASSUME NotifierInit  PROVE NotifierInv
    OBVIOUS
  <1>1. WiresTyped
    BY DEF NotifierInit, WiresTyped
  <1>2. BufferHoldsRequest /\ NothingLeftOver
    BY DEF NotifierInit, BufferHoldsRequest, Serving, NothingLeftOver
  <1> QED  BY <1>1, <1>2 DEF NotifierInv

\* A sequence is one over any set that has its elements.
LEMMA SeqOver ==
    ASSUME NEW S, NEW T, NEW s \in Seq(S), \A i \in 1..Len(s) : s[i] \in T
    PROVE  s \in Seq(T)
  OBVIOUS

\* What clients do, the server sees in its next read only.
LEMMA ClientKeepsBuffer ==
    ASSUME NotifierInv, NEW c \in Clients, Connect(c) \/ Send(c) \/ HangUp(c)
    PROVE  NotifierInv'
  <1>1. UNCHANGED <<pc, client, buffer, rsize, arrived, request>>
    BY DEF Connect, Send, HangUp, request_vars, history_vars
  <1>2. BufferHoldsRequest' /\ NothingLeftOver'
    BY <1>1 DEF NotifierInv, BufferHoldsRequest, Serving, Filled, NothingLeftOver
  <1>3. WiresTyped'
    <2> USE DEF NotifierInv, WiresTyped
    <2>1. CASE Connect(c)
      <3>1. PICK t \in Texts : to_send' = [to_send EXCEPT ![c] = t]
        BY <2>1 DEF Connect
      <3>2. t \in Seq(Token)
        <4>1. t \in Seq(STRING) /\ NUL \notin ToSet(t)
          BY NotifierAssumption DEF Text
        <4>2. \A i \in 1..Len(t) : t[i] \in STRING /\ t[i] # NUL
          BY <4>1 DEF ToSet
        <4>3. \A i \in 1..Len(t) : t[i] \in Token
          BY <4>2 DEF Token
        <4> QED  BY <4>1, <4>3, SeqOver
      <3>3. wire' = wire /\ backlog' = Append(backlog, c)
        BY <2>1 DEF Connect
      <3> QED  BY <1>1, <3>1, <3>2, <3>3
    <2>2. CASE Send(c)
      <3>1. PICK n \in 1..Len(to_send[c]) :
              /\ wire' = [wire EXCEPT ![c] = @ \o SubSeq(to_send[c], 1, n)]
              /\ to_send' = [to_send EXCEPT ![c] = SubSeq(@, n + 1, Len(@))]
        BY <2>2 DEF Send
      <3>2. to_send[c] \in Seq(Token) /\ wire[c] \in Seq(Token)
        OBVIOUS
      <3>3. /\ SubSeq(to_send[c], 1, n) \in Seq(Token)
            /\ SubSeq(to_send[c], n + 1, Len(to_send[c])) \in Seq(Token)
        BY <3>2, PieceTyped
      <3>4. wire[c] \o SubSeq(to_send[c], 1, n) \in Seq(Token)
        BY <3>2, <3>3
      <3>5. UNCHANGED backlog
        BY <2>2 DEF Send
      <3> QED  BY <1>1, <3>1, <3>3, <3>4, <3>5
    <2>3. CASE HangUp(c)
      <3>1. wire' \in {wire, [wire EXCEPT ![c] = <<>>]} /\ UNCHANGED <<to_send, backlog>>
        BY <2>3 DEF HangUp
      <3>2. <<>> \in Seq(Token)
        OBVIOUS
      <3>3. wire' \in [Clients -> Seq(Token)]
        BY <3>1, <3>2
      <3> QED  BY <1>1, <3>1, <3>3
    <2> QED  BY <2>1, <2>2, <2>3
  <1> QED  BY <1>2, <1>3 DEF NotifierInv

\* read() goes into a buffer of zeros and leaves the last one.
LEMMA ReadFillsBuffer ==
    ASSUME NotifierInv, Read
    PROVE  NotifierInv'
  <1> USE DEF NotifierInv, WiresTyped
  <1> DEFINE w == wire[client]
  <1>1. /\ w \in Seq(Token) /\ client \in Clients /\ w # <<>> /\ buffer = Zeroed
        /\ pc = "read" /\ pc' = "parse"
    BY DEF Read, BufferHoldsRequest
  <1>2. Len(w) \in Nat \ {0} /\ kBufferSize - 1 \in Nat \ {0} /\ kBufferSize \in Nat
    BY <1>1, NotifierAssumption
  <1>3. PICK r \in Nat : rsize' = r /\ r <= Len(w) /\ r < kBufferSize
    <2>1. rsize' = Min({Len(w), kBufferSize - 1})
      BY DEF Read
    <2>2. CASE Len(w) <= kBufferSize - 1
      <3>1. Min({Len(w), kBufferSize - 1}) = Len(w)
        BY <1>2, <2>2, MinOfTwo
      <3> QED  BY <1>2, <2>1, <2>2, <3>1
    <2>3. CASE ~(Len(w) <= kBufferSize - 1)
      <3>1. Min({Len(w), kBufferSize - 1}) = kBufferSize - 1
        <4> DEFINE a == kBufferSize - 1
                   b == Len(w)
        <4>1. a \in Nat /\ b \in Nat /\ a <= b
          BY <1>2, <2>3
        <4> HIDE DEF a, b
        <4>2. Min({b, a}) = a
          BY <4>1, MinOfTwo
        <4> QED  BY <4>2 DEF a, b
      <3> QED  BY <1>2, <2>1, <2>3, <3>1
    <2> QED  BY <2>2, <2>3
  <1>4. /\ buffer' = [i \in 1..kBufferSize |-> IF i <= r THEN w[i] ELSE buffer[i]]
        /\ arrived' = SubSeq(w, 1, r)
        /\ wire' = [wire EXCEPT ![client] = SubSeq(w, r + 1, Len(w))]
        /\ UNCHANGED <<to_send, backlog, client>>
    BY <1>3 DEF Read
  <1>5. /\ SubSeq(w, 1, r) \in Seq(Token) /\ SubSeq(w, r + 1, Len(w)) \in Seq(Token)
        /\ Len(SubSeq(w, 1, r)) = r
        /\ \A i \in 1..r : SubSeq(w, 1, r)[i] = w[i]
    BY <1>1, <1>2, <1>3, PieceTyped
  <1> HIDE DEF w
  <1>6. buffer' = Filled(arrived')
    BY <1>1, <1>2, <1>3, <1>4, <1>5 DEF Filled, Zeroed
  <1>7. WiresTyped'
    BY <1>1, <1>4, <1>5
  <1>8. BufferHoldsRequest'
    BY <1>1, <1>3, <1>4, <1>5, <1>6 DEF BufferHoldsRequest, Filled
  <1>9. NothingLeftOver'
    BY <1>1 DEF NothingLeftOver
  <1> QED  BY <1>7, <1>8, <1>9

\* Every step of the server or of a client keeps the invariant.
LEMMA NotifierStepHolds == NotifierInv /\ [NotifierNext]_notifier_vars => NotifierInv'
  <1> SUFFICES ASSUME NotifierInv, [NotifierNext]_notifier_vars  PROVE NotifierInv'
    OBVIOUS
  <1> USE DEF NotifierInv
  <1>1. ASSUME NEW c \in Clients, Connect(c) \/ Send(c) \/ HangUp(c)
        PROVE  NotifierInv'
    BY <1>1, ClientKeepsBuffer
  <1>2. CASE Accept
    <2>1. /\ pc = "accept" /\ pc' = "read" /\ backlog # <<>>
          /\ client' = Head(backlog) /\ backlog' = Tail(backlog)
          /\ UNCHANGED <<wire, to_send, buffer>>
      BY <1>2 DEF Accept
    <2>2. backlog \in Seq(Clients)
      BY DEF WiresTyped
    <2>3. client' \in Clients /\ backlog' \in Seq(Clients)
      BY <2>1, <2>2
    <2>4. WiresTyped' /\ NothingLeftOver'
      BY <2>1, <2>3 DEF WiresTyped, NothingLeftOver
    <2>5. BufferHoldsRequest'
      BY <2>1 DEF BufferHoldsRequest, Serving, Zeroed
    <2> QED  BY <2>4, <2>5
  <1>3. CASE Read
    BY <1>3, ReadFillsBuffer
  <1>4. CASE Parse
    <2>1. /\ pc = "parse" /\ pc' \in {"dispatch", "write"}
          /\ request' = ReadHttpRequest[CString(buffer)]
          /\ UNCHANGED <<wire, to_send, backlog, client, buffer, rsize, arrived>>
      BY <1>4 DEF Parse, client_vars, history_vars
    <2>2. CString(buffer) = arrived
      BY <2>1, StringEndsWhereRead DEF BufferHoldsRequest, Serving
    <2>3. WiresTyped' /\ NothingLeftOver'
      BY <2>1, <2>2 DEF WiresTyped, NothingLeftOver
    <2>4. BufferHoldsRequest'
      BY <2>1 DEF BufferHoldsRequest, Serving, Filled
    <2> QED  BY <2>3, <2>4
  <1>5. CASE Dispatch \/ WriteOutput
    <2>1. /\ pc \in {"dispatch", "write"} /\ pc' \in {"write", "close"}
          /\ UNCHANGED <<wire, to_send, backlog, client, buffer, rsize, arrived, request>>
      BY <1>5 DEF Dispatch, WriteOutput, client_vars, request_vars, history_vars
    <2>2. WiresTyped' /\ NothingLeftOver'
      BY <2>1 DEF WiresTyped, NothingLeftOver
    <2>3. BufferHoldsRequest'
      BY <2>1 DEF BufferHoldsRequest, Serving, Filled
    <2> QED  BY <2>2, <2>3
  <1>6. CASE ReadNothing \/ Close
    <2>1. /\ CloseConnection /\ UNCHANGED backlog
          /\ client \in Clients
      BY <1>6 DEF ReadNothing, Close, WiresTyped
    <2>2. buffer' = Zeroed
      <3>1. CASE ReadNothing
        BY <3>1 DEF ReadNothing, BufferHoldsRequest
      <3>2. CASE Close
        <4>1. /\ buffer = Filled(arrived) /\ rsize = Len(arrived)
              /\ buffer' = [i \in 1..kBufferSize |-> IF i <= rsize THEN NUL ELSE buffer[i]]
          BY <3>2 DEF Close, BufferHoldsRequest, Serving
        <4> QED  BY <4>1 DEF Filled, Zeroed
      <3> QED  BY <1>6, <3>1, <3>2
    <2>3. <<>> \in Seq(Token)
      OBVIOUS
    <2>4. WiresTyped'
      BY <2>1, <2>3 DEF CloseConnection, WiresTyped
    <2>5. BufferHoldsRequest' /\ NothingLeftOver'
      BY <2>1, <2>2 DEF CloseConnection, BufferHoldsRequest, Serving, Zeroed, NothingLeftOver
    <2> QED  BY <2>4, <2>5
  <1>7. CASE CheckFails
    <2>1. pc' = "aborted" /\ UNCHANGED <<wire, to_send, backlog, client>>
      BY <1>7 DEF CheckFails, client_vars
    <2>2. WiresTyped' /\ BufferHoldsRequest' /\ NothingLeftOver'
      BY <2>1 DEF WiresTyped, BufferHoldsRequest, Serving, NothingLeftOver
    <2> QED  BY <2>2
  <1>8. CASE UNCHANGED notifier_vars
    <2>1. UNCHANGED <<wire, to_send, backlog, pc, client, buffer, rsize, arrived, request>>
      BY <1>8 DEF notifier_vars, client_vars, request_vars, history_vars
    <2> QED  BY <2>1 DEF WiresTyped, BufferHoldsRequest, Serving, Filled, NothingLeftOver
  <1> QED
    BY <1>1, <1>2, <1>3, <1>4, <1>5, <1>6, <1>7, <1>8 DEF NotifierNext, ServerStep

\* Between connections the buffer is clear, and while one is served it holds
\* what was read of this one and zeros.
THEOREM NotifierInvariant == NotifierSpec => []NotifierInv
  <1> QED  BY NotifierInitHolds, NotifierStepHolds, PTL DEF NotifierSpec

\* The answer a connection gets was made from what this connection has sent,
\* whatever others sent before (StartServer's memset and its kBufferSize - 1).
THEOREM NothingIsLeftOver == NotifierSpec => []NothingLeftOver
  <1>1. NotifierInv => NothingLeftOver
    BY DEF NotifierInv
  <1> QED  BY <1>1, NotifierInvariant, PTL
-----------------------------------------------------------------------------
(* What the reader of the contact file makes of its lines.                  *)

\* The lines that ParseCSV reads are those up to the first that is too long.
LinesRead(file) ==
    LET long == SelectInSeq(file, LAMBDA line : line.long)
    IN IF long = 0 THEN file ELSE SubSeq(file, 1, long)

LEMMA LinesAreRead ==
    ASSUME NEW file \in Files
    PROVE  /\ Len(file) \in Nat /\ Len(LinesRead(file)) \in 0..Len(file)
           /\ \A i \in 1..Len(LinesRead(file)) : LinesRead(file)[i] = file[i]
           /\ \A i \in 1..Len(file) : IsRead(file, i) <=> i <= Len(LinesRead(file))
  <1> DEFINE m == Len(file)
             L == {i \in 1..m : file[i].long}
             long == SelectInSeq(file, LAMBDA line : line.long)
  <1>0. PICK S : file \in Seq(S)
    BY NotifierAssumption, Zenon
  <1>1. m \in Nat
    BY <1>0
  <1>2. long = IF L # {} THEN Min(L) ELSE 0
    BY DEF SelectInSeq
  <1>3. LinesRead(file) = IF long = 0 THEN file ELSE SubSeq(file, 1, long)
    BY DEF LinesRead
  <1> HIDE DEF long, m
  <1>4. CASE L = {}
    <2>1. LinesRead(file) = file
      BY <1>2, <1>3, <1>4
    <2>2. \A i \in 1..m : IsRead(file, i)
      BY <1>1, <1>4 DEF IsRead
    <2> QED  BY <1>1, <2>1, <2>2 DEF m
  <1>5. CASE L # {}
    <2>1. L \in SUBSET Nat
      BY <1>1
    <2>2. PICK x \in L : \A y \in L : x <= y
      BY <1>5, <2>1, LeastOf
    <2> HIDE DEF L
    <2>3. Min(L) = x
      BY <2>1, <2>2, MinIs
    <2>4. long = x
      BY <1>2, <1>5, <2>3
    <2> USE DEF L
    <2>5. x \in 1..m /\ file[x].long
      OBVIOUS
    <2>6. LinesRead(file) = SubSeq(file, 1, x)
      BY <1>1, <1>3, <2>4, <2>5
    <2>7. /\ Len(SubSeq(file, 1, x)) = x
          /\ \A i \in 1..x : SubSeq(file, 1, x)[i] = file[i]
      <3>1. \A k \in 1..x : file[k] \in S
        BY <1>0, <1>1, <2>5 DEF m
      <3>2. x \in Nat /\ 1 <= x /\ (IF 1 <= x THEN x - 1 + 1 ELSE 0) = x
        BY <1>1, <2>5
      <3>3. \A k \in 1..x : 1 + k - 1 = k
        BY <3>2
      <3> QED  BY <3>1, <3>2, <3>3, SubSeqProperties
    <2>8. ASSUME NEW i \in 1..m
          PROVE  IsRead(file, i) <=> i <= x
      <3>1. ASSUME i <= x, NEW j \in 1..i - 1
            PROVE  ~file[j].long
        <4>1. j \in 1..m /\ ~(x <= j)
          BY <1>1, <2>5, <3>1
        <4> QED  BY <2>2, <4>1
      <3>2. ASSUME ~(i <= x)
            PROVE  x \in 1..i - 1
        BY <1>1, <2>5, <3>2
      <3> QED  BY <2>5, <3>1, <3>2 DEF IsRead
    <2> QED  BY <1>1, <2>5, <2>6, <2>7, <2>8 DEF m
  <1> QED  BY <1>4, <1>5

\* A nickname that is on a line that is read has one contact, that of the line
\* that counts, and another has none (contact_map_[contact.nickname] = contact).
LEMMA ContactsAreOfLines ==
    ASSUME NEW file \in Files, NEW nickname
    PROVE  /\ nickname \in DOMAIN ParseCSV(file) =>
                \E i \in 1..Len(file) :
                  /\ LinesFor(file, nickname) = {i}
                  /\ ParseCSV(file)[nickname].email_id = Field(file[i], 3)
                  /\ ParseCSV(file)[nickname].mobile_number = Field(file[i], 4)
           /\ nickname \notin DOMAIN ParseCSV(file) => LinesFor(file, nickname) = {}
  <1> DEFINE read == LinesRead(file)
             n == Len(read)
             K == {Field(read[i], 1) : i \in 1..n}
             Of(k) == {i \in 1..n : Field(read[i], 1) = k}
             LastLine(k) == IF Of(k) # {} THEN Max(Of(k)) ELSE 0
             I == Of(nickname)
  <1>1. ParseCSV(file) =
          [k \in K |-> [email_id |-> Field(read[LastLine(k)], 3),
                        mobile_number |-> Field(read[LastLine(k)], 4)]]
    BY DEF ParseCSV, LinesRead, SelectLastInSeq
  <1>2. /\ n \in 0..Len(file) /\ Len(file) \in Nat
        /\ \A i \in 1..n : read[i] = file[i]
        /\ \A i \in 1..Len(file) : IsRead(file, i) <=> i <= n
    BY LinesAreRead
  <1> HIDE DEF read, n
  <1>3. I = {i \in 1..Len(file) : IsRead(file, i) /\ Field(file[i], 1) = nickname}
    BY <1>2
  <1>4. LinesFor(file, nickname) = {i \in I : \A j \in I : j <= i}
    <2>1. \A i : i \in LinesFor(file, nickname) <=>
             i \in I /\ \A j \in i + 1..Len(file) : j \notin I
      BY <1>3 DEF LinesFor
    <2>2. \A i \in I : (\A j \in i + 1..Len(file) : j \notin I) <=> \A j \in I : j <= i
      BY <1>2
    <2> QED  BY <2>1, <2>2
  <1>5. nickname \in DOMAIN ParseCSV(file) <=> I # {}
    BY <1>1
  <1>6. CASE I = {}
    BY <1>4, <1>5, <1>6
  <1>7. CASE I # {}
    <2>1. n \in Nat /\ I \in SUBSET (1..n) /\ I \in SUBSET Nat
      BY <1>2
    <2>2. PICK m \in I : \A i \in I : i <= m
      BY <1>7, <2>1, GreatestOf
    <2>3. Max(I) = m
      BY <2>1, <2>2, MaxIs
    <2>4. LinesFor(file, nickname) = {m}
      BY <1>4, <2>1, <2>2
    <2>5. LastLine(nickname) = m /\ nickname \in K
      BY <1>7, <2>3
    <2>6. /\ ParseCSV(file)[nickname].email_id = Field(read[m], 3)
          /\ ParseCSV(file)[nickname].mobile_number = Field(read[m], 4)
      BY <1>1, <2>5
    <2>7. m \in 1..Len(file) /\ read[m] = file[m]
      BY <1>2, <2>1
    <2> QED  BY <1>5, <1>7, <2>4, <2>6, <2>7
  <1> QED  BY <1>6, <1>7

-----------------------------------------------------------------------------
(* Messages are made from the request that is being answered, once.          *)

\* What a nickname, a priority and a text make the handler send for a client.
SentFor(c, nickname, priority, body) ==
    LET kind == IF priority = <<"high">> THEN "sms" ELSE "email"
    IN IF nickname \notin DOMAIN contacts \ {<<>>} THEN {}
       ELSE {[from |-> c, sender |-> kind, nickname |-> nickname, body |-> body,
              to |-> IF kind = "sms" THEN contacts[nickname].mobile_number
                                     ELSE contacts[nickname].email_id]}
SentForRequest ==
    SentFor(client, CgiArg(request.args, "nickname"), CgiArg(request.args, "priority"),
            CgiArg(request.args, "message"))

MessagesMade ==
    /\ pc \in {"accept", "read", "parse", "dispatch"} => messages = {}
    /\ pc \in {"write", "close"} => messages = SentForRequest

ContactsRead == \E file \in Files : contacts = ParseCSV(file)

MessagesInv == NotifierInv /\ MessagesMade /\ ContactsRead

\* What was read is a text.
LEMMA ArrivedIsText ==
    ASSUME NotifierInv, Serving
    PROVE  arrived \in Text
  <1>1. arrived \in Seq(Token)
    BY DEF NotifierInv, BufferHoldsRequest
  <1>2. \A i \in 1..Len(arrived) : arrived[i] \in STRING
    BY <1>1 DEF Token
  <1> QED  BY <1>1, <1>2, SeqOver DEF Text

\* The handler sends what its request asks for (NotifyRequestHandler::Handle).
LEMMA DispatchSends ==
    ASSUME messages = {}, Dispatch
    PROVE  messages' = SentForRequest'
  <1> DEFINE nickname == CgiArg(request.args, "nickname")
             priority == CgiArg(request.args, "priority")
             body == CgiArg(request.args, "message")
  <1>1. /\ UNCHANGED <<contacts, client, request>>
        /\ \/ nickname = <<>> /\ UNCHANGED messages
           \/ nickname # <<>> /\ nickname \notin DOMAIN contacts /\ UNCHANGED messages
           \/ nickname # <<>> /\ nickname \in DOMAIN contacts /\ Notify(nickname)
    BY DEF Dispatch
  <1>2. SentForRequest' = SentForRequest
    BY <1>1 DEF SentForRequest, SentFor
  <1>3. SentForRequest = SentFor(client, nickname, priority, body)
    BY DEF SentForRequest
  <1>4. CASE nickname \notin DOMAIN contacts \ {<<>>}
    <2>1. SentForRequest = {}
      BY <1>3, <1>4 DEF SentFor
    <2>2. messages' = {}
      BY <1>1, <1>4
    <2> QED  BY <1>2, <2>1, <2>2
  <1>5. CASE nickname \in DOMAIN contacts \ {<<>>}
    <2>1. Notify(nickname)
      BY <1>1, <1>5
    <2>2. CASE priority = <<"high">>
      <3>1. messages' = {} \cup {Message("sms", contacts[nickname].mobile_number)}
        BY <2>1, <2>2 DEF Notify, SmsNotify
      <3>2. SentForRequest = {Message("sms", contacts[nickname].mobile_number)}
        BY <1>3, <1>5, <2>2 DEF SentFor, Message
      <3> QED  BY <1>2, <3>1, <3>2
    <2>3. CASE priority # <<"high">>
      <3>1. messages' = {} \cup {Message("email", contacts[nickname].email_id)}
        BY <2>1, <2>3 DEF Notify, EmailNotify
      <3>2. SentForRequest = {Message("email", contacts[nickname].email_id)}
        BY <1>3, <1>5, <2>3 DEF SentFor, Message
      <3> QED  BY <1>2, <3>1, <3>2
    <2> QED  BY <2>2, <2>3
  <1> QED  BY <1>4, <1>5

\* A request that is not understood has no arguments.
LEMMA RefusedSendsNothing ==
    ASSUME NotifierInv, messages = {}, Parse
    PROVE  ~request'.ok => SentForRequest' = {}
  <1>1. pc = "parse" /\ request' = ReadHttpRequest[CString(buffer)]
    BY DEF Parse
  <1>2. CString(buffer) = arrived
    BY <1>1, StringEndsWhereRead DEF NotifierInv, BufferHoldsRequest, Serving
  <1>3. arrived \in Text
    BY <1>1, ArrivedIsText DEF Serving
  <1>4. request' = ParseError \/ request'.ok
    <2>1. \A args : Parsed(args).ok
      BY DEF Parsed
    <2>2. \/ request' \in {ParseError, Parsed(NoArguments)}
          \/ \E u : request' = Parsed(ReadArguments[u])
      BY <1>1, <1>2, <1>3, RequestShape
    <2> QED  BY <2>1, <2>2
  <1>5. CASE request' = ParseError
    <2>1. request'.args = NoArguments
      BY <1>5 DEF ParseError
    <2>2. CgiArg(request'.args, "nickname") = <<>>
      BY <2>1 DEF CgiArg, NoArguments
    <2>3. SentForRequest' = {}
      BY <2>2 DEF SentForRequest, SentFor
    <2> QED  BY <2>3
  <1> QED  BY <1>4, <1>5

LEMMA MessagesStepHolds ==
    MessagesInv /\ [NotifierNext]_notifier_vars => MessagesInv'
  <1> SUFFICES ASSUME MessagesInv, [NotifierNext]_notifier_vars  PROVE MessagesInv'
    OBVIOUS
  <1> USE DEF MessagesInv
  <1>0. ContactsRead'
    <2>1. contacts' = contacts
      BY DEF NotifierNext, ServerStep, Connect, Send, HangUp, Accept, Read, ReadNothing, Parse,
             Dispatch, WriteOutput, Close, CheckFails, notifier_vars
    <2> QED  BY <2>1 DEF ContactsRead
  <1>1. NotifierInv'
    BY NotifierStepHolds
  <1>2. ASSUME UNCHANGED <<pc, messages, contacts, client, request>>
        PROVE  MessagesMade'
    BY <1>2 DEF MessagesMade, SentForRequest, SentFor
  <1>3. ASSUME NEW c \in Clients, Connect(c) \/ Send(c) \/ HangUp(c)
        PROVE  MessagesMade'
    <2>1. UNCHANGED <<pc, messages, contacts, client, request>>
      BY <1>3 DEF Connect, Send, HangUp, request_vars, history_vars
    <2> QED  BY <1>2, <2>1
  <1>4. CASE Accept \/ Read \/ ReadNothing
    <2>1. pc \in {"accept", "read"} /\ pc' \in {"accept", "read", "parse"} /\ messages' = messages
      BY <1>4 DEF Accept, Read, ReadNothing, CloseConnection, history_vars
    <2> QED  BY <1>0, <1>1, <2>1 DEF MessagesMade
  <1>5. CASE Parse
    <2>1. pc = "parse" /\ messages' = messages /\ pc' = IF request'.ok THEN "dispatch" ELSE "write"
      BY <1>5 DEF Parse, history_vars
    <2>2. messages = {}
      BY <2>1 DEF MessagesMade
    <2>3. ~request'.ok => SentForRequest' = {}
      BY <1>5, <2>2, RefusedSendsNothing
    <2> QED  BY <1>0, <1>1, <2>1, <2>2, <2>3 DEF MessagesMade
  <1>6. CASE Dispatch
    <2>1. pc = "dispatch" /\ pc' = "write"
      BY <1>6 DEF Dispatch
    <2>2. messages = {}
      BY <2>1 DEF MessagesMade
    <2>3. messages' = SentForRequest'
      BY <1>6, <2>2, DispatchSends
    <2> QED  BY <1>0, <1>1, <2>1, <2>3 DEF MessagesMade
  <1>7. CASE WriteOutput
    <2>1. pc = "write" /\ pc' = "close" /\ UNCHANGED <<messages, contacts, client, request>>
      BY <1>7 DEF WriteOutput, request_vars, history_vars
    <2> QED  BY <1>0, <1>1, <2>1 DEF MessagesMade, SentForRequest, SentFor
  <1>8. CASE Close
    <2>1. pc' = "accept" /\ messages' = {}
      BY <1>8 DEF Close, CloseConnection, ForgetRequest
    <2> QED  BY <1>0, <1>1, <2>1 DEF MessagesMade
  <1>9. CASE CheckFails
    <2>1. pc' = "aborted"
      BY <1>9 DEF CheckFails
    <2> QED  BY <1>0, <1>1, <2>1 DEF MessagesMade
  <1>10. CASE UNCHANGED notifier_vars
    <2>1. UNCHANGED <<pc, messages, contacts, client, request>>
      BY <1>10 DEF notifier_vars, client_vars, request_vars, history_vars
    <2> QED  BY <1>0, <1>1, <1>2, <2>1
  <1> QED
    BY <1>0, <1>1, <1>3, <1>4, <1>5, <1>6, <1>7, <1>8, <1>9, <1>10 DEF NotifierNext, ServerStep

\* What has been sent when a connection is about to be closed is what the
\* request that was parsed asks for, and nothing before.
THEOREM MessagesInvariant == NotifierSpec => []MessagesInv
  <1>1. NotifierInit => MessagesInv
    <2>1. NotifierInit => MessagesMade
      BY DEF NotifierInit, MessagesMade
    <2>2. NotifierInit => ContactsRead
      BY DEF NotifierInit, ContactsRead
    <2> QED  BY <2>1, <2>2, NotifierInitHolds DEF MessagesInv
  <1> QED  BY <1>1, MessagesStepHolds, PTL DEF NotifierSpec

\* What a form asks for is what its words make the handler send.
LEMMA ExpectedIsSent ==
    ASSUME NEW file \in Files, contacts = ParseCSV(file), NEW form, NEW c
    PROVE  Expected(c, form, file) =
             SentFor(c, LastOf(form, "nickname"), LastOf(form, "priority"),
                     LastOf(form, "message"))
  <1> DEFINE nickname == LastOf(form, "nickname")
             kind == IF LastOf(form, "priority") = <<"high">> THEN "sms" ELSE "email"
             Sent(to) == [from |-> c, sender |-> kind, nickname |-> nickname,
                          body |-> LastOf(form, "message"), to |-> to]
             Place == IF kind = "sms" THEN 4 ELSE 3
             To == IF kind = "sms" THEN contacts[nickname].mobile_number
                                   ELSE contacts[nickname].email_id
  <1>1. Expected(c, form, file) =
          {Sent(Field(file[i], Place)) :
             i \in IF nickname = <<>> THEN {} ELSE LinesFor(file, nickname)}
    BY DEF Expected
  <1>2. SentFor(c, nickname, LastOf(form, "priority"), LastOf(form, "message")) =
          IF nickname \notin DOMAIN contacts \ {<<>>} THEN {} ELSE {Sent(To)}
    BY DEF SentFor
  <1> HIDE DEF nickname, Sent
  <1>3. CASE nickname \notin DOMAIN contacts \ {<<>>}
    <2>1. nickname # <<>> => LinesFor(file, nickname) = {}
      BY <1>3, ContactsAreOfLines
    <2> QED  BY <1>1, <1>2, <1>3, <2>1 DEF nickname
  <1>4. CASE nickname \in DOMAIN contacts \ {<<>>}
    <2>1. PICK i \in 1..Len(file) :
            /\ LinesFor(file, nickname) = {i}
            /\ contacts[nickname].email_id = Field(file[i], 3)
            /\ contacts[nickname].mobile_number = Field(file[i], 4)
      BY <1>4, ContactsAreOfLines
    <2>2. To = Field(file[i], Place)
      BY <2>1
    <2> HIDE DEF To, Place
    <2>3. Expected(c, form, file) = {Sent(Field(file[i], Place))}
      BY <1>1, <1>4, <2>1
    <2> QED  BY <1>2, <1>4, <2>2, <2>3 DEF nickname
  <1> QED  BY <1>3, <1>4

\* For every form, whatever words are filled in, every file of contacts and every
\* text around the query: a request that was read whole has sent what it asks for
\* with the words as the browser submits them, and one in which no nickname is has
\* sent nothing (NotifyRequestHandler::Handle, ContactList::ParseCSV).
THEOREM MessagesAreAsSubmitted == NotifierSpec => []MessagesAsSubmitted
  <1>1. MessagesInv => MessagesAsSubmitted
    <2> SUFFICES ASSUME MessagesInv, pc = "close"
                 PROVE  /\ \E file \in Files : \A form \in Forms :
                             <<arrived, form>> \in Requests =>
                               messages = Expected(client, Submitted(form), file)
                        /\ "nickname" \notin ToSet(arrived) => messages = {}
      BY DEF MessagesAsSubmitted
    <2> USE DEF MessagesInv
    <2>1. messages = SentForRequest /\ request = ReadHttpRequest[arrived]
      BY DEF MessagesMade, NotifierInv, NothingLeftOver
    <2>2. arrived \in Text
      BY ArrivedIsText DEF Serving
    <2>0. PICK file \in Files : contacts = ParseCSV(file)
      BY DEF ContactsRead
    <2>3. ASSUME NEW filled \in Forms, <<arrived, filled>> \in Requests
          PROVE  messages = Expected(client, Submitted(filled), file)
      <3> DEFINE form == Submitted(filled)
      <3>0. form \in Submissions
        BY DEF Submissions
      <3>1. IsRequest(arrived, form)
        BY <2>3 DEF Requests
      <3> HIDE DEF form
      <3>2. \A name : CgiArg(request.args, name) = LastOf(form, name)
        BY <2>1, <2>2, <3>0, <3>1, RequestIsRead DEF AnswersForm
      <3>3. SentForRequest = SentFor(client, LastOf(form, "nickname"), LastOf(form, "priority"),
                                     LastOf(form, "message"))
        BY <3>2 DEF SentForRequest
      <3>4. Expected(client, form, file) =
              SentFor(client, LastOf(form, "nickname"), LastOf(form, "priority"),
                      LastOf(form, "message"))
        BY <2>0, ExpectedIsSent
      <3> QED  BY <2>1, <3>3, <3>4 DEF form
    <2>4. ASSUME "nickname" \notin ToSet(arrived)
          PROVE  messages = {}
      <3>1. \A m \in 1..Len(arrived) : arrived[m] # "nickname"
        BY <2>2, <2>4 DEF ToSet, Text
      <3>2. CgiArg(request.args, "nickname") = <<>>
        BY <2>1, <2>2, <3>1, NoNicknameNamed
      <3> QED  BY <2>1, <3>2 DEF SentForRequest, SentFor
    <2> QED  BY <2>3, <2>4
  <1> QED  BY <1>1, MessagesInvariant, PTL
=============================================================================
