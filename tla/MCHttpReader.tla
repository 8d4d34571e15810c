---------------------------- MODULE MCHttpReader ----------------------------
(***************************************************************************)
(* HttpReader with answers that have every kind of end and of size line.   *)
(***************************************************************************)
EXTENDS HttpReader

CRLF == <<CR, LF>>
Copies(n, x) == [i \in 1 .. n |-> x]
End == [crlf |-> Ends.crlf, lf |-> Ends.lf, none |-> CRLF]

ChunkText(digits) == digits \o CRLF \o Copies(Value(digits), "d") \o CRLF
BodyText(sizes) == FlattenSeq([i \in DOMAIN sizes |-> ChunkText(sizes[i])])

\* `lines' CRLFs, the bytes of the header with its end, a chunk for each size.
Answer(lines, bytes, end, sizes) ==
  LET lead == FlattenSeq(Copies(lines, CRLF))
      upto == lead \o bytes \o End[end]
  IN  [text |-> upto \o BodyText(sizes), lead |-> Len(lead), head |-> Len(upto), end |-> end,
       chunks |-> [i \in DOMAIN sizes |->
         [at |-> Len(BodyText(SubSeq(sizes, 1, i - 1))), digits |-> sizes[i]]]]

MCAnswers ==
  {Answer(0, <<"h", "h">>, "crlf", <<<<"x2">>, <<"x0", "x1">>, <<"x0">>>>),
   Answer(1, <<"h">>, "crlf", <<<<"x1">>, <<"x0">>>>),
   Answer(0, <<"h">>, "crlf", <<<<"x3">>, <<"x0">>>>),
   Answer(0, <<"h">>, "crlf", <<<<"x0", "x0", "x1">>, <<"x0">>>>),
   Answer(0, <<"h", CR, LF, "h">>, "crlf", <<>>),
   Answer(1, <<"h", LF, "h">>, "lf", <<>>),
   Answer(0, <<"h">>, "none", <<>>),
   Answer(2, Copies(7, "h"), "crlf", <<>>)}

=============================================================================
