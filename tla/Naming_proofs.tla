---------------------------- MODULE Naming_proofs ----------------------------
(***************************************************************************)
(* The names and the places of what a child caches, for every URL.         *)
(***************************************************************************)
EXTENDS Naming, SequenceTheorems, WellFoundedInduction, TLAPS

(***************************************************************************)
(* The parts of a URL.                                                     *)
(***************************************************************************)

\* What may be a part of a URL or of a name.
Words == STRING \cup {"host", "", "-vid", "-aud", ".flv", ".webm"}

LEMMA OneSeq ==
  ASSUME NEW S, NEW e \in S
  PROVE  <<e>> \in Seq(S) /\ Len(<<e>>) = 1 /\ <<e>>[1] = e /\ <<e>> # <<>>
OBVIOUS

LEMMA TwoSeq ==
  ASSUME NEW S, NEW e \in S, NEW f \in S
  PROVE  <<e, f>> \in Seq(S) /\ Len(<<e, f>>) = 2
OBVIOUS

LEMMA WiderSeq ==
  ASSUME NEW S, NEW T, S \subseteq T, NEW s \in Seq(S)
  PROVE  s \in Seq(T)
OBVIOUS

\* A set of places has a first and a last one.
LEMMA MinIsIn ==
  ASSUME NEW T \in SUBSET Nat, T # {}
  PROVE  Min(T) \in T /\ \A n \in T : Min(T) <= n
<1>1. PICK m \in T : \A n \in T : ~ (<<n, m>> \in OpToRel(<, Nat))
  BY WFMin, NatLessThanWellFounded
<1>2. ASSUME NEW n \in T PROVE m <= n
  <2>1. n \in Nat /\ m \in Nat
    OBVIOUS
  <2>2. ~ (n < m)
    BY <1>1, <2>1 DEF OpToRel
  <2>3. QED  BY <2>1, <2>2
<1>3. QED  BY <1>2 DEF Min

LEMMA MaxIsIn ==
  ASSUME NEW k \in Nat, NEW T \in SUBSET (1 .. k), T # {}
  PROVE  Max(T) \in T /\ \A n \in T : n <= Max(T)
<1> DEFINE R == {k - n : n \in T}
<1>1. R \in SUBSET Nat /\ R # {}
  <2>1. R \in SUBSET Nat
    OBVIOUS
  <2>2. R # {}
    OBVIOUS
  <2>3. QED  BY <2>1, <2>2
<1>2. PICK least \in R : \A n \in R : least <= n
  BY <1>1, MinIsIn
<1>3. PICK m \in T : least = k - m
  BY <1>2
<1>4. ASSUME NEW n \in T PROVE n <= m
  <2>1. k - m <= k - n
    BY <1>2, <1>3
  <2>2. n \in Nat /\ m \in Nat
    OBVIOUS
  <2>3. QED  BY <2>1, <2>2
<1>5. QED  BY <1>4 DEF Max

LEMMA PartsAre ==
  ASSUME NEW u, IsUrl(u)
  PROVE  /\ Parts(u) \in Seq(Words) /\ Len(Parts(u)) = Len(u.path) + 1
         /\ Len(Parts(u)) \in Nat /\ Len(Parts(u)) >= 1 /\ Parts(u)[1] = "host"
         /\ \A i \in 1 .. Len(Parts(u)) : Parts(u)[i] # "/&"
         /\ u.path # <<>> => Last(Parts(u)) = Last(u.path)
<1>1. /\ u.path \in Seq(Words \ {"/&"}) /\ <<"host">> \in Seq(Words \ {"/&"})
      /\ Len(<<"host">>) = 1 /\ <<"host">>[1] = "host"
  <2>1. u.path \in Seq(STRING \ {"/&"}) /\ STRING \ {"/&"} \subseteq Words \ {"/&"}
    BY DEF IsUrl, Words
  <2>2. u.path \in Seq(Words \ {"/&"})
    BY <2>1, WiderSeq
  <2>3. "host" \in Words \ {"/&"}
    BY DEF Words
  <2>4. QED  BY <2>2, <2>3, OneSeq
<1>2. /\ Parts(u) \in Seq(Words \ {"/&"}) /\ Len(Parts(u)) = 1 + Len(u.path)
      /\ \A i \in 1 .. 1 + Len(u.path) :
           Parts(u)[i] = IF i <= 1 THEN <<"host">>[i] ELSE u.path[i - 1]
  BY <1>1, ConcatProperties DEF Parts
<1>3. Len(u.path) \in Nat
  BY <1>1
<1>4. Parts(u)[1] = "host"
  BY <1>1, <1>2, <1>3
<1>5. ASSUME NEW i \in 1 .. Len(Parts(u)) PROVE Parts(u)[i] # "/&" /\ Parts(u)[i] \in Words
  BY <1>2
<1>6. Parts(u) \in Seq(Words)
  BY <1>2, <1>5
<1>7. ASSUME u.path # <<>> PROVE Last(Parts(u)) = Last(u.path)
  <2>1. Len(u.path) >= 1
    BY <1>1, <1>7
  <2>2. Parts(u)[1 + Len(u.path)] = u.path[Len(u.path)]
    BY <1>2, <1>3, <2>1
  <2>3. QED  BY <1>2, <2>2 DEF Last
<1>8. QED  BY <1>2, <1>3, <1>4, <1>5, <1>6, <1>7

\* The last n parts are n parts, if there are so many.
LEMMA LastPartsAre ==
  ASSUME NEW u, IsUrl(u), NEW n \in Nat, n >= 1
  PROVE  /\ LastParts(u, n) = Thrown <=> Len(Parts(u)) < n
         /\ PartFromEnd(u, n) = Thrown <=> Len(Parts(u)) < n
         /\ LastParts(u, n) # Thrown => LastParts(u, n) \in Seq(Words)
         /\ PartFromEnd(u, n) # Thrown => PartFromEnd(u, n) \in Seq(Words)
         /\ LastParts(u, n) # Thrown => Len(LastParts(u, n)) = n
         /\ LastParts(u, n) # <<>> /\ PartFromEnd(u, n) # <<>>
<1> DEFINE s == Parts(u)
           l == Len(s)
<1>1. /\ s \in Seq(Words) /\ l \in Nat /\ l >= 1
      /\ \A i \in 1 .. l : s[i] # "/&"
  BY PartsAre
<1>2. CASE l < n
  <2>1. LastParts(u, n) = <<"/&">> /\ PartFromEnd(u, n) = <<"/&">>
    BY <1>2 DEF LastParts, PartFromEnd, Thrown
  <2>2. <<"/&">> \in Seq(Words \cup {"/&"}) /\ <<"/&">> # <<>>
    BY OneSeq
  <2>3. QED  BY <1>1, <1>2, <2>1, <2>2 DEF Thrown
<1>3. CASE ~ (l < n)
  <2>1. l - n + 1 \in 1 .. l
    BY <1>1, <1>3
  <2>2. LastParts(u, n) = SubSeq(s, l - n + 1, l) /\ PartFromEnd(u, n) = <<s[l - n + 1]>>
    BY <1>3 DEF LastParts, PartFromEnd
  <2>3. PICK first \in 1 .. l : first = l - n + 1
    BY <2>1
  <2>4. /\ SubSeq(s, first, l) \in Seq(Words) /\ SubSeq(s, first, l)[1] = s[first]
        /\ Len(SubSeq(s, first, l)) = l - first + 1
    BY <1>1, SubSeqProperties
  <2>5. s[first] \in Words /\ s[first] # "/&" /\ <<"/&">>[1] = "/&"
    BY <1>1
  <2>6. SubSeq(s, first, l) # <<"/&">>
    BY <2>4, <2>5
  <2>9. Len(SubSeq(s, first, l)) # 0
    BY <1>1, <2>4
  <2>11. Len(<<>>) = 0
    OBVIOUS
  <2>10. SubSeq(s, first, l) # <<>>
    BY <2>9, <2>11
  <2>7. <<s[first]>> # <<"/&">> /\ <<s[first]>> \in Seq(Words) /\ <<s[first]>> # <<>>
    BY <2>5, OneSeq
  <2>12. Len(SubSeq(s, first, l)) = n
    BY <1>1, <2>3, <2>4
  <2>8. QED  BY <1>3, <2>2, <2>3, <2>4, <2>6, <2>7, <2>10, <2>12 DEF Thrown
<1>4. QED  BY <1>2, <1>3

LEMMA ArgsAre ==
  ASSUME NEW u, IsUrl(u), NEW name
  PROVE  /\ Args(u, name) \in SUBSET (1 .. Len(u.query)) /\ Len(u.query) \in Nat
         /\ NoMark(u) \/ Bare(u) => Args(u, name) = {}
         /\ Arg(u, name) \in Words /\ Arg(u, name) # "/&"
         /\ Args(u, name) = {} => Arg(u, name) = ""
<1>1. /\ u.query \in Seq(STRING \X (STRING \ {"/&"})) /\ Len(u.query) \in Nat /\ u.mark \in BOOLEAN
      /\ u.query # <<>> => u.mark
  BY DEF IsUrl
<1>2. Args(u, name) \in SUBSET (1 .. Len(u.query))
  BY <1>1 DEF Args
<1>3. ASSUME NoMark(u) \/ Bare(u) PROVE Args(u, name) = {}
  <2>1. u.query = <<>>
    BY <1>1, <1>3 DEF NoMark, Bare
  <2>2. QED  BY <1>2, <2>1
<1>4. CASE Args(u, name) = {}
  <2>1. Arg(u, name) = "" /\ "" \in Words /\ "" # "/&"
    BY <1>4 DEF Arg, LastOfArgs, Words
  <2>2. QED  BY <1>1, <1>2, <1>3, <2>1
<1>5. CASE Args(u, name) # {}
  <2>1. Max(Args(u, name)) \in 1 .. Len(u.query)
    BY <1>1, <1>2, <1>5, MaxIsIn
  <2>2. u.query[Max(Args(u, name))] \in STRING \X (STRING \ {"/&"})
    BY <1>1, <2>1
  <2>3. Arg(u, name) = u.query[Max(Args(u, name))][2]
    BY <1>5 DEF Arg, LastOfArgs
  <2>4. Arg(u, name) \in Words /\ Arg(u, name) # "/&"
    BY <2>2, <2>3 DEF Words
  <2>5. QED  BY <1>1, <1>2, <1>3, <1>5, <2>4
<1>6. QED  BY <1>4, <1>5

\* The names that nearly all plugins give.
LEMMA Filenames ==
  ASSUME NEW u, IsUrl(u)
  PROVE  /\ get_filename(u) = Thrown => Bare(u)
         /\ get_filename4(u) = Thrown => Bare(u) \/ Len(Parts(u)) < 4
         /\ LastParts(u, 1) # Thrown /\ LastParts(u, 1) # <<>> /\ LastParts(u, 1) \in Seq(Words)
         /\ Len(LastParts(u, 1)) = 1
         /\ get_videoid(u) # Thrown /\ get_videoid(u) # <<>>
         /\ get_videoid(u) \in Seq(Words \cup {"?", u.query})
         /\ get_filename(u) # <<>> /\ get_filename4(u) # <<>>
<1>1. Len(Parts(u)) \in Nat /\ Len(Parts(u)) >= 1 /\ Parts(u) \in Seq(Words)
  BY PartsAre
<1>2. 1 \in Nat /\ 1 >= 1 /\ 4 \in Nat /\ 4 >= 1
  OBVIOUS
<1>3. LastParts(u, 1) # Thrown /\ LastParts(u, 1) # <<>> /\ LastParts(u, 1) \in Seq(Words)
  <2>1. /\ LastParts(u, 1) = Thrown <=> Len(Parts(u)) < 1
        /\ LastParts(u, 1) # Thrown => LastParts(u, 1) \in Seq(Words)
        /\ LastParts(u, 1) # <<>>
    BY <1>2, LastPartsAre
  <2>2. ~ (Len(Parts(u)) < 1)
    BY <1>1
  <2>3. QED  BY <2>1, <2>2
<1>4. get_filename(u) = Thrown => Bare(u)
  BY <1>3 DEF get_filename
<1>5. get_filename4(u) = Thrown => Bare(u) \/ Len(Parts(u)) < 4
  <2>1. LastParts(u, 4) = Thrown <=> Len(Parts(u)) < 4
    BY <1>2, LastPartsAre
  <2>2. QED  BY <2>1 DEF get_filename4
<1>6. Len(LastParts(u, 1)) = 1
  <2>1. PICK l \in Nat : l = Len(Parts(u)) /\ l >= 1
    BY <1>1
  <2>2. LastParts(u, 1) = SubSeq(Parts(u), l - 1 + 1, l)
    BY <2>1 DEF LastParts
  <2>3. l - 1 + 1 = l /\ l \in 1 .. l
    BY <2>1
  <2>4. Len(SubSeq(Parts(u), l, l)) = l - l + 1
    BY <1>1, <2>1, <2>3, SubSeqProperties
  <2>5. l - l + 1 = 1
    BY <2>1
  <2>6. QED  BY <2>2, <2>3, <2>4, <2>5
<1>7. /\ get_videoid(u) # Thrown /\ get_videoid(u) # <<>>
      /\ get_videoid(u) \in Seq(Words \cup {"?", u.query})
  <2>1. CASE u.mark
    <3>1. get_videoid(u) = LastParts(u, 1) \o <<"?", u.query>>
      BY <2>1 DEF get_videoid, LastPartWithQuery, QueryText
    <3>2. /\ LastParts(u, 1) \in Seq(Words \cup {"?", u.query})
          /\ <<"?", u.query>> \in Seq(Words \cup {"?", u.query}) /\ Len(<<"?", u.query>>) = 2
      BY <1>3, TwoSeq, WiderSeq
    <3>4. Len(LastParts(u, 1) \o <<"?", u.query>>) = Len(LastParts(u, 1)) + Len(<<"?", u.query>>)
      BY <3>2, ConcatProperties
    <3>3. Len(LastParts(u, 1) \o <<"?", u.query>>) = 1 + 2
      BY <1>6, <3>2, <3>4
    <3>5. Len(Thrown) = 1 /\ Len(<<>>) = 0
      BY DEF Thrown
    <3>6. LastParts(u, 1) \o <<"?", u.query>> \in Seq(Words \cup {"?", u.query})
      BY <3>2, ConcatProperties
    <3>7. QED  BY <3>1, <3>3, <3>5, <3>6
  <2>2. CASE ~ u.mark
    <3>1. get_videoid(u) = LastParts(u, 1) \o <<>>
      BY <2>2 DEF get_videoid, LastPartWithQuery, QueryText
    <3>2. LastParts(u, 1) \o <<>> = LastParts(u, 1)
      BY <1>3
    <3>3. LastParts(u, 1) \in Seq(Words \cup {"?", u.query})
      BY <1>3, WiderSeq
    <3>4. QED  BY <1>3, <3>1, <3>2, <3>3
  <2>3. QED  BY <2>1, <2>2
<1>8. get_filename(u) # <<>> /\ get_filename4(u) # <<>>
  <2>1. Thrown # <<>>
    BY OneSeq DEF Thrown
  <2>2. LastParts(u, 4) # <<>>
    BY <1>2, LastPartsAre
  <2>3. QED  BY <1>3, <2>1, <2>2 DEF get_filename, get_filename4
<1>9. QED  BY <1>3, <1>4, <1>5, <1>6, <1>7, <1>8

(***************************************************************************)
(* What every plugin's answer has to be.                                   *)
(***************************************************************************)

\* It has the fields of a resposta.
IsResposta(answer) == DOMAIN answer = DOMAIN NoMatch

\* An answer is the exception only for a URL that is one of the deadly ones; a
\* match has a name, begins where the URL says, and is YouTube's only with the
\* interval of the URL.
Fits(u, answer) ==
  /\ IsResposta(answer)
  /\ answer.file = Thrown => Deadly(u)
  /\ answer.match => answer.file # <<>> \/ answer.domain \in Unnamed
  /\ answer.match /\ answer.domain # "rewrite" =>
       \/ answer.range_min = UrlStart(u)
       \/ Args(u, "fs") # {} /\ LaterArg(u, "fs") = ""
  /\ answer.match /\ answer.domain = "youtube" =>
       answer.file \in Seq(Words) /\ (answer.exist_range \/ UrlStart(u) = 0)

\* Only the seekers, YouTube and Netflix have URLs with a start.
LEMMA NoStart ==
  ASSUME NEW u, getdomain(u) \notin Seekers \cup {<<"youtube", "com">>, <<"netflix", "com">>}
  PROVE  UrlStart(u) = 0
BY DEF UrlStart

(***************************************************************************)
(* The plugins with a condition and the last part.                         *)
(***************************************************************************)

PlainPlugins ==
  {<<"5min", "com">>, <<"amazonaws", "com">>, <<"appspot", "com">>, <<"avast", "com">>,
   <<"avg", "com">>, <<"avgate", "net">>, <<"bomusica", "biz">>, <<"bomusica", "info">>,
   <<"bomusicas", "com">>, <<"bullafina", "biz">>, <<"bullafina", "me">>,
   <<"cloudfront", "net">>, <<"coqui", "net">>, <<"cutmu", "net">>,
   <<"disneylatino", "com">>, <<"domusica", "me">>, <<"domusicas", "com">>,
   <<"dungeonbusters", "com">>, <<"etrustdownloads", "ca", "com">>, <<"friv", "com">>,
   <<"geewa", "net">>, <<"goobeo", "com">>, <<"gooveo", "biz">>, <<"gooveo", "info">>,
   <<"gooveo", "me">>, <<"grandchase", "com", "br">>, <<"hulkshare", "com">>,
   <<"kaspersky", "com">>, <<"kixeye", "com">>, <<"llnwd", "net">>,
   <<"maguinamotors", "com">>, <<"manabar", "ca">>, <<"metacafe", "com">>,
   <<"miniclip", "com">>, <<"modovideo", "com">>, <<"molenillo", "com">>,
   <<"mp3-buscador", "com">>, <<"musicaveo", "biz">>, <<"musicaveo", "info">>,
   <<"nai", "com">>, <<"netpocket", "org">>, <<"ning", "com">>, <<"nofeehost", "com">>,
   <<"nordeus", "com">>, <<"pop6", "com">>, <<"popcap", "com">>,
   <<"serviporno", "com">>, <<"sonicomusica", "com">>, <<"symantecliveupdate", "com">>,
   <<"telaxo", "com">>, <<"terra", "com">>, <<"tetrisfb", "com">>, <<"turner", "com">>,
   <<"uol", "com", "br">>, <<"vevos", "biz">>, <<"viddler", "com">>,
   <<"video", "msn", "com">>, <<"vostucdn", "com">>, <<"wooga", "com">>,
   <<"ziddu", "com">>, <<"edgecastcdn", "net">>, <<"imageshack", "us">>,
   <<"juegosdiarios", "com">>, <<"juegosjuegos", "com">>, <<"microsoft", "com">>,
   <<"mlstatic", "com">>, <<"netdna", "com">>, <<"nflximg", "net">>,
   <<"nvidia", "com">>, <<"orkut", "com">>, <<"tumblr", "com">>, <<"vsh", "r7", "com">>,
   <<"youku", "com">>}

LEMMA PlainFits ==
  ASSUME NEW u, IsUrl(u), NEW text, getdomain(u) \in PlainPlugins
  PROVE  Fits(u, hgetmatch2(getdomain(u), u, text))
<1> USE DEF Give, GiveAt, Resposta, NoMatch, Dies, Fits, IsResposta
<1>1. /\ get_filename(u) = Thrown => Deadly(u)
      /\ get_videoid(u) # Thrown /\ Thrown # <<>>
  BY Filenames, OneSeq DEF Deadly, Thrown
<1>2. UrlStart(u) = 0
  <2>1. getdomain(u) \notin Seekers \cup {<<"youtube", "com">>, <<"netflix", "com">>}
    BY DEF PlainPlugins, Seekers
  <2>2. QED  BY <2>1, NoStart
<1>3. CASE getdomain(u) \in
       {<<"5min", "com">>, <<"amazonaws", "com">>, <<"appspot", "com">>,
        <<"avast", "com">>, <<"avg", "com">>, <<"avgate", "net">>,
        <<"bomusica", "biz">>, <<"bomusica", "info">>, <<"bomusicas", "com">>,
        <<"bullafina", "biz">>}
  <2>1. /\ Fits(u, fivemin_com(u))
        /\ Fits(u, amazonaws_com(u))
        /\ Fits(u, appspot_com(u))
        /\ Fits(u, avast_com(u))
        /\ Fits(u, avg_com(u))
        /\ Fits(u, avgate_net(u))
        /\ Fits(u, bomusica_biz(u))
        /\ Fits(u, bomusica_info(u))
        /\ Fits(u, bomusicas_com(u))
        /\ Fits(u, bullafina_biz(u))
    BY <1>1, <1>2 DEF fivemin_com, amazonaws_com, appspot_com, avast_com, avg_com, avgate_net,
      bomusica_biz, bomusica_info, bomusicas_com, bullafina_biz
  <2>2. /\ hgetmatch2(<<"5min", "com">>, u, text) = fivemin_com(u)
        /\ hgetmatch2(<<"amazonaws", "com">>, u, text) = amazonaws_com(u)
        /\ hgetmatch2(<<"appspot", "com">>, u, text) = appspot_com(u)
        /\ hgetmatch2(<<"avast", "com">>, u, text) = avast_com(u)
        /\ hgetmatch2(<<"avg", "com">>, u, text) = avg_com(u)
        /\ hgetmatch2(<<"avgate", "net">>, u, text) = avgate_net(u)
        /\ hgetmatch2(<<"bomusica", "biz">>, u, text) = bomusica_biz(u)
        /\ hgetmatch2(<<"bomusica", "info">>, u, text) = bomusica_info(u)
        /\ hgetmatch2(<<"bomusicas", "com">>, u, text) = bomusicas_com(u)
        /\ hgetmatch2(<<"bullafina", "biz">>, u, text) = bullafina_biz(u)
    BY DEF hgetmatch2
  <2> HIDE DEF Give, GiveAt, Resposta, NoMatch, Dies, Fits, IsResposta
  <2>3. QED  BY <1>3, <2>1, <2>2
<1>4. CASE getdomain(u) \in
       {<<"bullafina", "me">>, <<"cloudfront", "net">>, <<"coqui", "net">>,
        <<"cutmu", "net">>, <<"disneylatino", "com">>, <<"domusica", "me">>,
        <<"domusicas", "com">>, <<"dungeonbusters", "com">>,
        <<"etrustdownloads", "ca", "com">>, <<"friv", "com">>}
  <2>1. /\ Fits(u, bullafina_me(u))
        /\ Fits(u, cloudfront_net(u))
        /\ Fits(u, coqui_net(u))
        /\ Fits(u, cutmu_net(u))
        /\ Fits(u, disneylatino_com(u))
        /\ Fits(u, domusica_me(u))
        /\ Fits(u, domusicas_com(u))
        /\ Fits(u, dungeonbusters_com(u))
        /\ Fits(u, etrustdownloads_ca_com(u))
        /\ Fits(u, friv_com(u))
    BY <1>1, <1>2 DEF bullafina_me, cloudfront_net, coqui_net, cutmu_net, disneylatino_com,
      domusica_me, domusicas_com, dungeonbusters_com, etrustdownloads_ca_com,
      friv_com
  <2>2. /\ hgetmatch2(<<"bullafina", "me">>, u, text) = bullafina_me(u)
        /\ hgetmatch2(<<"cloudfront", "net">>, u, text) = cloudfront_net(u)
        /\ hgetmatch2(<<"coqui", "net">>, u, text) = coqui_net(u)
        /\ hgetmatch2(<<"cutmu", "net">>, u, text) = cutmu_net(u)
        /\ hgetmatch2(<<"disneylatino", "com">>, u, text) = disneylatino_com(u)
        /\ hgetmatch2(<<"domusica", "me">>, u, text) = domusica_me(u)
        /\ hgetmatch2(<<"domusicas", "com">>, u, text) = domusicas_com(u)
        /\ hgetmatch2(<<"dungeonbusters", "com">>, u, text) = dungeonbusters_com(u)
        /\ hgetmatch2(<<"etrustdownloads", "ca", "com">>, u, text) = etrustdownloads_ca_com(u)
        /\ hgetmatch2(<<"friv", "com">>, u, text) = friv_com(u)
    BY DEF hgetmatch2
  <2> HIDE DEF Give, GiveAt, Resposta, NoMatch, Dies, Fits, IsResposta
  <2>3. QED  BY <1>4, <2>1, <2>2
<1>5. CASE getdomain(u) \in
       {<<"geewa", "net">>, <<"goobeo", "com">>, <<"gooveo", "biz">>,
        <<"gooveo", "info">>, <<"gooveo", "me">>, <<"grandchase", "com", "br">>,
        <<"hulkshare", "com">>, <<"kaspersky", "com">>, <<"kixeye", "com">>,
        <<"llnwd", "net">>}
  <2>1. /\ Fits(u, geewa_net(u))
        /\ Fits(u, goobeo_com(u))
        /\ Fits(u, gooveo_biz(u))
        /\ Fits(u, gooveo_info(u))
        /\ Fits(u, gooveo_me(u))
        /\ Fits(u, grandchase_com_br(u))
        /\ Fits(u, hulkshare_com(u))
        /\ Fits(u, kaspersky_com(u))
        /\ Fits(u, kixeye_com(u))
        /\ Fits(u, llnwd_net(u))
    BY <1>1, <1>2 DEF geewa_net, goobeo_com, gooveo_biz, gooveo_info, gooveo_me, grandchase_com_br,
      hulkshare_com, kaspersky_com, kixeye_com, llnwd_net
  <2>2. /\ hgetmatch2(<<"geewa", "net">>, u, text) = geewa_net(u)
        /\ hgetmatch2(<<"goobeo", "com">>, u, text) = goobeo_com(u)
        /\ hgetmatch2(<<"gooveo", "biz">>, u, text) = gooveo_biz(u)
        /\ hgetmatch2(<<"gooveo", "info">>, u, text) = gooveo_info(u)
        /\ hgetmatch2(<<"gooveo", "me">>, u, text) = gooveo_me(u)
        /\ hgetmatch2(<<"grandchase", "com", "br">>, u, text) = grandchase_com_br(u)
        /\ hgetmatch2(<<"hulkshare", "com">>, u, text) = hulkshare_com(u)
        /\ hgetmatch2(<<"kaspersky", "com">>, u, text) = kaspersky_com(u)
        /\ hgetmatch2(<<"kixeye", "com">>, u, text) = kixeye_com(u)
        /\ hgetmatch2(<<"llnwd", "net">>, u, text) = llnwd_net(u)
    BY DEF hgetmatch2
  <2> HIDE DEF Give, GiveAt, Resposta, NoMatch, Dies, Fits, IsResposta
  <2>3. QED  BY <1>5, <2>1, <2>2
<1>6. CASE getdomain(u) \in
       {<<"maguinamotors", "com">>, <<"manabar", "ca">>, <<"metacafe", "com">>,
        <<"miniclip", "com">>, <<"modovideo", "com">>, <<"molenillo", "com">>,
        <<"mp3-buscador", "com">>, <<"musicaveo", "biz">>, <<"musicaveo", "info">>,
        <<"nai", "com">>}
  <2>1. /\ Fits(u, maguinamotors_com(u))
        /\ Fits(u, manabar_ca(u))
        /\ Fits(u, metacafe_com(u))
        /\ Fits(u, miniclip_com(u))
        /\ Fits(u, modovideo_com(u))
        /\ Fits(u, molenillo_com(u))
        /\ Fits(u, mp3_buscador_com(u))
        /\ Fits(u, musicaveo_biz(u))
        /\ Fits(u, musicaveo_info(u))
        /\ Fits(u, nai_com(u))
    BY <1>1, <1>2 DEF maguinamotors_com, manabar_ca, metacafe_com, miniclip_com, modovideo_com,
      molenillo_com, mp3_buscador_com, musicaveo_biz, musicaveo_info, nai_com
  <2>2. /\ hgetmatch2(<<"maguinamotors", "com">>, u, text) = maguinamotors_com(u)
        /\ hgetmatch2(<<"manabar", "ca">>, u, text) = manabar_ca(u)
        /\ hgetmatch2(<<"metacafe", "com">>, u, text) = metacafe_com(u)
        /\ hgetmatch2(<<"miniclip", "com">>, u, text) = miniclip_com(u)
        /\ hgetmatch2(<<"modovideo", "com">>, u, text) = modovideo_com(u)
        /\ hgetmatch2(<<"molenillo", "com">>, u, text) = molenillo_com(u)
        /\ hgetmatch2(<<"mp3-buscador", "com">>, u, text) = mp3_buscador_com(u)
        /\ hgetmatch2(<<"musicaveo", "biz">>, u, text) = musicaveo_biz(u)
        /\ hgetmatch2(<<"musicaveo", "info">>, u, text) = musicaveo_info(u)
        /\ hgetmatch2(<<"nai", "com">>, u, text) = nai_com(u)
    BY DEF hgetmatch2
  <2> HIDE DEF Give, GiveAt, Resposta, NoMatch, Dies, Fits, IsResposta
  <2>3. QED  BY <1>6, <2>1, <2>2
<1>7. CASE getdomain(u) \in
       {<<"netpocket", "org">>, <<"ning", "com">>, <<"nofeehost", "com">>,
        <<"nordeus", "com">>, <<"pop6", "com">>, <<"popcap", "com">>,
        <<"serviporno", "com">>, <<"sonicomusica", "com">>,
        <<"symantecliveupdate", "com">>, <<"telaxo", "com">>}
  <2>1. /\ Fits(u, netpocket_org(u))
        /\ Fits(u, ning_com(u))
        /\ Fits(u, nofeehost_com(u))
        /\ Fits(u, nordeus_com(u))
        /\ Fits(u, pop6_com(u))
        /\ Fits(u, popcap_com(u))
        /\ Fits(u, serviporno_com(u))
        /\ Fits(u, sonicomusica_com(u))
        /\ Fits(u, symantecliveupdate_com(u))
        /\ Fits(u, telaxo_com(u))
    BY <1>1, <1>2 DEF netpocket_org, ning_com, nofeehost_com, nordeus_com, pop6_com, popcap_com,
      serviporno_com, sonicomusica_com, symantecliveupdate_com, telaxo_com
  <2>2. /\ hgetmatch2(<<"netpocket", "org">>, u, text) = netpocket_org(u)
        /\ hgetmatch2(<<"ning", "com">>, u, text) = ning_com(u)
        /\ hgetmatch2(<<"nofeehost", "com">>, u, text) = nofeehost_com(u)
        /\ hgetmatch2(<<"nordeus", "com">>, u, text) = nordeus_com(u)
        /\ hgetmatch2(<<"pop6", "com">>, u, text) = pop6_com(u)
        /\ hgetmatch2(<<"popcap", "com">>, u, text) = popcap_com(u)
        /\ hgetmatch2(<<"serviporno", "com">>, u, text) = serviporno_com(u)
        /\ hgetmatch2(<<"sonicomusica", "com">>, u, text) = sonicomusica_com(u)
        /\ hgetmatch2(<<"symantecliveupdate", "com">>, u, text) = symantecliveupdate_com(u)
        /\ hgetmatch2(<<"telaxo", "com">>, u, text) = telaxo_com(u)
    BY DEF hgetmatch2
  <2> HIDE DEF Give, GiveAt, Resposta, NoMatch, Dies, Fits, IsResposta
  <2>3. QED  BY <1>7, <2>1, <2>2
<1>8. CASE getdomain(u) \in
       {<<"terra", "com">>, <<"tetrisfb", "com">>, <<"turner", "com">>,
        <<"uol", "com", "br">>, <<"vevos", "biz">>, <<"viddler", "com">>,
        <<"video", "msn", "com">>, <<"vostucdn", "com">>, <<"wooga", "com">>,
        <<"ziddu", "com">>}
  <2>1. /\ Fits(u, terra_com(u))
        /\ Fits(u, tetrisfb_com(u))
        /\ Fits(u, turner_com(u))
        /\ Fits(u, uol_com_br(u))
        /\ Fits(u, vevos_biz(u))
        /\ Fits(u, viddler_com(u))
        /\ Fits(u, video_msn_com(u))
        /\ Fits(u, vostucdn_com(u))
        /\ Fits(u, wooga_com(u))
        /\ Fits(u, ziddu_com(u))
    BY <1>1, <1>2 DEF terra_com, tetrisfb_com, turner_com, uol_com_br, vevos_biz, viddler_com,
      video_msn_com, vostucdn_com, wooga_com, ziddu_com
  <2>2. /\ hgetmatch2(<<"terra", "com">>, u, text) = terra_com(u)
        /\ hgetmatch2(<<"tetrisfb", "com">>, u, text) = tetrisfb_com(u)
        /\ hgetmatch2(<<"turner", "com">>, u, text) = turner_com(u)
        /\ hgetmatch2(<<"uol", "com", "br">>, u, text) = uol_com_br(u)
        /\ hgetmatch2(<<"vevos", "biz">>, u, text) = vevos_biz(u)
        /\ hgetmatch2(<<"viddler", "com">>, u, text) = viddler_com(u)
        /\ hgetmatch2(<<"video", "msn", "com">>, u, text) = video_msn_com(u)
        /\ hgetmatch2(<<"vostucdn", "com">>, u, text) = vostucdn_com(u)
        /\ hgetmatch2(<<"wooga", "com">>, u, text) = wooga_com(u)
        /\ hgetmatch2(<<"ziddu", "com">>, u, text) = ziddu_com(u)
    BY DEF hgetmatch2
  <2> HIDE DEF Give, GiveAt, Resposta, NoMatch, Dies, Fits, IsResposta
  <2>3. QED  BY <1>8, <2>1, <2>2
<1>9. CASE getdomain(u) \in
       {<<"edgecastcdn", "net">>, <<"imageshack", "us">>, <<"juegosdiarios", "com">>,
        <<"juegosjuegos", "com">>, <<"microsoft", "com">>, <<"mlstatic", "com">>,
        <<"netdna", "com">>, <<"nflximg", "net">>, <<"nvidia", "com">>,
        <<"orkut", "com">>}
  <2>1. /\ Fits(u, edgecastcdn_net(u))
        /\ Fits(u, imageshack_us(u))
        /\ Fits(u, juegosdiarios_com(u))
        /\ Fits(u, juegosjuegos_com(u))
        /\ Fits(u, microsoft_com(u))
        /\ Fits(u, mlstatic_com(u))
        /\ Fits(u, netdna_com(u))
        /\ Fits(u, nflximg_net(u))
        /\ Fits(u, nvidia_com(u))
        /\ Fits(u, orkut_com(u))
    BY <1>1, <1>2 DEF edgecastcdn_net, imageshack_us, juegosdiarios_com, juegosjuegos_com,
      microsoft_com, mlstatic_com, netdna_com, nflximg_net, nvidia_com, orkut_com
  <2>2. /\ hgetmatch2(<<"edgecastcdn", "net">>, u, text) = edgecastcdn_net(u)
        /\ hgetmatch2(<<"imageshack", "us">>, u, text) = imageshack_us(u)
        /\ hgetmatch2(<<"juegosdiarios", "com">>, u, text) = juegosdiarios_com(u)
        /\ hgetmatch2(<<"juegosjuegos", "com">>, u, text) = juegosjuegos_com(u)
        /\ hgetmatch2(<<"microsoft", "com">>, u, text) = microsoft_com(u)
        /\ hgetmatch2(<<"mlstatic", "com">>, u, text) = mlstatic_com(u)
        /\ hgetmatch2(<<"netdna", "com">>, u, text) = netdna_com(u)
        /\ hgetmatch2(<<"nflximg", "net">>, u, text) = nflximg_net(u)
        /\ hgetmatch2(<<"nvidia", "com">>, u, text) = nvidia_com(u)
        /\ hgetmatch2(<<"orkut", "com">>, u, text) = orkut_com(u)
    BY DEF hgetmatch2
  <2> HIDE DEF Give, GiveAt, Resposta, NoMatch, Dies, Fits, IsResposta
  <2>3. QED  BY <1>9, <2>1, <2>2
<1>10. CASE getdomain(u) \in
       {<<"tumblr", "com">>, <<"vsh", "r7", "com">>, <<"youku", "com">>}
  <2>1. /\ Fits(u, tumblr_com(u))
        /\ Fits(u, vsh_r7_com(u))
        /\ Fits(u, youku_com(u))
    BY <1>1, <1>2 DEF tumblr_com, vsh_r7_com, youku_com
  <2>2. /\ hgetmatch2(<<"tumblr", "com">>, u, text) = tumblr_com(u)
        /\ hgetmatch2(<<"vsh", "r7", "com">>, u, text) = vsh_r7_com(u)
        /\ hgetmatch2(<<"youku", "com">>, u, text) = youku_com(u)
    BY DEF hgetmatch2
  <2> HIDE DEF Give, GiveAt, Resposta, NoMatch, Dies, Fits, IsResposta
  <2>3. QED  BY <1>10, <2>1, <2>2
<1>11. QED  BY <1>3, <1>4, <1>5, <1>6, <1>7, <1>8, <1>9, <1>10 DEF PlainPlugins

(***************************************************************************)
(* The plugins that join parts, those that count them and those that send  *)
(* the browser elsewhere.                                                  *)
(***************************************************************************)

\* A name of two pieces is not the exception.
LEMMA Joins ==
  ASSUME NEW S, NEW s \in Seq(S), NEW t \in Seq(S), Len(t) >= 2 \/ (s # <<>> /\ t # <<>>)
  PROVE  s \o t # Thrown /\ s \o t # <<>>
<1>1. Len(s) \in Nat /\ Len(t) \in Nat /\ (s # <<>> => Len(s) >= 1) /\ (t # <<>> => Len(t) >= 1)
  OBVIOUS
<1>2. Len(s \o t) = Len(s) + Len(t)
  BY ConcatProperties
<1>3. Len(s \o t) >= 2
  BY <1>1, <1>2
<1>4. Len(Thrown) = 1 /\ Len(<<>>) = 0
  BY DEF Thrown
<1>5. QED  BY <1>3, <1>4

\* The parts from any place on are parts.
LEMMA TailsAre ==
  ASSUME NEW u, IsUrl(u), NEW m \in Nat, m >= 1
  PROVE  SubSeq(Parts(u), m, Len(Parts(u))) # Thrown
<1> DEFINE s == Parts(u)
           l == Len(s)
<1>1. s \in Seq(Words) /\ l \in Nat /\ \A i \in 1 .. l : s[i] # "/&"
  BY PartsAre
<1>2. CASE m <= l
  <2>1. m \in 1 .. l
    BY <1>1, <1>2
  <2>2. SubSeq(s, m, l)[1] = s[m]
    BY <1>1, <2>1, SubSeqProperties
  <2>3. s[m] # "/&" /\ Thrown[1] = "/&"
    BY <1>1, <2>1 DEF Thrown
  <2>4. QED  BY <2>2, <2>3
<1>3. CASE m > l
  <2>1. SubSeq(s, m, l) = <<>>
    BY <1>1, <1>3
  <2>2. QED  BY <2>1, OneSeq DEF Thrown
<1>4. QED  BY <1>1, <1>2, <1>3

\* Those that take a number of parts, counted or not.
LEMMA CountersFit ==
  ASSUME NEW u, IsUrl(u)
  PROVE  /\ getdomain(u) = <<"avira-update", "com">> => Fits(u, avira_update_com(u))
         /\ getdomain(u) = <<"bitdefender", "com">> => Fits(u, bitdefender_com(u))
         /\ getdomain(u) = <<"bitdefender", "net">> => Fits(u, bitdefender_net(u))
         /\ getdomain(u) = <<"blogspot", "com">> => Fits(u, blogspot_com(u))
         /\ getdomain(u) = <<"eset", "com">> => Fits(u, eset_com(u))
         /\ getdomain(u) = <<"issuu", "com">> => Fits(u, issuu_com(u))
         /\ getdomain(u) = <<"mediafire", "com">> => Fits(u, mediafire_com(u))
         /\ getdomain(u) = <<"photobucket", "com">> => Fits(u, photobucket_com(u))
<1> USE DEF Give, GiveAt, Resposta, NoMatch, Dies, Fits, IsResposta
<1>1. PICK l \in Nat : l = Len(Parts(u)) /\ l >= 1
  BY PartsAre
<1>2. \A n \in Nat : n >= 1 => (LastParts(u, n) = Thrown <=> l < n)
  BY <1>1, LastPartsAre
<1>3. Thrown # <<>> /\ LastParts(u, 1) # Thrown
  BY Filenames, OneSeq DEF Thrown
<1>4. /\ LastOf(u, 8, 9) # Thrown /\ LastOf(u, 5, 6) # Thrown
      /\ LastOf(u, 3, 3) # Thrown /\ LastOf(u, 3, 4) # Thrown
  <2>1. /\ l >= 9 => LastParts(u, 8) # Thrown
        /\ l >= 6 => LastParts(u, 5) # Thrown
        /\ l >= 3 => LastParts(u, 3) # Thrown
    BY <1>1, <1>2
  <2>2. l >= 4 => l >= 3
    BY <1>1
  <2>3. QED  BY <1>1, <1>3, <2>1, <2>2 DEF LastOf
<1>5. (LastParts(u, 4) = Thrown => l < 4) /\ (l = 4 => LastParts(u, 2) # Thrown)
  BY <1>1, <1>2
<1>6. ASSUME getdomain(u) \in {<<"avira-update", "com">>, <<"bitdefender", "com">>,
               <<"bitdefender", "net">>, <<"blogspot", "com">>, <<"eset", "com">>,
               <<"issuu", "com">>, <<"mediafire", "com">>, <<"photobucket", "com">>}
      PROVE  UrlStart(u) = 0
  <2>1. getdomain(u) \notin Seekers \cup {<<"youtube", "com">>, <<"netflix", "com">>}
    BY <1>6 DEF Seekers
  <2>2. QED  BY <2>1, NoStart
<1>7. ASSUME getdomain(u) \in {<<"avira-update", "com">>, <<"photobucket", "com">>}, l < 4
      PROVE  Deadly(u)
  <2>1. Counted(getdomain(u)) = 4
    BY <1>7 DEF Counted
  <2>2. QED  BY <1>1, <1>7, <2>1 DEF Deadly
<1>8. get_filename4(u) = Thrown => Deadly(u) \/ l < 4
  BY <1>1, Filenames DEF Deadly
<1>9. getdomain(u) = <<"avira-update", "com">> => Fits(u, avira_update_com(u))
  BY <1>3, <1>5, <1>6, <1>7 DEF avira_update_com
<1>10. /\ getdomain(u) = <<"bitdefender", "com">> => Fits(u, bitdefender_com(u))
       /\ getdomain(u) = <<"bitdefender", "net">> => Fits(u, bitdefender_net(u))
       /\ getdomain(u) = <<"blogspot", "com">> => Fits(u, blogspot_com(u))
       /\ getdomain(u) = <<"eset", "com">> => Fits(u, eset_com(u))
       /\ getdomain(u) = <<"issuu", "com">> => Fits(u, issuu_com(u))
  BY <1>3, <1>4, <1>6
     DEF bitdefender_com, bitdefender_net, blogspot_com, eset_com, issuu_com
<1>11. getdomain(u) = <<"mediafire", "com">> => Fits(u, mediafire_com(u))
  BY <1>1, <1>3, <1>5, <1>6 DEF mediafire_com
<1>12. getdomain(u) = <<"photobucket", "com">> => Fits(u, photobucket_com(u))
  BY <1>3, <1>6, <1>7, <1>8 DEF photobucket_com
<1>13. QED  BY <1>9, <1>10, <1>11, <1>12

\* What is between a name and two pieces more.
LEMMA TwoMore ==
  ASSUME NEW x, NEW y, NEW z
  PROVE  <<>> \o <<y, z>> # Thrown /\ <<x>> \o <<y, z>> # Thrown
<1> DEFINE S == {x, y, z}
<1>1. <<y, z>> \in Seq(S) /\ Len(<<y, z>>) = 2
  BY TwoSeq
<1>2. PICK t : t = <<y, z>>
  OBVIOUS
<1>3. <<x>> \in Seq(S) /\ <<>> \in Seq(S)
  BY OneSeq
<1>4. t \in Seq(S) /\ Len(t) >= 2
  BY <1>1, <1>2
<1> HIDE DEF S
<1>5. <<x>> \o t # Thrown /\ <<>> \o t # Thrown
  BY <1>3, <1>4, Joins
<1>6. QED  BY <1>2, <1>5

LEMMA TwoOfThem ==
  ASSUME NEW x, NEW s \in Seq(Words), Len(s) >= 2
  PROVE  <<x>> \o s # Thrown /\ <<>> \o s # Thrown
<1>1. PICK S : S = Words \cup {x}
  OBVIOUS
<1>2. Words \subseteq S /\ x \in S
  BY <1>1
<1>3. s \in Seq(S)
  BY <1>2, WiderSeq
<1>4. <<x>> \in Seq(S) /\ <<>> \in Seq(S)
  BY <1>2, OneSeq
<1>5. QED  BY <1>3, <1>4, Joins

\* The answer of a plugin fits if its condition, its name and its start do.
LEMMA GiveFits ==
  ASSUME NEW u, NEW condition \in BOOLEAN, NEW domain, NEW name, NEW a, NEW b,
         domain # "youtube",
         condition /\ name = Thrown => Deadly(u),
         condition => \/ a = UrlStart(u)
                      \/ Args(u, "fs") # {} /\ LaterArg(u, "fs") = ""
  PROVE  Fits(u, GiveAt(condition, domain, name, a, b))
<1>1. Thrown # <<>>
  BY OneSeq DEF Thrown
<1>2. QED  BY <1>1 DEF GiveAt, Resposta, NoMatch, Dies, Fits, IsResposta

LEMMA GiveAnyFits ==
  ASSUME NEW u, NEW condition \in BOOLEAN, NEW domain \in Unnamed, NEW name,
         name # Thrown, UrlStart(u) = 0
  PROVE  Fits(u, GiveAny(condition, domain, name))
<1>1. Thrown # <<>> /\ domain # "youtube"
  BY OneSeq DEF Thrown, Unnamed
<1>2. QED  BY <1>1 DEF GiveAny, Resposta, NoMatch, Dies, Fits, IsResposta

\* Those that join parts with something of their own.
LEMMA SubmangaFits ==
  ASSUME NEW u, IsUrl(u), getdomain(u) = <<"submanga", "com">>
  PROVE  Fits(u, submanga_com(u))
<1> DEFINE name == IF LastParts(u, 3) = Thrown THEN Thrown
                   ELSE (IF Has(u, {"/hdpages/"}) THEN <<"hd-">> ELSE <<>>) \o LastParts(u, 3)
<1>1. /\ LastParts(u, 3) = Thrown <=> Len(Parts(u)) < 3
      /\ LastParts(u, 3) # Thrown => LastParts(u, 3) \in Seq(Words) /\ Len(LastParts(u, 3)) = 3
  <2>1. 3 \in Nat /\ 3 >= 1
    OBVIOUS
  <2>2. QED  BY <2>1, LastPartsAre
<1>2. name = Thrown => Deadly(u)
  <2>1. CASE LastParts(u, 3) = Thrown
    <3>1. Counted(getdomain(u)) = 3
      BY DEF Counted
    <3>2. QED  BY <1>1, <2>1, <3>1 DEF Deadly
  <2>2. CASE LastParts(u, 3) # Thrown
    <3>1. PICK parts \in Seq(Words) : parts = LastParts(u, 3) /\ Len(parts) >= 2
      <4>1. LastParts(u, 3) \in Seq(Words) /\ Len(LastParts(u, 3)) = 3
        BY <1>1, <2>2
      <4>2. QED  BY <4>1
    <3>4. <<"hd-">> \o parts # Thrown /\ <<>> \o parts # Thrown
      BY <3>1, TwoOfThem
    <3>5. QED  BY <2>2, <3>1, <3>4
  <2>3. QED  BY <2>1, <2>2
<1>3. UrlStart(u) = 0 /\ Thrown # <<>>
  BY NoStart, OneSeq DEF Seekers, Thrown
<1> DEFINE condition == Has(u, {"/pages/", "/hdpages/"}) /\ NoMark(u)
<1>4. submanga_com(u) = GiveAt(condition, "submanga", name, 0, 0)
  BY DEF submanga_com, Give
<1>5. condition \in BOOLEAN
  BY DEF NoMark, Has
<1> HIDE DEF name, condition
<1>6. QED  BY <1>2, <1>3, <1>4, <1>5, GiveFits

LEMMA EdgesuiteFits ==
  ASSUME NEW u, IsUrl(u), getdomain(u) = <<"edgesuite", "net">>
  PROVE  Fits(u, edgesuite_net(u))
<1>1. SubSeq(Parts(u), 3, Len(Parts(u))) # Thrown
  BY TailsAre
<1>2. UrlStart(u) = 0 /\ Thrown # <<>>
  BY NoStart, OneSeq DEF Seekers, Thrown
<1>3. QED  BY <1>1, <1>2, GiveAnyFits DEF edgesuite_net, Unnamed, NoMark

LEMMA RiotgamesFits ==
  ASSUME NEW u, IsUrl(u), getdomain(u) = <<"riotgames", "com">>
  PROVE  Fits(u, riotgames_com(u))
<1> DEFINE parts == Parts(u)
           at == {i \in DOMAIN parts : parts[i] \in Versions}
           name == IF at = {} THEN <<>> ELSE SubSeq(parts, Min(at), Len(parts))
<1>1. UrlStart(u) = 0 /\ Thrown # <<>>
  BY NoStart, OneSeq DEF Seekers, Thrown
<1>2. name # Thrown
  <2>1. CASE at = {}
    BY <1>1, <2>1
  <2>2. CASE at # {}
    <3>1. at \in SUBSET Nat /\ \A i \in at : i >= 1
      BY PartsAre
    <3>2. Min(at) \in at
      BY <2>2, <3>1, MinIsIn
    <3>3. Min(at) \in Nat /\ Min(at) >= 1
      BY <3>1, <3>2
    <3> HIDE DEF at
    <3>4. SubSeq(Parts(u), Min(at), Len(Parts(u))) # Thrown
      BY <3>3, TailsAre
    <3>5. QED  BY <2>2, <3>4
  <2>3. QED  BY <2>1, <2>2
<1> DEFINE condition == NoMark(u)
<1>3. riotgames_com(u) = GiveAny(condition, "lol", name)
  BY DEF riotgames_com
<1>4. condition \in BOOLEAN
  BY DEF NoMark, Has
<1> HIDE DEF name, condition
<1>5. QED  BY <1>1, <1>2, <1>3, <1>4, GiveAnyFits DEF Unnamed

LEMMA SteampoweredFits ==
  ASSUME NEW u, IsUrl(u), getdomain(u) = <<"steampowered", "com">>
  PROVE  Fits(u, steampowered_com(u))
<1> DEFINE parts == Parts(u)
           After(word) == {i \in 2 .. Len(parts) : parts[i - 1] = word}
           chunk == After("chunk")
           depot == {i \in After("depot") : chunk # {} /\ i < Min(chunk)}
           first == IF depot = {} THEN <<>> ELSE <<parts[Max(depot)]>>
           name == IF chunk = {} THEN <<>> ELSE first \o <<"_", parts[Min(chunk)]>>
<1>1. UrlStart(u) = 0 /\ Thrown # <<>>
  BY NoStart, OneSeq DEF Seekers, Thrown
<1>2. first \o <<"_", parts[Min(chunk)]>> # Thrown
  BY TwoMore
<1>3. name # Thrown
  BY <1>1, <1>2
<1> DEFINE condition == TRUE
<1>4. steampowered_com(u) = GiveAny(condition, "steampowered", name)
  BY DEF steampowered_com
<1>5. condition \in BOOLEAN
  BY DEF NoMark, Has
<1> HIDE DEF name, condition
<1>6. QED  BY <1>1, <1>3, <1>4, <1>5, GiveAnyFits DEF Unnamed

LEMMA DailymotionFits ==
  ASSUME NEW u, IsUrl(u), getdomain(u) = <<"dailymotion", "com">>
  PROVE  Fits(u, dailymotion_com(u))
<1> DEFINE parts == Parts(u)
           frag == {i \in DOMAIN parts : parts[i] \in Frags}
           sec == {i \in DOMAIN parts : frag # {} /\ i < Min(frag) /\ parts[i] \in Secs}
           first == IF sec = {} THEN <<>> ELSE <<parts[Max(sec)]>>
           name == IF frag = {} THEN <<>> ELSE first \o <<parts[Min(frag)], Last(parts)>>
<1>1. UrlStart(u) = 0 /\ Thrown # <<>>
  BY NoStart, OneSeq DEF Seekers, Thrown
<1>2. first \o <<parts[Min(frag)], Last(parts)>> # Thrown
  BY TwoMore
<1>3. name # Thrown
  BY <1>1, <1>2
<1> DEFINE condition == NoMark(u)
<1>4. dailymotion_com(u) = GiveAt(condition, "dailymotion", name, 0, 0)
  BY DEF dailymotion_com, Give
<1>5. condition \in BOOLEAN
  BY DEF NoMark, Has
<1> HIDE DEF name, condition
<1>6. QED  BY <1>1, <1>3, <1>4, <1>5, GiveFits

\* Some plugins do not cut at the "?", and what is behind it is one part more.
LEMMA QueryPart ==
  ASSUME NEW u, IsUrl(u), NEW p,
         p = Parts(u) \o (IF Bare(u) \/ NoMark(u) THEN <<>> ELSE <<"query">>)
  PROVE  /\ p \in Seq(Words \cup {"query"}) /\ Len(p) \in Nat
         /\ Len(p) = Len(Parts(u)) \/ Len(p) = Len(Parts(u)) + 1
         /\ \A i \in 1 .. Len(Parts(u)) : p[i] = Parts(u)[i]
<1> DEFINE S == Words \cup {"query"}
<1>1. Parts(u) \in Seq(S) /\ Len(Parts(u)) \in Nat
  BY PartsAre, WiderSeq
<1>2. PICK q : q = IF Bare(u) \/ NoMark(u) THEN <<>> ELSE <<"query">>
  OBVIOUS
<1>3. q \in Seq(S) /\ (Len(q) = 0 \/ Len(q) = 1)
  <2>1. <<"query">> \in Seq(S) /\ Len(<<"query">>) = 1
    BY OneSeq
  <2>2. <<>> \in Seq(S) /\ Len(<<>>) = 0
    OBVIOUS
  <2>3. QED  BY <1>2, <2>1, <2>2
<1> HIDE DEF S
<1>4. /\ Parts(u) \o q \in Seq(S) /\ Len(Parts(u) \o q) = Len(Parts(u)) + Len(q)
      /\ \A i \in 1 .. Len(Parts(u)) + Len(q) :
           (Parts(u) \o q)[i] = IF i <= Len(Parts(u)) THEN Parts(u)[i] ELSE q[i - Len(Parts(u))]
  BY <1>1, <1>3, ConcatProperties
<1>5. p = Parts(u) \o q
  BY <1>2
<1>6. Len(p) = Len(Parts(u)) \/ Len(p) = Len(Parts(u)) + 1
  BY <1>1, <1>3, <1>4, <1>5
<1>7. ASSUME NEW i \in 1 .. Len(Parts(u)) PROVE p[i] = Parts(u)[i]
  <2>1. i \in 1 .. Len(Parts(u)) + Len(q) /\ i <= Len(Parts(u))
    BY <1>1, <1>3
  <2>2. QED  BY <1>4, <1>5, <2>1
<1>8. p \in Seq(S) /\ Len(p) \in Nat
  BY <1>4, <1>5
<1>9. QED  BY <1>6, <1>7, <1>8 DEF S

LEMMA SpeedtestFits ==
  ASSUME NEW u, IsUrl(u), getdomain(u) = <<"speedtest", "net">>
  PROVE  Fits(u, speedtest_net(u))
<1>1. PICK p : p = Parts(u) \o (IF Bare(u) \/ NoMark(u) THEN <<>> ELSE <<"query">>)
  OBVIOUS
<1>2. PICK name : name = IF Len(p) < 2 THEN Thrown ELSE <<p[Len(p) - 1]>>
  OBVIOUS
<1>3. PICK l \in Nat : l = Len(Parts(u)) /\ l >= 1 /\ \A i \in 1 .. l : Parts(u)[i] # "/&"
  BY PartsAre
<1>4. PICK n \in Nat : n = Len(p) /\ (n = l \/ n = l + 1) /\ \A i \in 1 .. l : p[i] = Parts(u)[i]
  BY <1>1, <1>3, QueryPart
<1>5. name = Thrown => Deadly(u)
  <2>1. CASE n < 2
    <3>1. Counted(getdomain(u)) = 2
      BY DEF Counted
    <3>2. l < 2
      BY <1>4, <2>1
    <3>3. QED  BY <1>3, <3>1, <3>2 DEF Deadly
  <2>2. CASE ~ (n < 2)
    <3>1. n - 1 \in 1 .. l
      BY <1>4, <2>2
    <3>2. p[n - 1] # "/&"
      BY <1>3, <1>4, <3>1
    <3>3. name = <<p[n - 1]>> /\ name[1] = p[n - 1] /\ Thrown[1] = "/&"
      BY <1>2, <1>4, <2>2 DEF Thrown
    <3>4. QED  BY <3>2, <3>3
  <2>3. QED  BY <2>1, <2>2
<1>6. UrlStart(u) = 0
  BY NoStart DEF Seekers
<1>7. PICK condition : condition = (Len(p) <= 6)
  OBVIOUS
<1>8. speedtest_net(u) = GiveAt(condition, "speedtest", name, 0, 0)
  BY <1>1, <1>2, <1>7 DEF speedtest_net, Give
<1>9. condition \in BOOLEAN
  BY <1>7
<1>10. QED  BY <1>5, <1>6, <1>8, <1>9, GiveFits

LEMMA WrzutaFits ==
  ASSUME NEW u, IsUrl(u), getdomain(u) = <<"wrzuta", "pl">>
  PROVE  Fits(u, wrzuta_pl(u))
<1>1. PICK name : name = IF get_filename(u) = Thrown THEN Thrown ELSE get_filename(u) \o <<".mp4">>
  OBVIOUS
<1>2. LastParts(u, 1) \o <<".mp4">> # Thrown
  <2>1. LastParts(u, 1) \in Seq(Words \cup {".mp4"}) /\ LastParts(u, 1) # <<>>
    BY Filenames, WiderSeq
  <2>2. <<".mp4">> \in Seq(Words \cup {".mp4"}) /\ <<".mp4">> # <<>>
    BY OneSeq
  <2>3. QED  BY <2>1, <2>2, Joins
<1>3. name = Thrown => Deadly(u)
  BY <1>1, <1>2, Filenames DEF get_filename, Deadly
<1>4. UrlStart(u) = 0
  BY NoStart DEF Seekers
<1>5. wrzuta_pl(u) = GiveAt(TRUE, "wrzuta", name, 0, 0)
  BY <1>1 DEF wrzuta_pl, Give
<1>6. QED  BY <1>3, <1>4, <1>5, GiveFits

LEMMA FbcdnFits ==
  ASSUME NEW u, IsUrl(u), getdomain(u) = <<"fbcdn", "net">>
  PROVE  Fits(u, fbcdn_net(u))
<1> DEFINE T == Words \cup {"?", u.query}
<1>1. PICK size : size = PartFromEnd(u, 2)
  OBVIOUS
<1>2. /\ size = Thrown => Deadly(u)
      /\ size # Thrown => size \in Seq(T) /\ size # <<>>
  <2>1. 2 \in Nat /\ 2 >= 1
    OBVIOUS
  <2>2. /\ size = Thrown => Len(Parts(u)) < 2
        /\ size # Thrown => size \in Seq(Words) /\ size # <<>>
    BY <1>1, <2>1, LastPartsAre
  <2>3. Counted(getdomain(u)) = 2
    BY DEF Counted
  <2>4. size = Thrown => Deadly(u)
    BY <2>2, <2>3 DEF Deadly
  <2>5. QED  BY <2>2, <2>4, WiderSeq
<1>3. PICK text \in Seq(T) : text = LastPartWithQuery(u) /\ text # Thrown /\ text # <<>>
  BY Filenames DEF get_videoid
<1>4. UrlStart(u) = 0
  BY NoStart DEF Seekers
<1>5. PICK name : name = IF Bare(u) THEN size ELSE LastParts(u, 1)
  OBVIOUS
<1>6. name = Thrown => Deadly(u)
  BY <1>5, Filenames DEF Deadly
<1>7. PICK photo : photo = IF size = Thrown THEN Thrown
                           ELSE (IF size[1] \in Sizes THEN size ELSE <<>>) \o text
  OBVIOUS
<1>8. photo = Thrown => Deadly(u)
  <2>1. CASE size = Thrown
    BY <1>2, <2>1
  <2>2. CASE size # Thrown /\ size[1] \in Sizes
    <3>1. size \o text # Thrown
      BY <1>2, <1>3, <2>2, Joins
    <3>2. QED  BY <1>7, <2>2, <3>1
  <2>3. CASE size # Thrown /\ size[1] \notin Sizes
    <3>1. <<>> \o text = text
      OBVIOUS
    <3>2. QED  BY <1>3, <1>7, <2>3, <3>1
  <2>4. QED  BY <2>1, <2>2, <2>3
<1>9. PICK condition : condition = ~ Has(u, {".1.2."})
  OBVIOUS
<1>10. condition \in BOOLEAN
  BY <1>9 DEF Has
<1>11. /\ Fits(u, GiveAt(TRUE, "fbcdn.videos", name, 0, 0))
       /\ Fits(u, GiveAt(condition, "fbcdn.photos", photo, 0, 0))
  BY <1>4, <1>6, <1>8, <1>10, GiveFits
<1>12. \/ fbcdn_net(u) = GiveAt(TRUE, "fbcdn.videos", name, 0, 0)
       \/ fbcdn_net(u) = GiveAt(condition, "fbcdn.photos", photo, 0, 0)
  BY <1>1, <1>3, <1>5, <1>7, <1>9 DEF fbcdn_net, Give
<1>13. QED  BY <1>11, <1>12

LEMMA YtimgFits ==
  ASSUME NEW u, IsUrl(u), getdomain(u) = <<"ytimg", "com">>
  PROVE  Fits(u, ytimg_com(u))
<1> DEFINE S == Words \cup {"-hq", "-mq", ".jpg", "-"}
<1> DEFINE base == PartFromEnd(u, 2)
           suffix == CASE Has(u, {"hqdefault.jpg"}) -> <<"-hq">>
                       [] Has(u, {"mqdefault.jpg"}) /\ ~ Has(u, {"hqdefault.jpg"}) -> <<"-mq">>
                       [] OTHER -> <<>>
           name == CASE base = Thrown -> Thrown
                     [] base # Thrown /\ suffix # <<>> -> base \o suffix \o <<".jpg">>
                     [] base # Thrown /\ suffix = <<>> /\ Arg(u, "sigh") # "" ->
                          <<Arg(u, "sigh"), "-">> \o LastParts(u, 1) \o <<".jpg">>
                     [] OTHER -> <<>>
<1>1. ytimg_com(u) = GiveAt(TRUE, "ytimg", name, 0, 0)
  BY DEF ytimg_com, Give
<1>2. /\ base = Thrown => Deadly(u)
      /\ base # Thrown => base \in Seq(S) /\ base # <<>>
  <2>1. 2 \in Nat /\ 2 >= 1
    OBVIOUS
  <2>2. /\ base = Thrown => Len(Parts(u)) < 2
        /\ base # Thrown => base \in Seq(Words) /\ base # <<>>
    BY <2>1, LastPartsAre
  <2>3. Counted(getdomain(u)) = 2
    BY DEF Counted
  <2>4. base = Thrown => Deadly(u)
    BY <2>2, <2>3 DEF Deadly
  <2>5. QED  BY <2>2, <2>4, WiderSeq
<1>3. suffix \in Seq(S)
  <2>1. <<"-hq">> \in Seq(S) /\ <<"-mq">> \in Seq(S)
    BY OneSeq
  <2>2. <<>> \in Seq(S)
    OBVIOUS
  <2>3. QED  BY <2>1, <2>2
<1>4. PICK jpg \in Seq(S) : jpg = <<".jpg">> /\ jpg # <<>>
  BY OneSeq
<1>5. PICK sigh \in Seq(S) : sigh = <<Arg(u, "sigh"), "-">> /\ sigh # <<>>
  <2>1. Arg(u, "sigh") \in S
    BY ArgsAre
  <2>2. <<Arg(u, "sigh"), "-">> \in Seq(S) /\ <<Arg(u, "sigh"), "-">> # <<>>
    BY <2>1, TwoSeq
  <2>3. QED  BY <2>2
<1>6. PICK last \in Seq(S) : last = LastParts(u, 1) /\ last # <<>>
  <2>1. LastParts(u, 1) \in Seq(Words) /\ LastParts(u, 1) # <<>>
    BY Filenames
  <2>2. Words \subseteq S
    OBVIOUS
  <2>3. LastParts(u, 1) \in Seq(S)
    BY <2>1, <2>2, WiderSeq
  <2>4. QED  BY <2>1, <2>3
<1> HIDE DEF S, base, suffix
<1>7. base # Thrown /\ suffix # <<>> => base \o suffix \o jpg # Thrown
  <2>1. base # Thrown /\ suffix # <<>> => base \o suffix \in Seq(S) /\ base \o suffix # <<>>
    BY <1>2, <1>3, Joins, ConcatProperties
  <2>2. QED  BY <1>4, <2>1, Joins
<1>8. sigh \o last \o jpg # Thrown
  <2>1. sigh \o last \in Seq(S) /\ sigh \o last # <<>>
    BY <1>5, <1>6, Joins, ConcatProperties
  <2>2. QED  BY <1>4, <2>1, Joins
<1>9. name = Thrown => Deadly(u)
  <2>1. Thrown # <<>>
    BY OneSeq DEF Thrown
  <2>2. CASE base = Thrown
    BY <1>2, <2>2
  <2>3. CASE base # Thrown /\ suffix # <<>>
    <3>1. name = base \o suffix \o jpg
      BY <1>4, <2>3
    <3>2. QED  BY <1>7, <2>3, <3>1
  <2>4. CASE base # Thrown /\ suffix = <<>> /\ Arg(u, "sigh") # ""
    <3>1. name = sigh \o last \o jpg
      BY <1>4, <1>5, <1>6, <2>4
    <3>2. QED  BY <1>8, <3>1
  <2>5. CASE base # Thrown /\ suffix = <<>> /\ Arg(u, "sigh") = ""
    <3>1. name = <<>>
      BY <2>5
    <3>2. QED  BY <2>1, <3>1
  <2>6. QED  BY <2>2, <2>3, <2>4, <2>5
<1>10. UrlStart(u) = 0
  BY NoStart DEF Seekers
<1> HIDE DEF name
<1>11. QED  BY <1>1, <1>9, <1>10, GiveFits

\* Those that send the browser elsewhere.
LEMMA RewritersFit ==
  ASSUME NEW u, IsUrl(u)
  PROVE  /\ getdomain(u) = <<"fwmrm", "net">> => Fits(u, fwmrm_net(u))
         /\ getdomain(u) = <<"rad", "msn", "com">> => Fits(u, rad_msn_com(u))
         /\ getdomain(u) = <<"live", "com">> => Fits(u, live_com(u))
         /\ getdomain(u) = <<"doubleclick", "net">> => Fits(u, doubleclick_net(u))
<1>1. getdomain(u) \in {<<"fwmrm", "net">>, <<"rad", "msn", "com">>, <<"live", "com">>,
                        <<"doubleclick", "net">>} => UrlStart(u) = 0
  BY NoStart DEF Seekers
<1>2. \A x, y : <<x, y>> # Thrown
  BY DEF Thrown
<1>3. u.mark \in BOOLEAN
  BY DEF IsUrl
<1>4. ASSUME getdomain(u) = <<"fwmrm", "net">> PROVE Fits(u, fwmrm_net(u))
  <2>1. PICK condition \in BOOLEAN : condition = (Bare(u) /\ Has(u, {"fwmrm.net/ad/p/1"}))
    BY DEF Bare, Has
  <2>2. <<"host", "ad", "p", "1">> # Thrown
    BY DEF Thrown
  <2>3. fwmrm_net(u) = GiveAt(condition, "rewrite", <<"host", "ad", "p", "1">>, 0, 0)
    BY <2>1 DEF fwmrm_net, Rewrite, Give
  <2>4. QED  BY <1>1, <1>4, <2>1, <2>2, <2>3, GiveFits
<1>5. ASSUME getdomain(u) = <<"rad", "msn", "com">> PROVE Fits(u, rad_msn_com(u))
  <2>1. PICK condition \in BOOLEAN : condition = (u.mark /\ Has(u, {"ADSAdClient31.dll"}))
    BY DEF Has
  <2>2. rad_msn_com(u) =
          GiveAt(condition, "rewrite", <<"zion2.zionlanhouse.com.br:8080", "msn.htm">>, 0, 0)
    BY <2>1 DEF rad_msn_com, Rewrite, Give
  <2>3. QED  BY <1>1, <1>2, <1>5, <2>1, <2>2, GiveFits
<1>6. ASSUME getdomain(u) = <<"live", "com">> PROVE Fits(u, live_com(u))
  <2>1. PICK condition \in BOOLEAN : condition = (u.mark /\ Has(u, {"/search"}))
    BY DEF Has
  <2>2. PICK name : name = CASE Args(u, "q") = {} -> Parts(u) \o QueryText(u)
                             [] Args(u, "q") # {} /\ Asked(u) = "" -> Thrown
                             [] OTHER -> <<"www.google.com.pe/search?q=", Asked(u)>>
    OBVIOUS
  <2>3. u.mark => Parts(u) \o QueryText(u) # Thrown
    <3> DEFINE T == Words \cup {"?", u.query}
    <3>1. Parts(u) \in Seq(T)
      BY PartsAre, WiderSeq
    <3>2. u.mark => QueryText(u) \in Seq(T) /\ Len(QueryText(u)) >= 2
      <4>1. <<"?", u.query>> \in Seq(T) /\ Len(<<"?", u.query>>) = 2
        BY TwoSeq
      <4>2. QED  BY <4>1 DEF QueryText
    <3> HIDE DEF T
    <3>3. QED  BY <3>1, <3>2, Joins
  <2>4. condition /\ name = Thrown => Deadly(u)
    <3>1. CASE Args(u, "q") = {}
      BY <2>1, <2>2, <2>3, <3>1
    <3>2. CASE Args(u, "q") # {} /\ Asked(u) = ""
      BY <1>6, <3>2 DEF Deadly
    <3>3. CASE Args(u, "q") # {} /\ Asked(u) # ""
      BY <1>2, <2>2, <3>3
    <3>4. QED  BY <3>1, <3>2, <3>3
  <2>5. live_com(u) = GiveAt(condition, "rewrite", name, 0, 0)
    BY <2>1, <2>2 DEF live_com, Rewrite, Give
  <2>6. QED  BY <1>1, <1>6, <2>1, <2>4, <2>5, GiveFits
<1>7. ASSUME getdomain(u) = <<"doubleclick", "net">> PROVE Fits(u, doubleclick_net(u))
  <2>1. PICK main \in BOOLEAN : main = Has(u, {"/main.*;"})
    BY DEF Has
  <2>2. PICK video \in BOOLEAN :
          video = (Has(u, {"www.youtube.com"}) /\ Arg(u, "ad_type") = "video")
    BY DEF Has
  <2>3. PICK name : name = SubSeq(Parts(u), 1, Len(Parts(u)) - 1)
    OBVIOUS
  <2>4. name # Thrown
    <3>1. PICK l \in Nat : l = Len(Parts(u)) /\ l >= 1
      BY PartsAre
    <3>2. CASE l = 1
      <4>1. l - 1 = 0 /\ Parts(u) \in Seq(Words)
        BY <3>2, PartsAre
      <4>2. SubSeq(Parts(u), 1, 0) = <<>>
        BY <4>1
      <4>3. QED  BY <2>3, <3>1, <4>1, <4>2, OneSeq DEF Thrown
    <3>3. CASE l > 1
      <4>1. l - 1 \in 1 .. l /\ 1 \in 1 .. l - 1 /\ l - 1 >= 1
        BY <3>1, <3>3
      <4>2. name[1] = Parts(u)[1]
        BY <2>3, <3>1, <4>1, PartsAre, SubSeqProperties
      <4>3. name[1] = "host" /\ Thrown[1] = "/&"
        BY <4>2, PartsAre DEF Thrown
      <4>4. QED  BY <4>3
    <3>4. QED  BY <3>1, <3>2, <3>3
  <2>5. <<"googleads.g.doubleclick.net", "pagead", "ads">> # Thrown
    BY DEF Thrown
  <2>6. /\ Fits(u, GiveAt(main, "rewrite", name, 0, 0))
        /\ Fits(u, GiveAt(video, "rewrite", <<"googleads.g.doubleclick.net", "pagead", "ads">>, 0, 0))
    BY <1>1, <1>7, <2>4, <2>5, GiveFits
  <2>7. QED  BY <2>1, <2>2, <2>3, <2>6 DEF doubleclick_net, Rewrite, Give
<1>8. QED  BY <1>4, <1>5, <1>6, <1>7

\* Those with a global variable, whatever is in it.
LEMMA StickyFit ==
  ASSUME NEW u, IsUrl(u), NEW text, text # "youtube"
  PROVE  /\ getdomain(u) = <<"akamaihd", "net">> => Fits(u, akamaihd_net(u, text))
         /\ getdomain(u) = <<"socialpointgames", "com">> => Fits(u, socialpointgames_com(u, text))
         /\ getdomain(u) = <<"zgncdn", "com">> => Fits(u, zgncdn_com(u, text))
<1>1. getdomain(u) \in Sticky => UrlStart(u) = 0
  BY NoStart DEF Seekers, Sticky
<1>2. Thrown # <<>>
  BY OneSeq DEF Thrown
<1>3. get_filename(u) = Thrown => Deadly(u)
  BY Filenames DEF Deadly
<1>4. getdomain(u) = <<"akamaihd", "net">> /\ get_filename4(u) = Thrown => Deadly(u)
  <2>1. getdomain(u) = <<"akamaihd", "net">> => Counted(getdomain(u)) = 4
    BY DEF Counted
  <2>2. QED  BY <2>1, Filenames DEF Deadly
<1> USE DEF Give, GiveAt, Resposta, NoMatch, Dies, Fits, IsResposta, Sticky
<1>5. getdomain(u) = <<"akamaihd", "net">> => Fits(u, akamaihd_net(u, text))
  BY <1>1, <1>2, <1>4 DEF akamaihd_net
<1>6. getdomain(u) = <<"socialpointgames", "com">> => Fits(u, socialpointgames_com(u, text))
  BY <1>1, <1>2, <1>3 DEF socialpointgames_com
<1>7. getdomain(u) = <<"zgncdn", "com">> => Fits(u, zgncdn_com(u, text))
  BY <1>1, <1>2, <1>3 DEF zgncdn_com
<1>8. QED  BY <1>5, <1>6, <1>7

(***************************************************************************)
(* The plugins that look at the start.                                     *)
(***************************************************************************)

\* What a seeker finds, and what it does not, in its own argument.
LEMMA SeekerStart ==
  ASSUME NEW u, getdomain(u) \in Seekers
  PROVE  UrlStart(u) = atoll(Arg(u, SeekArg(getdomain(u))))
<1>1. getdomain(u) \notin {<<"youtube", "com">>, <<"netflix", "com">>}
  BY DEF Seekers
<1> HIDE DEF Seekers
<1>2. QED  BY <1>1 DEF UrlStart

LEMMA ZeroStarts ==
  ASSUME NEW u, NEW name
  PROVE  /\ Args(u, name) = {} => atoll(Arg(u, name)) = 0
         /\ ~ Seeks(u, name) => atoll(Arg(u, name)) = 0
<1>1. atoll("") = 0 /\ atoll("0") = 0
  <2>1. Numbers[""] = 0 /\ Numbers["0"] = 0
    BY DEF Numbers
  <2>2. QED  BY <2>1 DEF atoll
<1>2. Args(u, name) = {} => Arg(u, name) = ""
  BY DEF Arg, LastOfArgs
<1>3. QED  BY <1>1, <1>2 DEF Seeks

LEMMA FourSharedFits ==
  ASSUME NEW u, IsUrl(u), getdomain(u) = <<"4shared", "com">>
  PROVE  Fits(u, four_shared_com(u))
<1>1. PICK p : p = Parts(u) \o (IF Bare(u) \/ NoMark(u) THEN <<>> ELSE <<"query">>)
  OBVIOUS
<1>2. PICK n \in Nat : n = Len(p) /\ p \in Seq(Words \cup {"query"})
  BY <1>1, QueryPart
<1>3. n >= 4 => SubSeq(p, n - 2, n - 1) # Thrown
  <2>1. SUFFICES ASSUME n >= 4 PROVE SubSeq(p, n - 2, n - 1) # Thrown
    OBVIOUS
  <2>2. PICK i \in Nat, j \in Nat : i = n - 2 /\ j = n - 1 /\ i \in 1 .. n /\ j \in 1 .. n /\ i <= j
    BY <2>1
  <2>3. Len(SubSeq(p, i, j)) = j - i + 1
    BY <1>2, <2>2, SubSeqProperties
  <2>4. j - i + 1 = 2 /\ Len(Thrown) = 1
    BY <2>2 DEF Thrown
  <2>5. QED  BY <2>2, <2>3, <2>4
<1>4. PICK name : name =
        CASE Has(u, {".com/download/"}) ->
               IF Len(p) < 4 THEN <<>> ELSE SubSeq(p, Len(p) - 2, Len(p) - 1)
          [] Has(u, {".com/img/"}) /\ ~ Has(u, {".com/download/"}) ->
               IF Has(u, {"_2Fdownload_2F"}) /\ Has(u, {"_3Ftsid_"}) THEN LastParts(u, 1)
               ELSE <<>>
          [] OTHER -> <<>>
  OBVIOUS
<1>5. name # Thrown
  <2>1. Thrown # <<>> /\ LastParts(u, 1) # Thrown
    BY Filenames, OneSeq DEF Thrown
  <2>2. ~ (Len(p) < 4) => SubSeq(p, Len(p) - 2, Len(p) - 1) # Thrown
    BY <1>2, <1>3
  <2>3. QED  BY <1>4, <2>1, <2>2
<1>6. PICK b : b = IF Arg(u, "start") \in DOMAIN Numbers \ {""} THEN -1 ELSE 0
  OBVIOUS
<1>7. PICK condition \in BOOLEAN : condition = ~ Has(u, {"preview"})
  BY DEF Has
<1>8. atoll(Arg(u, "start")) = UrlStart(u)
  BY SeekerStart DEF Seekers, SeekArg
<1>9. four_shared_com(u) = GiveAt(condition, "4shared", name, atoll(Arg(u, "start")), b)
  BY <1>1, <1>4, <1>6, <1>7 DEF four_shared_com
<1>10. QED  BY <1>5, <1>8, <1>9, GiveFits

\* The last argument of a name, when it is not the first of all, is the last.
LEMMA LaterArgs ==
  ASSUME NEW u, IsUrl(u), NEW name
  PROVE  \/ LaterArg(u, name) = Arg(u, name)
         \/ Args(u, name) # {} /\ LaterArg(u, name) = ""
<1>1. PICK k \in Nat : k = Len(u.query) /\ Args(u, name) \in SUBSET (1 .. k)
  BY ArgsAre
<1>2. CASE Args(u, name) = {}
  <2>1. Args(u, name) \ {1} = {}
    BY <1>2
  <2>2. QED  BY <1>2, <2>1 DEF LaterArg, Arg, LastOfArgs
<1>3. CASE Args(u, name) # {} /\ Args(u, name) \ {1} = {}
  BY <1>3 DEF LaterArg, LastOfArgs
<1>4. CASE Args(u, name) \ {1} # {}
  <2> DEFINE all == Args(u, name)
             later == all \ {1}
  <2>1. /\ Max(later) \in later /\ \A n \in later : n <= Max(later)
        /\ Max(all) \in all /\ \A n \in all : n <= Max(all)
    <3>1. later \in SUBSET (1 .. k) /\ later # {} /\ all # {}
      BY <1>1, <1>4
    <3>2. QED  BY <1>1, <3>1, MaxIsIn
  <2>2. PICK m \in 1 .. k, n \in 1 .. k : m = Max(later) /\ n = Max(all)
    BY <1>1, <2>1
  <2>3. m <= n /\ m # 1 /\ m \in Nat /\ n \in Nat /\ m >= 1
    BY <2>1, <2>2
  <2>4. n # 1
    BY <2>3
  <2>5. n <= m
    BY <2>1, <2>2, <2>4
  <2>6. m = n
    BY <2>3, <2>5
  <2>7. QED  BY <1>4, <2>2, <2>6 DEF LaterArg, Arg, LastOfArgs
<1>5. QED  BY <1>2, <1>3, <1>4

LEMMA SeekersFit ==
  ASSUME NEW u, IsUrl(u)
  PROVE  /\ getdomain(u) = <<"justin", "tv">> => Fits(u, justin_tv(u))
         /\ getdomain(u) = <<"xtube", "com">> => Fits(u, xtube_com(u))
         /\ getdomain(u) = <<"xvideos", "com">> => Fits(u, xvideos_com(u))
         /\ getdomain(u) = <<"vimeo", "com">> => Fits(u, vimeo_com(u))
         /\ getdomain(u) = <<"rncdn3", "com">> => Fits(u, rncdn3_com(u))
         /\ getdomain(u) = <<"redtubefiles", "com">> => Fits(u, redtubefiles_com(u))
         /\ getdomain(u) = <<"globo", "com">> => Fits(u, globo_com(u))
<1>1. /\ get_filename(u) = Thrown => Deadly(u)
      /\ LastParts(u, 1) # Thrown
  BY Filenames DEF Deadly
<1>2. ASSUME getdomain(u) = <<"justin", "tv">> PROVE Fits(u, justin_tv(u))
  <2>1. PICK condition \in BOOLEAN : condition = (~ (Arg(u, "start") # "") \/ Arg(u, "start") \in DOMAIN Numbers)
    OBVIOUS
  <2>2. PICK b : b = IF Arg(u, "start") # "" THEN -1 ELSE 0
    OBVIOUS
  <2>3. atoll(Arg(u, "start")) = UrlStart(u)
    BY <1>2, SeekerStart DEF Seekers, SeekArg
  <2>4. justin_tv(u) = GiveAt(condition, "justin", LastParts(u, 1), atoll(Arg(u, "start")), b)
    BY <2>1, <2>2 DEF justin_tv
  <2>5. QED  BY <1>1, <2>3, <2>4, GiveFits
<1>3. ASSUME getdomain(u) = <<"xtube", "com">> PROVE Fits(u, xtube_com(u))
  <2>1. atoll(Arg(u, "fs")) = UrlStart(u)
    BY <1>3, SeekerStart DEF Seekers, SeekArg
  <2>2. \/ atoll(LaterArg(u, "fs")) = UrlStart(u)
        \/ Args(u, "fs") # {} /\ LaterArg(u, "fs") = ""
    BY <2>1, LaterArgs
  <2>3. PICK b : b = IF LaterArg(u, "fs") # "" THEN -1 ELSE 0
    OBVIOUS
  <2>4. xtube_com(u) = GiveAt(TRUE, "xtube", get_filename(u), atoll(LaterArg(u, "fs")), b)
    BY <2>3 DEF xtube_com
  <2>5. QED  BY <1>1, <2>2, <2>4, GiveFits
<1>4. ASSUME getdomain(u) = <<"xvideos", "com">> PROVE Fits(u, xvideos_com(u))
  <2>1. atoll(Arg(u, "fs")) = UrlStart(u)
    BY <1>4, SeekerStart DEF Seekers, SeekArg
  <2>2. PICK condition \in BOOLEAN : condition = (Bare(u) \/ LaterArg(u, "fs") = "")
    BY DEF Bare
  <2>3. condition => \/ 0 = UrlStart(u)
                     \/ Args(u, "fs") # {} /\ LaterArg(u, "fs") = ""
    <3>1. Args(u, "fs") = {} => UrlStart(u) = 0
      BY <2>1, ZeroStarts
    <3>2. Bare(u) => Args(u, "fs") = {}
      BY ArgsAre
    <3>3. QED  BY <2>2, <3>1, <3>2
  <2>4. xvideos_com(u) = GiveAt(condition, "xvideos", get_filename(u), 0, 0)
    BY <2>2 DEF xvideos_com, Give
  <2>5. QED  BY <1>1, <2>3, <2>4, GiveFits
<1>5. ASSUME getdomain(u) = <<"vimeo", "com">> PROVE Fits(u, vimeo_com(u))
  <2>1. atoll(Arg(u, "start")) = UrlStart(u)
    BY <1>5, SeekerStart DEF Seekers, SeekArg
  <2>2. PICK condition \in BOOLEAN :
          condition = \A i \in DOMAIN u.query : u.query[i][1] \notin {"time", "start"}
    OBVIOUS
  <2>3. condition => Args(u, "start") = {}
    BY <2>2 DEF Args
  <2>4. condition => 0 = UrlStart(u)
    BY <2>1, <2>3, ZeroStarts
  <2>5. vimeo_com(u) = GiveAt(condition, "vimeo", LastParts(u, 1), 0, 0)
    BY <2>2 DEF vimeo_com, Give
  <2>6. QED  BY <1>1, <2>4, <2>5, GiveFits
<1>6. ASSUME getdomain(u) = <<"rncdn3", "com">> PROVE Fits(u, rncdn3_com(u))
  <2>1. atoll(Arg(u, "ms")) = UrlStart(u)
    BY <1>6, SeekerStart DEF Seekers, SeekArg
  <2>2. PICK condition \in BOOLEAN : condition = (Args(u, "ms") = {})
    OBVIOUS
  <2>3. condition => 0 = UrlStart(u)
    BY <2>1, <2>2, ZeroStarts
  <2>4. rncdn3_com(u) = GiveAt(condition, "pornhub_vid", LastParts(u, 1), 0, 0)
    BY <2>2 DEF rncdn3_com, Give
  <2>5. QED  BY <1>1, <2>3, <2>4, GiveFits
<1>7. ASSUME getdomain(u) = <<"redtubefiles", "com">> PROVE Fits(u, redtubefiles_com(u))
  <2>1. atoll(Arg(u, "start")) = UrlStart(u)
    BY <1>7, SeekerStart DEF Seekers, SeekArg
  <2>2. PICK condition \in BOOLEAN :
          condition = (~ Seeks(u, "start") /\ ~ Seeks(u, "ec_seek") /\ Has(u, {".flv"}))
    OBVIOUS
  <2>3. condition => 0 = UrlStart(u)
    BY <2>1, <2>2, ZeroStarts
  <2>4. redtubefiles_com(u) = GiveAt(condition, "redtubefiles", LastParts(u, 1), 0, 0)
    BY <2>2 DEF redtubefiles_com, Give
  <2>5. QED  BY <1>1, <2>3, <2>4, GiveFits
<1>8. ASSUME getdomain(u) = <<"globo", "com">> PROVE Fits(u, globo_com(u))
  <2>1. atoll(Arg(u, "start")) = UrlStart(u)
    BY <1>8, SeekerStart DEF Seekers, SeekArg
  <2>2. PICK condition \in BOOLEAN : condition = (Args(u, "start") = {})
    OBVIOUS
  <2>3. condition => 0 = UrlStart(u)
    BY <2>1, <2>2, ZeroStarts
  <2>4. globo_com(u) = GiveAt(condition, "globo", get_filename(u), 0, 0)
    BY <2>2 DEF globo_com, Give
  <2>5. QED  BY <1>1, <2>3, <2>4, GiveFits
<1>9. QED  BY <1>2, <1>3, <1>4, <1>5, <1>6, <1>7, <1>8

\* A name from the last four parts, and others with as many to be counted.
LEMMA PhncdnFits ==
  ASSUME NEW u, IsUrl(u), getdomain(u) = <<"phncdn", "com">>
  PROVE  Fits(u, phncdn_com(u))
<1>1. atoll(Arg(u, "start")) = UrlStart(u)
  BY SeekerStart DEF Seekers, SeekArg
<1>2. PICK condition \in BOOLEAN : condition = ~ Seeks(u, "start")
  OBVIOUS
<1>3. PICK plain \in BOOLEAN : plain = NoMark(u)
  BY DEF NoMark
<1>4. /\ condition => 0 = UrlStart(u)
      /\ plain => 0 = UrlStart(u)
  <2>1. NoMark(u) => Args(u, "start") = {}
    BY ArgsAre
  <2>2. QED  BY <1>1, <1>2, <1>3, <2>1, ZeroStarts
<1>5. PICK name : name = IF LastParts(u, 4) = Thrown THEN Thrown
                         ELSE PartFromEnd(u, 4) \o LastParts(u, 2)
  OBVIOUS
<1>6. name = Thrown => Deadly(u)
  <2>1. PICK l \in Nat : l = Len(Parts(u))
    BY PartsAre
  <2>2. 2 \in Nat /\ 2 >= 1 /\ 4 \in Nat /\ 4 >= 1
    OBVIOUS
  <2>3. /\ LastParts(u, 4) = Thrown <=> l < 4
        /\ PartFromEnd(u, 4) = Thrown <=> l < 4
        /\ PartFromEnd(u, 4) # Thrown => PartFromEnd(u, 4) \in Seq(Words)
        /\ PartFromEnd(u, 4) # <<>>
    BY <2>1, <2>2, LastPartsAre
  <2>4. /\ LastParts(u, 2) = Thrown <=> l < 2
        /\ LastParts(u, 2) # Thrown => LastParts(u, 2) \in Seq(Words)
        /\ LastParts(u, 2) # <<>>
    BY <2>1, <2>2, LastPartsAre
  <2>5. CASE l < 4
    <3>1. Counted(getdomain(u)) = 4
      BY DEF Counted
    <3>2. QED  BY <2>1, <2>5, <3>1 DEF Deadly
  <2>6. CASE ~ (l < 4)
    <3>1. ~ (l < 2)
      BY <2>1, <2>6
    <3>2. PartFromEnd(u, 4) \o LastParts(u, 2) # Thrown
      BY <2>3, <2>4, <2>6, <3>1, Joins
    <3>3. QED  BY <1>5, <2>3, <2>6, <3>2
  <2>7. QED  BY <2>5, <2>6
<1>7. LastParts(u, 1) # Thrown
  BY Filenames
<1>8. /\ Fits(u, GiveAt(condition, "pornhub_vid", LastParts(u, 1), 0, 0))
      /\ Fits(u, GiveAt(plain, "pornhub_img", name, 0, 0))
  BY <1>4, <1>6, <1>7, GiveFits
<1>9. \/ phncdn_com(u) = GiveAt(condition, "pornhub_vid", LastParts(u, 1), 0, 0)
      \/ phncdn_com(u) = GiveAt(plain, "pornhub_img", name, 0, 0)
  BY <1>2, <1>3, <1>5 DEF phncdn_com, Give
<1>10. QED  BY <1>8, <1>9

LEMMA PorntubeFits ==
  ASSUME NEW u, IsUrl(u), getdomain(u) = <<"porntube", "com">>
  PROVE  Fits(u, porntube_com(u))
<1>1. atoll(Arg(u, "start")) = UrlStart(u)
  BY SeekerStart DEF Seekers, SeekArg
<1>2. PICK condition \in BOOLEAN : condition = ~ Seeks(u, "start")
  OBVIOUS
<1>3. PICK plain \in BOOLEAN : plain = NoMark(u)
  BY DEF NoMark
<1>4. /\ condition => 0 = UrlStart(u)
      /\ plain => 0 = UrlStart(u)
  <2>1. NoMark(u) => Args(u, "start") = {}
    BY ArgsAre
  <2>2. QED  BY <1>1, <1>2, <1>3, <2>1, ZeroStarts
<1>5. LastParts(u, 10) = Thrown \/ LastParts(u, 11) = Thrown => Deadly(u)
  <2>1. PICK l \in Nat : l = Len(Parts(u))
    BY PartsAre
  <2>2. 10 \in Nat /\ 10 >= 1 /\ 11 \in Nat /\ 11 >= 1
    OBVIOUS
  <2>3. (LastParts(u, 10) = Thrown <=> l < 10) /\ (LastParts(u, 11) = Thrown <=> l < 11)
    BY <2>1, <2>2, LastPartsAre
  <2>4. Counted(getdomain(u)) = 11
    BY DEF Counted
  <2>5. l < 10 => l < 11
    BY <2>1
  <2>6. QED  BY <2>1, <2>3, <2>4, <2>5 DEF Deadly
<1>6. /\ Fits(u, GiveAt(condition, "porntube_vid", LastParts(u, 10), 0, 0))
      /\ Fits(u, GiveAt(plain, "porntube_img", LastParts(u, 11), 0, 0))
  BY <1>4, <1>5, GiveFits
<1>7. \/ porntube_com(u) = GiveAt(condition, "porntube_vid", LastParts(u, 10), 0, 0)
      \/ porntube_com(u) = GiveAt(plain, "porntube_img", LastParts(u, 11), 0, 0)
  BY <1>2, <1>3 DEF porntube_com, Give
<1>8. QED  BY <1>6, <1>7

\* A URL of Netflix says its start in the last part of the path.
LEMMA NetflixFits ==
  ASSUME NEW u, IsUrl(u), getdomain(u) = <<"netflix", "com">>
  PROVE  Fits(u, netflix_com(u))
<1> DEFINE last == Last(Parts(u))
           within == last \in DOMAIN Intervals
           interval == IF within THEN Intervals[last] ELSE <<>>
           id == IF Arg(u, "watchid") # "" /\ Arg(u, "o") # ""
                 THEN <<Arg(u, "watchid"), Arg(u, "o")>> ELSE <<>>
           lost == Bare(u) \/ NoMark(u) \/ interval = <<>>
<1>1. Thrown # <<>> /\ <<"NetflixjsID">> # Thrown /\ LastParts(u, 1) # Thrown
  BY Filenames, OneSeq DEF Thrown
<1>2. id # Thrown
  BY <1>1 DEF Thrown
<1>3. interval = <<>> => ~ within
  <2>1. Intervals["0-3"] = <<0, 3>> /\ Intervals["2-3"] = <<2, 3>> /\ DOMAIN Intervals = {"0-3", "2-3"}
    BY DEF Intervals
  <2>2. within => interval = <<0, 3>> \/ interval = <<2, 3>>
    BY <2>1
  <2>3. <<0, 3>> # <<>> /\ <<2, 3>> # <<>>
    OBVIOUS
  <2>4. QED  BY <2>2, <2>3
<1>4. Has(u, {"/range/"}) /\ lost => Deadly(u)
  BY <1>3 DEF Deadly
<1>5. within => UrlStart(u) = interval[1]
  <2>1. SUFFICES ASSUME within PROVE UrlStart(u) = interval[1]
    OBVIOUS
  <2>2. u.path # <<>>
    <3>1. CASE u.path = <<>>
      <4>1. Parts(u) = <<"host">>
        <5>1. <<"host">> \in Seq({"host"})
          OBVIOUS
        <5>2. <<"host">> \o <<>> = <<"host">>
          BY <5>1
        <5>3. QED  BY <3>1, <5>2 DEF Parts
      <4>2. Last(Parts(u)) = "host"
        BY <4>1 DEF Last
      <4>3. "host" \notin DOMAIN Intervals
        BY DEF Intervals
      <4>4. QED  BY <2>1, <4>2, <4>3
    <3>2. QED  BY <3>1
  <2>3. last = Last(u.path)
    BY <2>2, PartsAre
  <2>4. getdomain(u) \notin Seekers
    BY DEF Seekers
  <2> HIDE DEF last
  <2>5. QED  BY <2>1, <2>2, <2>3, <2>4 DEF UrlStart
<1>6. PICK min : min = interval[1]
  OBVIOUS
<1>7. PICK max : max = interval[2]
  OBVIOUS
<1>8. PICK name : name = id /\ name # Thrown
  BY <1>2
<1>9. PICK found \in BOOLEAN : found = (id # <<>> /\ interval[1] # 0)
  OBVIOUS
<1>10. /\ Fits(u, [NoMatch EXCEPT !.domain = "NetflixID", !.file = LastParts(u, 1)])
       /\ Fits(u, [NoMatch EXCEPT !.domain = "NetflixjsID", !.file = <<"NetflixjsID">>])
       /\ Fits(u, NoMatch)
  BY <1>1 DEF NoMatch, Resposta, Fits, IsResposta
<1>11. Has(u, {"/range/"}) /\ lost => Fits(u, Dies)
  BY <1>1, <1>4 DEF Dies, NoMatch, Resposta, Fits, IsResposta
<1>12. ~ lost => Fits(u, Resposta(found, "netflix", name, min, max, FALSE))
  <2>1. ~ lost => UrlStart(u) = min
    BY <1>5, <1>6
  <2>2. found => name # <<>>
    BY <1>8, <1>9
  <2>3. QED  BY <1>8, <2>1, <2>2 DEF NoMatch, Resposta, Fits, IsResposta
<1>13. CASE Has(u, {"/watch/"})
  BY <1>10, <1>13 DEF netflix_com
<1>14. CASE ~ Has(u, {"/watch/"}) /\ Has(u, {"wwwplayer"})
  BY <1>10, <1>14 DEF netflix_com
<1>15. CASE ~ Has(u, {"/watch/"}) /\ ~ Has(u, {"wwwplayer"})
  <2>1. CASE ~ Has(u, {"/range/"})
    BY <1>10, <1>15, <2>1 DEF netflix_com
  <2>2. CASE Has(u, {"/range/"}) /\ lost
    BY <1>11, <1>15, <2>2 DEF netflix_com
  <2>3. CASE Has(u, {"/range/"}) /\ ~ lost
    <3>1. netflix_com(u) = Resposta(found, "netflix", name, min, max, FALSE)
      BY <1>6, <1>7, <1>8, <1>9, <1>15, <2>3 DEF netflix_com
    <3>2. QED  BY <1>12, <2>3, <3>1
  <2>4. QED  BY <2>1, <2>2, <2>3
<1>16. QED  BY <1>13, <1>14, <1>15

\* YouTube: a name of words, and the interval that the URL gives.
LEMMA YouTubeFits ==
  ASSUME NEW u, NEW name \in Seq(Words), NEW interval, NEW given \in BOOLEAN,
         name # <<>> => interval[1] = UrlStart(u) /\ (given \/ UrlStart(u) = 0)
  PROVE  Fits(u, YouTube(name, interval, given))
<1>1. CASE name = <<>>
  <2>1. YouTube(name, interval, given) = [NoMatch EXCEPT !.exist_range = given]
    BY <1>1 DEF YouTube
  <2>2. Thrown # <<>>
    BY OneSeq DEF Thrown
  <2>3. QED  BY <2>1, <2>2 DEF NoMatch, Resposta, Fits, IsResposta
<1>2. CASE name # <<>>
  <2>1. <<".flv">> \in Seq(Words) /\ <<".flv">> # <<>>
    BY OneSeq DEF Words
  <2>2. PICK file : file = name \o <<".flv">>
    OBVIOUS
  <2>3. file \in Seq(Words) /\ file # Thrown /\ file # <<>>
    BY <1>2, <2>1, <2>2, Joins, ConcatProperties
  <2>4. PICK a : a = interval[1]
    OBVIOUS
  <2>5. PICK b : b = interval[2]
    OBVIOUS
  <2>6. YouTube(name, interval, given) = Resposta(TRUE, "youtube", file, a, b, given)
    BY <1>2, <2>2, <2>4, <2>5 DEF YouTube
  <2>7. a = UrlStart(u) /\ (given \/ UrlStart(u) = 0)
    BY <1>2, <2>4
  <2>8. Fits(u, Resposta(TRUE, "youtube", file, a, b, given))
    BY <2>3, <2>7 DEF NoMatch, Resposta, Fits, IsResposta
  <2>9. QED  BY <2>6, <2>8
<1>3. QED  BY <1>1, <1>2

LEMMA SegmentIs ==
  ASSUME NEW u, IsUrl(u), NEW name
  PROVE  Segment(u, name) \in Words /\ (u.path = <<>> => Segment(u, name) = "")
<1> DEFINE at == {i \in 1 .. Len(u.path) - 1 : u.path[i] = name}
<1>1. PICK l \in Nat : l = Len(u.path)
  BY DEF IsUrl
<1>2. u.path \in Seq(STRING) /\ at \in SUBSET Nat /\ "" \in Words
  BY <1>1 DEF IsUrl, Words
<1>3. CASE at = {}
  BY <1>2, <1>3 DEF Segment
<1>4. CASE at # {}
  <2>1. Min(at) \in at
    BY <1>2, <1>4, MinIsIn
  <2>2. PICK m \in 1 .. l - 1 : m = Min(at)
    BY <1>1, <2>1
  <2>3. m + 1 \in 1 .. l
    BY <1>1, <2>2
  <2>4. u.path[m + 1] \in STRING
    BY <1>1, <1>2, <2>3, ElementOfSeq
  <2>5. Segment(u, name) = u.path[m + 1]
    BY <1>4, <2>2 DEF Segment
  <2>6. u.path # <<>>
    BY <1>1, <2>2
  <2>7. QED  BY <2>4, <2>5, <2>6 DEF Words
<1>5. QED  BY <1>3, <1>4

LEMMA YoutubeStart ==
  ASSUME NEW u, getdomain(u) = <<"youtube", "com">>, NEW at,
         at = LET last == IF u.path = <<>> THEN "" ELSE Last(u.path)
              IN  IF last \in DOMAIN Intervals THEN last ELSE Arg(u, "range")
  PROVE  /\ at \in DOMAIN Intervals => UrlStart(u) = Intervals[at][1]
         /\ at \notin DOMAIN Intervals => UrlStart(u) = 0
<1>1. <<"youtube", "com">> \notin Seekers
  BY DEF Seekers
<1>2. QED  BY <1>1 DEF UrlStart

LEMMA YoutubeIdFits ==
  ASSUME NEW u, IsUrl(u), getdomain(u) = <<"youtube", "com">>, "/videoplayback?" \in u.has
  PROVE  Fits(u, youtube_id(u))
<1> DEFINE id == IF Arg(u, "watchid") # "" THEN Arg(u, "watchid") ELSE Arg(u, "id")
           range == Args(u, "range") # {}
           wrong == range /\ Arg(u, "range") \notin DOMAIN Intervals
           interval == IF range /\ ~ wrong THEN Intervals[Arg(u, "range")] ELSE <<0, 0>>
           itag == IF Arg(u, "itag") \in {"", "34"} THEN <<>> ELSE <<Arg(u, "itag")>>
           mime == IF Arg(u, "mime") = "" THEN <<>> ELSE <<Arg(u, "mime")>>
           nothing == \/ id = "" \/ wrong
                      \/ Arg(u, "cm2") = "0" /\ ~ range
                      \/ PastEnd(atoll(Arg(u, "clen")), interval)
           name == IF nothing THEN <<>> ELSE <<id>> \o itag \o mime
           given == range /\ ~ wrong
<1>1. name \in Seq(Words)
  <2>1. id \in Words /\ Arg(u, "itag") \in Words /\ Arg(u, "mime") \in Words
    BY ArgsAre
  <2>2. /\ <<id>> \in Seq(Words) /\ <<Arg(u, "itag")>> \in Seq(Words)
        /\ <<Arg(u, "mime")>> \in Seq(Words)
    BY <2>1, OneSeq
  <2>3. <<>> \in Seq(Words)
    OBVIOUS
  <2>4. itag \in Seq(Words) /\ mime \in Seq(Words)
    BY <2>2, <2>3
  <2>5. PICK one \in Seq(Words), two \in Seq(Words), three \in Seq(Words) :
          one = <<id>> /\ two = itag /\ three = mime
    BY <2>2, <2>4
  <2>6. one \o two \o three \in Seq(Words)
    BY ConcatProperties
  <2>7. name = <<>> \/ name = one \o two \o three
    BY <2>5
  <2>8. QED  BY <2>3, <2>6, <2>7
<1>2. u.path # <<>> /\ Last(u.path) \notin DOMAIN Intervals
  <2>1. u.path # <<>> /\ Last(u.path) = "videoplayback"
    BY DEF IsUrl
  <2>2. "videoplayback" \notin DOMAIN Intervals /\ "" \notin DOMAIN Intervals
    BY DEF Intervals
  <2>3. QED  BY <2>1, <2>2
<1>3. /\ Arg(u, "range") \in DOMAIN Intervals => UrlStart(u) = Intervals[Arg(u, "range")][1]
      /\ Arg(u, "range") \notin DOMAIN Intervals => UrlStart(u) = 0
  BY <1>2, YoutubeStart
<1>4. ~ range => Arg(u, "range") \notin DOMAIN Intervals
  <2>1. ~ range => Arg(u, "range") = ""
    BY ArgsAre
  <2>2. "" \notin DOMAIN Intervals
    BY DEF Intervals
  <2>3. QED  BY <2>1, <2>2
<1>5. name # <<>> => interval[1] = UrlStart(u) /\ (given \/ UrlStart(u) = 0)
  BY <1>3, <1>4
<1>6. youtube_id(u) = YouTube(name, interval, given)
  BY DEF youtube_id
<1>7. given \in BOOLEAN
  OBVIOUS
<1> HIDE DEF name, interval, given
<1>8. QED  BY <1>1, <1>5, <1>6, <1>7, YouTubeFits

LEMMA YoutubePathFits ==
  ASSUME NEW u, IsUrl(u), getdomain(u) = <<"youtube", "com">>
  PROVE  Fits(u, youtube_path(u))
<1> DEFINE id == IF Arg(u, "watchid") # "" THEN Arg(u, "watchid") ELSE Segment(u, "id")
           found == Last(u.path) \in DOMAIN Intervals /\ Segment(u, "range") = Last(u.path)
           interval == IF found THEN Intervals[Last(u.path)] ELSE <<0, 0>>
           nothing == \/ Bare(u) \/ NoMark(u) \/ id = "" \/ ~ found
                      \/ PastEnd(atoll(Segment(u, "clen")), interval)
           kind == IF Has(u, {"/mime/video"}) THEN "-vid" ELSE "-aud"
           name == IF nothing THEN <<>> ELSE <<id, Segment(u, "itag"), kind>>
           given == found /\ ~ Bare(u) /\ u.mark /\ id # ""
<1>1. name \in Seq(Words)
  <2>1. id \in Words /\ Segment(u, "itag") \in Words /\ kind \in Words
    BY ArgsAre, SegmentIs DEF Words
  <2>2. PICK one \in Words, two \in Words, three \in Words :
          one = id /\ two = Segment(u, "itag") /\ three = kind
    BY <2>1
  <2>3. <<one, two, three>> \in Seq(Words) /\ <<>> \in Seq(Words)
    OBVIOUS
  <2>4. name = <<>> \/ name = <<one, two, three>>
    BY <2>2
  <2>5. QED  BY <2>3, <2>4
<1>2. found => u.path # <<>>
  <2>1. "" \notin DOMAIN Intervals
    BY DEF Intervals
  <2>2. QED  BY <2>1, SegmentIs
<1>3. found => UrlStart(u) = interval[1]
  BY <1>2, YoutubeStart
<1>4. name # <<>> => found /\ given
  BY DEF NoMark
<1>5. youtube_path(u) = YouTube(name, interval, given)
  BY DEF youtube_path
<1>6. given \in BOOLEAN
  OBVIOUS
<1>7. name # <<>> => interval[1] = UrlStart(u) /\ (given \/ UrlStart(u) = 0)
  BY <1>3, <1>4
<1> HIDE DEF name, interval, given
<1>8. QED  BY <1>1, <1>5, <1>6, <1>7, YouTubeFits

LEMMA YoutubeFits ==
  ASSUME NEW u, IsUrl(u), getdomain(u) = <<"youtube", "com">>
  PROVE  Fits(u, youtube_com(u))
<1>1. PICK watch : watch = [NoMatch EXCEPT !.domain = "youtube_IDs", !.file = <<Arg(u, "v")>>]
  OBVIOUS
<1>2. Fits(u, NoMatch) /\ Fits(u, watch)
  <2>1. Arg(u, "v") # "/&"
    BY ArgsAre
  <2>2. <<Arg(u, "v")>> # Thrown /\ Thrown # <<>>
    BY <2>1, OneSeq DEF Thrown
  <2>3. QED  BY <1>1, <2>2 DEF NoMatch, Resposta, Fits, IsResposta
<1>3. Has(u, {"/videoplayback?"}) => Fits(u, youtube_id(u))
  BY YoutubeIdFits DEF Has
<1>4. Fits(u, youtube_path(u))
  BY YoutubePathFits
<1>5. \/ youtube_com(u) = NoMatch \/ youtube_com(u) = watch \/ youtube_com(u) = youtube_path(u)
      \/ Has(u, {"/videoplayback?"}) /\ youtube_com(u) = youtube_id(u)
  BY <1>1 DEF youtube_com
<1>6. QED  BY <1>2, <1>3, <1>4, <1>5

(***************************************************************************)
(* All plugins, the general one, and the texts.                            *)
(***************************************************************************)

LEMMA PluginsFit ==
  ASSUME NEW u, IsUrl(u), getdomain(u) \in Installed, NEW text, text # "youtube"
  PROVE  Fits(u, hgetmatch2(getdomain(u), u, text))
<1>1. CASE getdomain(u) \in PlainPlugins
  BY <1>1, PlainFits
<1>2. CASE getdomain(u) \in
       {<<"avira-update", "com">>, <<"bitdefender", "com">>, <<"bitdefender", "net">>,
        <<"blogspot", "com">>, <<"eset", "com">>, <<"issuu", "com">>,
        <<"mediafire", "com">>, <<"photobucket", "com">>}
  <2>1. /\ hgetmatch2(<<"avira-update", "com">>, u, text) = avira_update_com(u)
        /\ hgetmatch2(<<"bitdefender", "com">>, u, text) = bitdefender_com(u)
        /\ hgetmatch2(<<"bitdefender", "net">>, u, text) = bitdefender_net(u)
        /\ hgetmatch2(<<"blogspot", "com">>, u, text) = blogspot_com(u)
        /\ hgetmatch2(<<"eset", "com">>, u, text) = eset_com(u)
        /\ hgetmatch2(<<"issuu", "com">>, u, text) = issuu_com(u)
        /\ hgetmatch2(<<"mediafire", "com">>, u, text) = mediafire_com(u)
        /\ hgetmatch2(<<"photobucket", "com">>, u, text) = photobucket_com(u)
    BY DEF hgetmatch2
  <2>2. /\ getdomain(u) = <<"avira-update", "com">> => Fits(u, avira_update_com(u))
        /\ getdomain(u) = <<"bitdefender", "com">> => Fits(u, bitdefender_com(u))
        /\ getdomain(u) = <<"bitdefender", "net">> => Fits(u, bitdefender_net(u))
        /\ getdomain(u) = <<"blogspot", "com">> => Fits(u, blogspot_com(u))
        /\ getdomain(u) = <<"eset", "com">> => Fits(u, eset_com(u))
        /\ getdomain(u) = <<"issuu", "com">> => Fits(u, issuu_com(u))
        /\ getdomain(u) = <<"mediafire", "com">> => Fits(u, mediafire_com(u))
        /\ getdomain(u) = <<"photobucket", "com">> => Fits(u, photobucket_com(u))
    BY CountersFit
  <2>3. QED  BY <1>2, <2>1, <2>2
<1>3. CASE getdomain(u) \in
       {<<"submanga", "com">>, <<"edgesuite", "net">>, <<"riotgames", "com">>,
        <<"steampowered", "com">>, <<"dailymotion", "com">>}
  <2>1. /\ hgetmatch2(<<"submanga", "com">>, u, text) = submanga_com(u)
        /\ hgetmatch2(<<"edgesuite", "net">>, u, text) = edgesuite_net(u)
        /\ hgetmatch2(<<"riotgames", "com">>, u, text) = riotgames_com(u)
        /\ hgetmatch2(<<"steampowered", "com">>, u, text) = steampowered_com(u)
        /\ hgetmatch2(<<"dailymotion", "com">>, u, text) = dailymotion_com(u)
    BY DEF hgetmatch2
  <2>2. /\ getdomain(u) = <<"submanga", "com">> => Fits(u, submanga_com(u))
        /\ getdomain(u) = <<"edgesuite", "net">> => Fits(u, edgesuite_net(u))
        /\ getdomain(u) = <<"riotgames", "com">> => Fits(u, riotgames_com(u))
        /\ getdomain(u) = <<"steampowered", "com">> => Fits(u, steampowered_com(u))
        /\ getdomain(u) = <<"dailymotion", "com">> => Fits(u, dailymotion_com(u))
    BY SubmangaFits, EdgesuiteFits, RiotgamesFits, SteampoweredFits, DailymotionFits
  <2>3. QED  BY <1>3, <2>1, <2>2
<1>4. CASE getdomain(u) \in
       {<<"speedtest", "net">>, <<"wrzuta", "pl">>, <<"fbcdn", "net">>,
        <<"ytimg", "com">>}
  <2>1. /\ hgetmatch2(<<"speedtest", "net">>, u, text) = speedtest_net(u)
        /\ hgetmatch2(<<"wrzuta", "pl">>, u, text) = wrzuta_pl(u)
        /\ hgetmatch2(<<"fbcdn", "net">>, u, text) = fbcdn_net(u)
        /\ hgetmatch2(<<"ytimg", "com">>, u, text) = ytimg_com(u)
    BY DEF hgetmatch2
  <2>2. /\ getdomain(u) = <<"speedtest", "net">> => Fits(u, speedtest_net(u))
        /\ getdomain(u) = <<"wrzuta", "pl">> => Fits(u, wrzuta_pl(u))
        /\ getdomain(u) = <<"fbcdn", "net">> => Fits(u, fbcdn_net(u))
        /\ getdomain(u) = <<"ytimg", "com">> => Fits(u, ytimg_com(u))
    BY SpeedtestFits, WrzutaFits, FbcdnFits, YtimgFits
  <2>3. QED  BY <1>4, <2>1, <2>2
<1>5. CASE getdomain(u) \in
       {<<"doubleclick", "net">>, <<"fwmrm", "net">>, <<"live", "com">>,
        <<"rad", "msn", "com">>}
  <2>1. /\ hgetmatch2(<<"doubleclick", "net">>, u, text) = doubleclick_net(u)
        /\ hgetmatch2(<<"fwmrm", "net">>, u, text) = fwmrm_net(u)
        /\ hgetmatch2(<<"live", "com">>, u, text) = live_com(u)
        /\ hgetmatch2(<<"rad", "msn", "com">>, u, text) = rad_msn_com(u)
    BY DEF hgetmatch2
  <2>2. /\ getdomain(u) = <<"doubleclick", "net">> => Fits(u, doubleclick_net(u))
        /\ getdomain(u) = <<"fwmrm", "net">> => Fits(u, fwmrm_net(u))
        /\ getdomain(u) = <<"live", "com">> => Fits(u, live_com(u))
        /\ getdomain(u) = <<"rad", "msn", "com">> => Fits(u, rad_msn_com(u))
    BY RewritersFit
  <2>3. QED  BY <1>5, <2>1, <2>2
<1>6. CASE getdomain(u) \in
       {<<"akamaihd", "net">>, <<"socialpointgames", "com">>, <<"zgncdn", "com">>}
  <2>1. /\ hgetmatch2(<<"akamaihd", "net">>, u, text) = akamaihd_net(u, text)
        /\ hgetmatch2(<<"socialpointgames", "com">>, u, text) = socialpointgames_com(u, text)
        /\ hgetmatch2(<<"zgncdn", "com">>, u, text) = zgncdn_com(u, text)
    BY DEF hgetmatch2
  <2>2. /\ getdomain(u) = <<"akamaihd", "net">> => Fits(u, akamaihd_net(u, text))
        /\ getdomain(u) = <<"socialpointgames", "com">> => Fits(u, socialpointgames_com(u, text))
        /\ getdomain(u) = <<"zgncdn", "com">> => Fits(u, zgncdn_com(u, text))
    BY StickyFit
  <2>3. QED  BY <1>6, <2>1, <2>2
<1>7. CASE getdomain(u) \in
       {<<"globo", "com">>, <<"justin", "tv">>, <<"redtubefiles", "com">>,
        <<"rncdn3", "com">>, <<"vimeo", "com">>, <<"xtube", "com">>,
        <<"xvideos", "com">>}
  <2>1. /\ hgetmatch2(<<"globo", "com">>, u, text) = globo_com(u)
        /\ hgetmatch2(<<"justin", "tv">>, u, text) = justin_tv(u)
        /\ hgetmatch2(<<"redtubefiles", "com">>, u, text) = redtubefiles_com(u)
        /\ hgetmatch2(<<"rncdn3", "com">>, u, text) = rncdn3_com(u)
        /\ hgetmatch2(<<"vimeo", "com">>, u, text) = vimeo_com(u)
        /\ hgetmatch2(<<"xtube", "com">>, u, text) = xtube_com(u)
        /\ hgetmatch2(<<"xvideos", "com">>, u, text) = xvideos_com(u)
    BY DEF hgetmatch2
  <2>2. /\ getdomain(u) = <<"globo", "com">> => Fits(u, globo_com(u))
        /\ getdomain(u) = <<"justin", "tv">> => Fits(u, justin_tv(u))
        /\ getdomain(u) = <<"redtubefiles", "com">> => Fits(u, redtubefiles_com(u))
        /\ getdomain(u) = <<"rncdn3", "com">> => Fits(u, rncdn3_com(u))
        /\ getdomain(u) = <<"vimeo", "com">> => Fits(u, vimeo_com(u))
        /\ getdomain(u) = <<"xtube", "com">> => Fits(u, xtube_com(u))
        /\ getdomain(u) = <<"xvideos", "com">> => Fits(u, xvideos_com(u))
    BY SeekersFit
  <2>3. QED  BY <1>7, <2>1, <2>2
<1>8. CASE getdomain(u) \in
       {<<"4shared", "com">>, <<"phncdn", "com">>, <<"porntube", "com">>,
        <<"netflix", "com">>, <<"youtube", "com">>}
  <2>1. /\ hgetmatch2(<<"4shared", "com">>, u, text) = four_shared_com(u)
        /\ hgetmatch2(<<"phncdn", "com">>, u, text) = phncdn_com(u)
        /\ hgetmatch2(<<"porntube", "com">>, u, text) = porntube_com(u)
        /\ hgetmatch2(<<"netflix", "com">>, u, text) = netflix_com(u)
        /\ hgetmatch2(<<"youtube", "com">>, u, text) = youtube_com(u)
    BY DEF hgetmatch2
  <2>2. /\ getdomain(u) = <<"4shared", "com">> => Fits(u, four_shared_com(u))
        /\ getdomain(u) = <<"phncdn", "com">> => Fits(u, phncdn_com(u))
        /\ getdomain(u) = <<"porntube", "com">> => Fits(u, porntube_com(u))
        /\ getdomain(u) = <<"netflix", "com">> => Fits(u, netflix_com(u))
        /\ getdomain(u) = <<"youtube", "com">> => Fits(u, youtube_com(u))
    BY FourSharedFits, PhncdnFits, PorntubeFits, NetflixFits, YoutubeFits
  <2>3. QED  BY <1>8, <2>1, <2>2
<1>9. QED  BY <1>1, <1>2, <1>3, <1>4, <1>5, <1>6, <1>7, <1>8 DEF Installed, PlainPlugins

LEMMA GeneralFits ==
  ASSUME NEW u, IsUrl(u), getdomain(u) \notin Installed, getdomain(u) # Nowhere
  PROVE  /\ IsResposta(generalplugin(u)) /\ UrlStart(u) = 0
         /\ generalplugin(u).match => generalplugin(u).file # <<>>
         /\ generalplugin(u).range_min = 0 /\ generalplugin(u).file # Thrown
<1>1. UrlStart(u) = 0
  <2>1. Seekers \cup {<<"youtube", "com">>, <<"netflix", "com">>} \subseteq Installed
    BY DEF Seekers, Installed
  <2>2. QED  BY <2>1, NoStart
<1>2. PICK file : file = <<"md5", getdomain(u), u.path, "DELIM", Last(Parts(u))>>
  OBVIOUS
<1>3. file # Thrown /\ file # <<>> /\ Thrown # <<>>
  <2>1. Len(file) = 5 /\ Len(Thrown) = 1 /\ Len(<<>>) = 0
    BY <1>2 DEF Thrown
  <2>2. QED  BY <2>1
<1>4. PICK name : name = IF Len(getdomain(u)) = 2 THEN getdomain(u)[1] ELSE Joined(getdomain(u))
  OBVIOUS
<1>5. \/ generalplugin(u) = NoMatch
      \/ generalplugin(u) = Resposta(TRUE, name, file, 0, 0, FALSE)
  BY <1>2, <1>3, <1>4 DEF generalplugin, Give, GiveAt
<1>6. CASE generalplugin(u) = NoMatch
  <2>1. /\ IsResposta(NoMatch) /\ NoMatch.match = FALSE /\ NoMatch.file = <<>>
        /\ NoMatch.range_min = 0
    BY DEF NoMatch, Resposta, IsResposta
  <2>2. QED  BY <1>1, <1>3, <1>6, <2>1
<1>7. CASE generalplugin(u) = Resposta(TRUE, name, file, 0, 0, FALSE)
  BY <1>1, <1>3, <1>7 DEF NoMatch, Resposta, IsResposta
<1>8. QED  BY <1>5, <1>6, <1>7

\* No mark in a URL makes a library call its domain "youtube".
LEMMA ChosenText ==
  ASSUME NEW u, NEW before, before # "youtube", NEW k \in Nat, NEW choices,
         DOMAIN choices = 1 .. k, \A i \in 1 .. k : choices[i][2] # "youtube"
  PROVE  Chosen(u, choices, before) # "youtube"
<1> DEFINE at == {i \in DOMAIN choices : Has(u, choices[i][1])}
<1>1. at \in SUBSET (1 .. k)
  OBVIOUS
<1>2. CASE at = {}
  BY <1>2 DEF Chosen
<1>3. CASE at # {}
  <2>1. Max(at) \in 1 .. k
    BY <1>1, <1>3, MaxIsIn
  <2>2. Chosen(u, choices, before) = choices[Max(at)][2]
    BY <1>3 DEF Chosen
  <2>3. QED  BY <2>1, <2>2
<1>4. QED  BY <1>2, <1>3

LEMMA TextIsNot ==
  ASSUME NEW u, NEW domain \in Sticky, NEW before, before # "youtube"
  PROVE  /\ dominiotxtFor(domain, u, before) # "youtube"
         /\ dominiotxtAtStart(domain) # "youtube"
<1>1. dominiotxtAtStart(domain) # "youtube"
  BY DEF dominiotxtAtStart, Sticky
<1>2. CASE domain = <<"akamaihd", "net">>
  <2>1. PICK choices : choices =
         <<<<{"/shockwave/"}, "GF_akamaihd_city2">>,
           <<{"/farm2/"}, "GF_akamaihd_farm2">>,
           <<{"/slingo/"}, "GF_akamaihd_slingo">>,
           <<{"dchoc1"}, "GF_akamaihd_galaxy">>,
           <<{"/cooking/"}, "GF_akamaihd_cheff">>,
           <<{"/wow/"}, "GF_akamaihd_worldofwarcraft">>,
           <<{"/d3/"}, "GF_akamaihd_diablo3">>>>
    OBVIOUS
  <2>2. DOMAIN choices = 1 .. 7 /\ \A i \in 1 .. 7 : choices[i][2] # "youtube"
    BY <2>1
  <2>3. dominiotxtFor(domain, u, before) = Chosen(u, choices, before)
    BY <1>2, <2>1 DEF dominiotxtFor
  <2>4. 7 \in Nat
    OBVIOUS
  <2>5. QED  BY <1>1, <2>2, <2>3, <2>4, ChosenText
<1>3. CASE domain = <<"socialpointgames", "com">>
  <2>1. PICK choices : choices =
         <<<<{"/dragoncity/"}, "socialpg_dragoncity">>,
           <<{"/socialwars/"}, "socialpg_socialwars">>,
           <<{"/socialempires/"}, "socialpg_socialempires">>>>
    OBVIOUS
  <2>2. DOMAIN choices = 1 .. 3 /\ \A i \in 1 .. 3 : choices[i][2] # "youtube"
    BY <2>1
  <2>3. dominiotxtFor(domain, u, before) = Chosen(u, choices, before)
    BY <1>3, <2>1 DEF dominiotxtFor
  <2>4. 3 \in Nat
    OBVIOUS
  <2>5. QED  BY <1>1, <2>2, <2>3, <2>4, ChosenText
<1>4. CASE domain = <<"zgncdn", "com">>
  <2>1. PICK choices : choices =
         <<<<{"empire"}, "GF_zgncdn_empire">>,
           <<{"cityvillefb", "/city/"}, "GF_zgncdn_city">>,
           <<{"farmville", "/farm/"}, "GF_zgncdn_farm">>,
           <<{"castle"}, "GF_zgncdn_castle">>,
           <<{"bubblesafari", "/bubble/"}, "GF_zgncdn_bubble">>,
           <<{"familyville"}, "GF_zgncdn_ville">>,
           <<{"hog", "/hidden/"}, "GF_zgncdn_hidden">>>>
    OBVIOUS
  <2>2. DOMAIN choices = 1 .. 7 /\ \A i \in 1 .. 7 : choices[i][2] # "youtube"
    BY <2>1
  <2>3. dominiotxtFor(domain, u, before) = Chosen(u, choices, before)
    BY <1>4, <2>1 DEF dominiotxtFor
  <2>4. 7 \in Nat
    OBVIOUS
  <2>5. QED  BY <1>1, <2>2, <2>3, <2>4, ChosenText
<1>5. QED  BY <1>2, <1>3, <1>4 DEF Sticky

(***************************************************************************)
(* What Cache() makes of an answer.                                        *)
(***************************************************************************)

\* The header changes the name of an answer or takes the match away, no more.
LEMMA AdjustedIs ==
  ASSUME NEW l, NEW a, IsResposta(a)
  PROVE  /\ IsResposta(Adjusted(l, a)) /\ Adjusted(l, a).domain = a.domain
         /\ Adjusted(l, a).match => a.match
         /\ ~ ByHeader(l) => Adjusted(l, a) = a
         /\ ByHeader(l) /\ a.domain # "youtube" => Adjusted(l, a).file = Prefixed(a.file)
         /\ ByHeader(l) /\ a.domain = "youtube" =>
              \/ Adjusted(l, a).match = FALSE
              \/ ~ a.exist_range /\ Adjusted(l, a).file = Prefixed(AsWebm(a.file))
<1> USE DEF IsResposta, NoMatch, Resposta
<1>1. CASE ~ ByHeader(l)
  <2>1. Adjusted(l, a) = a
    BY <1>1 DEF Adjusted
  <2>2. QED  BY <1>1, <2>1
<1>2. CASE ByHeader(l) /\ a.domain = "youtube" /\ a.exist_range
  <2>1. Adjusted(l, a) = [a EXCEPT !.match = FALSE]
    BY <1>2 DEF Adjusted
  <2>2. QED  BY <1>2, <2>1
<1>3. CASE ByHeader(l) /\ a.domain = "youtube" /\ ~ a.exist_range
  <2>1. Adjusted(l, a) = [a EXCEPT !.file = Prefixed(AsWebm(a.file))]
    BY <1>3 DEF Adjusted
  <2>2. QED  BY <1>3, <2>1
<1>4. CASE ByHeader(l) /\ a.domain # "youtube"
  <2>1. Adjusted(l, a) = [a EXCEPT !.file = Prefixed(a.file)]
    BY <1>4 DEF Adjusted
  <2>2. QED  BY <1>4, <2>1
<1>5. QED  BY <1>1, <1>2, <1>3, <1>4

\* A name is not lost on the way.
LEMMA NamesStay ==
  /\ \A file : file # <<>> => Prefixed(file) # <<>>
  /\ \A file \in Seq(Words) : file # <<>> => AsWebm(file) # <<>>
<1>1. ASSUME NEW file, file # <<>> PROVE Prefixed(file) # <<>>
  <2>1. Prefixed(file) = <<"206-", file>>
    BY <1>1 DEF Prefixed
  <2>2. Len(<<"206-", file>>) = 2 /\ Len(<<>>) = 0
    OBVIOUS
  <2>3. QED  BY <2>1, <2>2
<1>2. ASSUME NEW file \in Seq(Words), file # <<>> PROVE AsWebm(file) # <<>>
  <2>1. CASE Last(file) = ".flv"
    <3>1. PICK l \in Nat : l = Len(file) /\ l >= 1
      BY <1>2
    <3>2. Front(file) \in Seq(Words)
      <4>1. Front(file) = SubSeq(file, 1, l - 1)
        BY <3>1 DEF Front
      <4>2. SubSeq(file, 1, l - 1) \in Seq(Words)
        BY <3>1, SubSeqProperties
      <4>3. QED  BY <4>1, <4>2
    <3>3. Len(Append(Front(file), ".webm")) = Len(Front(file)) + 1 /\ Len(Front(file)) \in Nat
      <4>1. ".webm" \in Words
        BY DEF Words
      <4>2. QED  BY <3>2, <4>1, AppendProperties
    <3>4. Append(Front(file), ".webm") # <<>>
      <4>1. PICK w : w = Append(Front(file), ".webm")
        OBVIOUS
      <4>2. PICK n \in Nat : n = Len(Front(file))
        BY <3>3
      <4>3. Len(w) = n + 1 /\ n + 1 # 0 /\ Len(<<>>) = 0
        BY <3>3, <4>1, <4>2
      <4>4. QED  BY <4>1, <4>3
    <3>5. QED  BY <1>2, <2>1, <3>4 DEF AsWebm
  <2>2. CASE Last(file) # ".flv"
    BY <1>2, <2>2 DEF AsWebm
  <2>3. QED  BY <2>1, <2>2
<1>3. QED  BY <1>1, <1>2

\* What a child that has just been started would answer differs in the domain at
\* most, and only for the libraries with a global variable.
LEMMA StickyFile ==
  ASSUME NEW u, NEW l, getdomain(u) \in Sticky, NEW s, s # "youtube", NEW t, t # "youtube"
  PROVE  Adjusted(l, hgetmatch2(getdomain(u), u, s)).file =
           Adjusted(l, hgetmatch2(getdomain(u), u, t)).file
<1>1. ASSUME NEW c, NEW file
      PROVE  /\ Give(c, s, file).file = Give(c, t, file).file
             /\ IsResposta(Give(c, s, file)) /\ IsResposta(Give(c, t, file))
             /\ Give(c, s, file).domain # "youtube" /\ Give(c, t, file).domain # "youtube"
  BY DEF Give, GiveAt, Resposta, NoMatch, Dies, IsResposta
<1>2. PICK a, b : a = hgetmatch2(getdomain(u), u, s) /\ b = hgetmatch2(getdomain(u), u, t)
  OBVIOUS
<1>3. /\ a.file = b.file /\ IsResposta(a) /\ IsResposta(b)
      /\ a.domain # "youtube" /\ b.domain # "youtube"
  <2>1. /\ hgetmatch2(<<"akamaihd", "net">>, u, s) = akamaihd_net(u, s)
        /\ hgetmatch2(<<"akamaihd", "net">>, u, t) = akamaihd_net(u, t)
        /\ hgetmatch2(<<"socialpointgames", "com">>, u, s) = socialpointgames_com(u, s)
        /\ hgetmatch2(<<"socialpointgames", "com">>, u, t) = socialpointgames_com(u, t)
        /\ hgetmatch2(<<"zgncdn", "com">>, u, s) = zgncdn_com(u, s)
        /\ hgetmatch2(<<"zgncdn", "com">>, u, t) = zgncdn_com(u, t)
    BY DEF hgetmatch2
  <2>2. PICK c : c = (Sub(u) /\ Has(u, {".jpg", ".png", ".mp3", ".swf"}))
    OBVIOUS
  <2>3. CASE getdomain(u) = <<"akamaihd", "net">>
    <3>1. a = Give(Sub(u), s, get_filename4(u)) /\ b = Give(Sub(u), t, get_filename4(u))
      BY <1>2, <2>1, <2>3 DEF akamaihd_net
    <3>2. QED  BY <1>1, <3>1
  <2>4. CASE getdomain(u) \in {<<"socialpointgames", "com">>, <<"zgncdn", "com">>}
    <3>1. a = Give(c, s, get_filename(u)) /\ b = Give(c, t, get_filename(u))
      BY <1>2, <2>1, <2>2, <2>4 DEF socialpointgames_com, zgncdn_com
    <3>2. QED  BY <1>1, <3>1
  <2>5. QED  BY <2>3, <2>4 DEF Sticky
<1>4. Adjusted(l, a).file = Adjusted(l, b).file
  <2>1. CASE ByHeader(l)
    <3>1. /\ Adjusted(l, a).file = Prefixed(a.file)
          /\ Adjusted(l, b).file = Prefixed(b.file)
      BY <1>3, <2>1, AdjustedIs
    <3>2. QED  BY <1>3, <3>1
  <2>2. CASE ~ ByHeader(l)
    <3>1. Adjusted(l, a) = a /\ Adjusted(l, b) = b
      BY <1>3, <2>2, AdjustedIs
    <3>2. QED  BY <1>3, <3>1
  <2>3. QED  BY <2>1, <2>2
<1>5. QED  BY <1>2, <1>4

(***************************************************************************)
(* The child.                                                              *)
(***************************************************************************)

\* Between its requests the child knows no text "youtube"; the request is one of
\* the site's; what the header says is in the limits until the plugin is asked.
NamingInv ==
  /\ \A domain \in Sticky : dominiotxt[domain] # "youtube"
  /\ \E visit \in Visited : site = visit[1]
  /\ pc \in {"idle", "limits", "named", "dead"}
  /\ pc # "idle" => IsUrl(url) /\ IsHeader(header)
  /\ pc = "limits" => limits = LimitBytes(header)
  /\ IsResposta(r)
  /\ OwnName /\ RightPlace /\ Survives

LEMMA NamingInit == ASSUME Init PROVE NamingInv
<1>1. \A domain \in Sticky : dominiotxt[domain] # "youtube"
  BY TextIsNot DEF Init, FirstTexts
<1>2. \E visit \in Visited : site = visit[1]
  BY DEF Init
<1>3. pc = "idle" /\ IsResposta(r)
  BY DEF Init, IsResposta
<1>4. OwnName /\ RightPlace /\ Survives
  BY <1>3 DEF OwnName, RightPlace, Survives, Cached
<1>5. QED  BY <1>1, <1>2, <1>3, <1>4 DEF NamingInv

LEMMA HeaderStep ==
  ASSUME NamingInv, NEW ask \in Asks(site), getLimitBytes(ask[1], ask[2])
  PROVE  NamingInv'
<1>1. IsUrl(ask[1]) /\ IsHeader(ask[2])
  BY NamingAssumption DEF NamingInv
<1>2. /\ pc' = "limits" /\ url' = ask[1] /\ header' = ask[2]
      /\ UNCHANGED <<site, dominiotxt, r>>
  BY DEF getLimitBytes
<1>3. limits' = LimitBytes(header')
  <2>1. PICK l : l = LimitBytes(ask[2])
    OBVIOUS
  <2>2. partial' = l[1] /\ range_min' = l[2] /\ range_max' = l[3]
    BY <2>1 DEF getLimitBytes
  <2>3. l = <<l[1], l[2], l[3]>>
    BY <2>1 DEF LimitBytes
  <2>4. QED  BY <1>2, <2>1, <2>2, <2>3 DEF limits
<1>4. (IsUrl(url) /\ IsHeader(header))'
  BY <1>1, <1>2 DEF IsUrl, IsHeader
<1>5. (OwnName /\ RightPlace /\ Survives)'
  BY <1>2 DEF OwnName, RightPlace, Survives, Cached
<1>6. (\A domain \in Sticky : dominiotxt[domain] # "youtube")' /\ (\E visit \in Visited : site = visit[1])'
  BY <1>2 DEF NamingInv
<1>7. IsResposta(r)'
  BY <1>2 DEF NamingInv, IsResposta
<1>8. QED  BY <1>2, <1>3, <1>4, <1>5, <1>6, <1>7 DEF NamingInv

\* What the limits say when they are the header's.
LEMMA LimitsAre ==
  ASSUME NEW h, IsHeader(h)
  PROVE  /\ ByHeader(LimitBytes(h)) => h.kind \in {"range", "open", "suffix"}
         /\ ~ ByHeader(LimitBytes(h)) => h.kind = "lower" \/ (h.kind \in {"none", "range"} /\ h.a = 0)
         /\ LimitBytes(h)[1] => h.kind \in {"range", "open", "suffix"} /\ LimitBytes(h)[2] = h.a
         /\ ~ LimitBytes(h)[1] => h.kind = "lower" \/ (h.kind = "none" /\ h.a = 0)
         /\ h.a \in Nat
         /\ h.kind # "suffix" => Start(h) = h.a
<1>1. SIZE \in Nat
  BY NamingAssumption
<1>2. h.a \in Nat /\ h.b \in Nat
  BY <1>1 DEF IsHeader
<1>3. Start(h) = h.a \/ h.kind = "suffix"
  BY DEF Start
<1>4. CASE h.kind = "range"
  <2>1. LimitBytes(h) = <<TRUE, h.a, h.b>>
    BY <1>4 DEF LimitBytes
  <2>2. h.b = 0 => h.a = 0
    BY <1>2, <1>4 DEF IsHeader
  <2>3. QED  BY <1>2, <1>3, <1>4, <2>1, <2>2 DEF ByHeader
<1>5. CASE h.kind \in {"open", "suffix"}
  <2>1. LimitBytes(h) = <<TRUE, h.a, -1>>
    BY <1>5 DEF LimitBytes
  <2>2. QED  BY <1>2, <1>3, <1>5, <2>1 DEF ByHeader
<1>6. CASE h.kind \in {"none", "lower"}
  <2>1. LimitBytes(h) = <<FALSE, 0, 0>>
    BY <1>6 DEF LimitBytes
  <2>2. QED  BY <1>2, <1>3, <1>6, <2>1 DEF ByHeader, IsHeader
<1>7. QED  BY <1>4, <1>5, <1>6 DEF IsHeader

LEMMA StartIsInt ==
  ASSUME NEW u
  PROVE  UrlStart(u) \in Int
<1>1. \A text : atoll(text) \in Int
  <2>1. /\ Numbers[""] = 0 /\ Numbers["0"] = 0 /\ Numbers["2"] = 2 /\ Numbers["3"] = 3
        /\ DOMAIN Numbers = {"", "0", "2", "3"}
    BY DEF Numbers
  <2>2. /\ Numbers[""] \in Int /\ Numbers["0"] \in Int
        /\ Numbers["2"] \in Int /\ Numbers["3"] \in Int
    <3>1. 0 \in Int /\ 2 \in Int /\ 3 \in Int
      OBVIOUS
    <3>2. QED  BY <2>1, <3>1, Zenon
  <2>3. \A text \in {"", "0", "2", "3"} : Numbers[text] \in Int
    BY <2>2, Zenon
  <2>4. 0 \in Int
    OBVIOUS
  <2>5. QED  BY <2>1, <2>3, <2>4 DEF atoll
<1>2. \A at \in DOMAIN Intervals : Intervals[at][1] \in Int
  <2>1. Intervals["0-3"] = <<0, 3>> /\ Intervals["2-3"] = <<2, 3>> /\ DOMAIN Intervals = {"0-3", "2-3"}
    BY DEF Intervals
  <2>2. QED  BY <2>1
<1>3. CASE getdomain(u) \in Seekers
  BY <1>1, <1>3, SeekerStart
<1>4. CASE getdomain(u) \notin Seekers
  <2>1. PICK at : at = LET last == IF u.path = <<>> THEN "" ELSE Last(u.path)
                       IN  IF last \in DOMAIN Intervals THEN last ELSE Arg(u, "range")
    OBVIOUS
  <2>2. CASE /\ getdomain(u) \in {<<"youtube", "com">>, <<"netflix", "com">>}
             /\ at \in DOMAIN Intervals
    <3>1. UrlStart(u) = Intervals[at][1]
      BY <1>4, <2>1, <2>2 DEF UrlStart
    <3>2. QED  BY <1>2, <2>2, <3>1
  <2>3. CASE ~ (/\ getdomain(u) \in {<<"youtube", "com">>, <<"netflix", "com">>}
                /\ at \in DOMAIN Intervals)
    <3>1. UrlStart(u) = 0
      BY <1>4, <2>1, <2>3 DEF UrlStart
    <3>2. QED  BY <3>1
  <2>4. QED  BY <2>2, <2>3
<1>5. QED  BY <1>3, <1>4

\* A plugin's answer, with the header put into it, has its name and its place.
LEMMA AnswerStep ==
  ASSUME NamingInv, pc = "limits", UNCHANGED request,
         NEW a, Fits(url, a), r' = Adjusted(limits, a), Taken(a), pc' \in {"named", "dead"}
  PROVE  /\ IsResposta(r)' /\ RightPlace'
         /\ Cached' /\ r'.file = <<>> => r'.domain \in Unnamed
<1>1. IsResposta(a) /\ IsUrl(url) /\ IsHeader(header) /\ limits = LimitBytes(header)
  BY DEF Fits, NamingInv
<1>2. /\ IsResposta(Adjusted(limits, a)) /\ Adjusted(limits, a).domain = a.domain
      /\ Adjusted(limits, a).match => a.match
      /\ ~ ByHeader(limits) => Adjusted(limits, a) = a
      /\ ByHeader(limits) /\ a.domain # "youtube" => Adjusted(limits, a).file = Prefixed(a.file)
      /\ ByHeader(limits) /\ a.domain = "youtube" =>
           \/ Adjusted(limits, a).match = FALSE
           \/ ~ a.exist_range /\ Adjusted(limits, a).file = Prefixed(AsWebm(a.file))
  <2>1. PICK l : l = limits
    OBVIOUS
  <2>2. /\ IsResposta(Adjusted(l, a)) /\ Adjusted(l, a).domain = a.domain
        /\ Adjusted(l, a).match => a.match
        /\ ~ ByHeader(l) => Adjusted(l, a) = a
        /\ ByHeader(l) /\ a.domain # "youtube" => Adjusted(l, a).file = Prefixed(a.file)
        /\ ByHeader(l) /\ a.domain = "youtube" =>
             \/ Adjusted(l, a).match = FALSE
             \/ ~ a.exist_range /\ Adjusted(l, a).file = Prefixed(AsWebm(a.file))
    BY <1>1, AdjustedIs
  <2>3. QED  BY <2>1, <2>2
<1>3. IsResposta(r)'
  BY <1>2 DEF IsResposta
<1>4. url' = url /\ header' = header
  BY DEF request
<1>5. ASSUME Cached', r'.file = <<>> PROVE r'.domain \in Unnamed
  <2>1. a.match /\ r'.match /\ r'.domain = a.domain
    BY <1>2, <1>5 DEF Cached
  <2>2. a.file # <<>> \/ a.domain \in Unnamed
    BY <2>1 DEF Fits
  <2>3. CASE ~ ByHeader(limits)
    BY <1>2, <1>5, <2>1, <2>2, <2>3
  <2>4. CASE ByHeader(limits) /\ a.domain # "youtube"
    BY <1>2, <1>5, <2>1, <2>2, <2>4, NamesStay
  <2>5. CASE ByHeader(limits) /\ a.domain = "youtube"
    <3>1. a.file \in Seq(Words)
      BY <2>1, <2>5 DEF Fits
    <3>2. r'.file = Prefixed(AsWebm(a.file))
      BY <1>2, <2>1, <2>5
    <3>3. QED  BY <1>5, <2>1, <2>2, <3>1, <3>2, NamesStay
  <2>6. QED  BY <2>3, <2>4, <2>5
<1>6. ASSUME Cached', r'.domain # "rewrite"
      PROVE  \/ range_min' = UrlStart(url) + Start(header)
             \/ header.kind \in {"suffix", "lower"}
             \/ header.kind # "none" /\ UrlStart(url) # 0 /\ r'.domain # "youtube"
             \/ Args(url, "fs") # {} /\ LaterArg(url, "fs") = ""
  <2>1. a.match /\ r'.match /\ r'.domain = a.domain
    BY <1>2, <1>6 DEF Cached
  <2>2. \/ a.range_min = UrlStart(url)
        \/ Args(url, "fs") # {} /\ LaterArg(url, "fs") = ""
    BY <1>6, <2>1 DEF Fits
  <2>3. CASE ByHeader(limits)
    <3>1. PICK h \in Nat : h = header.a /\ range_min' = h
      <4>1. range_min' = range_min /\ limits[2] = range_min
        BY <2>3 DEF Taken, limits
      <4>2. limits[1]
        BY <2>3 DEF ByHeader
      <4>3. limits[2] = header.a /\ header.a \in Nat
        BY <1>1, <4>2, LimitsAre
      <4>4. QED  BY <4>1, <4>3
    <3>2. header.kind \in {"range", "open", "suffix"}
      BY <1>1, <2>3, LimitsAre
    <3>3. Start(header) = h \/ header.kind = "suffix"
      BY <1>1, <3>1, LimitsAre
    <3>4. CASE UrlStart(url) = 0
      <4>1. 0 + h = h
        OBVIOUS
      <4>2. QED  BY <3>1, <3>3, <3>4, <4>1
    <3>5. CASE UrlStart(url) # 0
      <4>1. r'.domain # "youtube"
        <5>1. SUFFICES ASSUME a.domain = "youtube" PROVE FALSE
          BY <2>1
        <5>2. a.exist_range
          BY <2>1, <3>5, <5>1 DEF Fits
        <5>3. QED  BY <1>2, <2>1, <2>3, <5>1, <5>2
      <4>2. QED  BY <3>2, <3>5, <4>1
    <3>6. QED  BY <3>4, <3>5
  <2>4. CASE ~ ByHeader(limits)
    <3>1. range_min' = a.range_min
      BY <2>4 DEF Taken
    <3>2. header.kind = "lower" \/ (header.kind \in {"none", "range"} /\ header.a = 0)
      BY <1>1, <2>4, LimitsAre
    <3>3. header.kind \in {"none", "range"} => Start(header) = 0
      BY <1>1, <3>2, LimitsAre
    <3>4. UrlStart(url) + 0 = UrlStart(url)
      BY StartIsInt
    <3>5. QED  BY <2>2, <3>1, <3>2, <3>3, <3>4
  <2>5. QED  BY <2>3, <2>4
<1>7. RightPlace'
  BY <1>4, <1>6 DEF RightPlace
<1>8. QED  BY <1>3, <1>5, <1>7

LEMMA NothingFound ==
  ASSUME NEW a \in {NoMatch, Dies}
  PROVE  IsResposta(a) /\ a.match = FALSE
<1>1. IsResposta(NoMatch) /\ NoMatch.match = FALSE
  BY DEF NoMatch, Resposta, IsResposta
<1>2. IsResposta(Dies) /\ Dies.match = FALSE
  BY DEF NoMatch, Dies, Resposta, IsResposta
<1>3. QED  BY <1>1, <1>2

LEMMA PluginStep == ASSUME NamingInv, AskPlugin PROVE NamingInv'
<1> DEFINE domain == getdomain(url)
<1>1. /\ pc = "limits" /\ domain \in Installed /\ dominiotxt' = TextsBy(url, dominiotxt)
      /\ UNCHANGED <<site, withgeneral, request>>
  BY DEF AskPlugin
<1>2. PICK answer \in Answers(domain, Text(dominiotxt', domain)) :
        r' = Adjusted(limits, answer) /\ Taken(answer) /\ Name(answer)
  BY DEF AskPlugin
<1>3. url' = url /\ header' = header /\ IsUrl(url) /\ IsHeader(header) /\ limits = LimitBytes(header)
  BY <1>1 DEF request, NamingInv
<1>4. /\ \A d \in Sticky : TextsBy(url, dominiotxt)[d] # "youtube"
      /\ \A d \in Sticky : TextsBy(url, FirstTexts)[d] # "youtube"
  <2>1. \A d \in Sticky : dominiotxt[d] # "youtube" /\ FirstTexts[d] # "youtube"
    BY TextIsNot DEF NamingInv, FirstTexts
  <2>2. QED  BY <2>1, TextIsNot DEF TextsBy
<1>5. PICK text, first : text = Text(dominiotxt', domain) /\ first = Text(TextsBy(url, FirstTexts), domain)
  OBVIOUS
<1>6. text # "youtube" /\ first # "youtube"
  <2>1. CASE domain \in Sticky
    BY <1>1, <1>4, <1>5, <2>1 DEF Text
  <2>2. CASE domain \notin Sticky
    BY <1>5, <2>2 DEF Text
  <2>3. QED  BY <2>1, <2>2
<1>7. domain \notin Sticky => text = first
  BY <1>5 DEF Text
<1>8. \/ answer = hgetmatch2(domain, url, text)
      \/ answer \in {NoMatch, Dies} /\ domain = <<"grandchase", "com", "br">>
  BY <1>5 DEF Answers
<1>9. Fits(url, answer)
  <2>1. CASE answer = hgetmatch2(domain, url, text)
    BY <1>1, <1>3, <1>6, <2>1, PluginsFit
  <2>2. CASE answer \in {NoMatch, Dies} /\ domain = <<"grandchase", "com", "br">>
    <3>1. Deadly(url) /\ Thrown # <<>>
      BY <2>2, OneSeq DEF Deadly, Thrown
    <3>2. IsResposta(answer) /\ answer.match = FALSE
      BY <2>2, NothingFound
    <3>3. QED  BY <3>1, <3>2 DEF Fits
  <2>3. QED  BY <1>8, <2>1, <2>2
<1>10. /\ pc' \in {"named", "dead"}
       /\ pc' = "dead" => answer.file = Thrown
  BY <1>2 DEF Name
<1>11. /\ IsResposta(r)' /\ RightPlace'
       /\ Cached' /\ r'.file = <<>> => r'.domain \in Unnamed
  BY <1>1, <1>2, <1>9, <1>10, AnswerStep
<1>12. Survives'
  BY <1>3, <1>9, <1>10 DEF Survives, Fits
<1>13. Cached' => /\ r'.file = OwnAnswer'.file
                  /\ domain \notin Sticky => r'.domain = OwnAnswer'.domain
  <2>1. OwnAnswer' = Adjusted(limits, hgetmatch2(domain, url, first))
    BY <1>1, <1>3, <1>5 DEF OwnAnswer
  <2>2. CASE answer = hgetmatch2(domain, url, text)
    <3>1. CASE domain \in Sticky
      BY <1>2, <1>6, <2>1, <2>2, <3>1, StickyFile
    <3>2. CASE domain \notin Sticky
      BY <1>2, <1>7, <2>1, <2>2, <3>2
    <3>3. QED  BY <3>1, <3>2
  <2>3. CASE answer \in {NoMatch, Dies}
    <3>1. IsResposta(answer) /\ answer.match = FALSE
      BY <2>3, NothingFound
    <3>2. Adjusted(limits, answer).match => answer.match
      BY <3>1, AdjustedIs
    <3>3. QED  BY <1>2, <3>1, <3>2 DEF Cached
  <2>4. QED  BY <1>8, <2>2, <2>3
<1>14. OwnName'
  BY <1>3, <1>11, <1>13 DEF OwnName
<1>15. QED  BY <1>1, <1>3, <1>4, <1>10, <1>11, <1>12, <1>14 DEF NamingInv

LEMMA NobodyThere == ASSUME NamingInv, NoDomain PROVE NamingInv'
<1>1. /\ pc = "limits" /\ pc' = "dead" /\ getdomain(url) = Nowhere
      /\ url' = url /\ header' = header
      /\ UNCHANGED <<site, dominiotxt, r>>
  BY DEF NoDomain, request
<1>2. Deadly(url)
  BY <1>1 DEF Deadly
<1>3. Survives'
  BY <1>1, <1>2 DEF Survives
<1>4. OwnName' /\ RightPlace'
  BY <1>1 DEF OwnName, RightPlace, Cached
<1>5. IsUrl(url)' /\ IsHeader(header)'
  BY <1>1 DEF NamingInv
<1>6. QED  BY <1>1, <1>3, <1>4, <1>5 DEF NamingInv, IsResposta

LEMMA GeneralStep == ASSUME NamingInv, AskGeneral PROVE NamingInv'
<1>1. PICK answer : answer = generalplugin(url)
  OBVIOUS
<1>2. /\ pc = "limits" /\ getdomain(url) \notin Installed /\ getdomain(url) # Nowhere /\ withgeneral
      /\ r' = answer /\ Name(answer)
      /\ partial => range_min' = range_min
      /\ ~ partial => range_min' = answer.range_min
      /\ UNCHANGED <<site, withgeneral, request, dominiotxt>>
  BY <1>1 DEF AskGeneral, limits
<1>3. url' = url /\ header' = header /\ IsUrl(url) /\ IsHeader(header) /\ limits = LimitBytes(header)
  BY <1>2 DEF request, NamingInv
<1>4. /\ IsResposta(answer) /\ UrlStart(url) = 0 /\ answer.range_min = 0 /\ answer.file # Thrown
      /\ answer.match => answer.file # <<>>
  BY <1>1, <1>2, <1>3, GeneralFits
<1>5. pc' = "named"
  BY <1>2, <1>4 DEF Name
<1>6. OwnName'
  <2>1. OwnAnswer' = answer
    BY <1>1, <1>2, <1>3 DEF OwnAnswer
  <2>2. QED  BY <1>2, <1>4, <2>1 DEF OwnName, Cached
<1>7. RightPlace'
  <2>1. PICK h \in Nat : h = header.a
    BY <1>3, LimitsAre
  <2>2. range_min' = h \/ header.kind = "lower"
    <3>1. CASE partial
      <4>1. limits[1] /\ limits[2] = range_min
        BY <3>1 DEF limits
      <4>2. limits[2] = header.a
        BY <1>3, <4>1, LimitsAre
      <4>3. QED  BY <1>2, <2>1, <3>1, <4>1, <4>2
    <3>2. CASE ~ partial
      <4>1. ~ limits[1]
        BY <3>2 DEF limits
      <4>2. header.kind = "lower" \/ header.a = 0
        BY <1>3, <4>1, LimitsAre
      <4>3. QED  BY <1>2, <1>4, <2>1, <3>2, <4>2
    <3>3. QED  BY <3>1, <3>2
  <2>3. Start(header) = h \/ header.kind = "suffix"
    BY <1>3, <2>1, LimitsAre
  <2>4. 0 + h = h
    OBVIOUS
  <2>5. range_min' = UrlStart(url) + Start(header) \/ header.kind \in {"suffix", "lower"}
    BY <1>4, <2>2, <2>3, <2>4
  <2>6. QED  BY <1>3, <2>5 DEF RightPlace
<1>8. Survives'
  BY <1>5 DEF Survives
<1>9. IsResposta(r)'
  BY <1>2, <1>4 DEF IsResposta
<1>10. QED  BY <1>2, <1>3, <1>5, <1>6, <1>7, <1>8, <1>9 DEF NamingInv

LEMMA NobodyStep == ASSUME NamingInv, AskNobody PROVE NamingInv'
<1>1. /\ pc = "limits" /\ pc' = "named" /\ r' = [r EXCEPT !.match = FALSE]
      /\ url' = url /\ header' = header /\ UNCHANGED <<site, dominiotxt>>
  BY DEF AskNobody, request
<1>2. IsResposta(r') /\ r'.match = FALSE
  <2>1. "match" \in DOMAIN r
    BY DEF NamingInv, IsResposta, NoMatch, Resposta
  <2>2. QED  BY <1>1, <2>1 DEF NamingInv, IsResposta
<1>3. OwnName' /\ RightPlace' /\ Survives'
  BY <1>1, <1>2 DEF OwnName, RightPlace, Survives, Cached
<1>4. IsUrl(url)' /\ IsHeader(header)'
  BY <1>1 DEF NamingInv
<1>5. QED  BY <1>1, <1>2, <1>3, <1>4 DEF NamingInv, IsResposta

LEMMA QuietStep == ASSUME NamingInv, Answered \/ Restart PROVE NamingInv'
<1>1. pc' = "idle" /\ site' = site
  BY DEF Answered, Restart, Fresh
<1>2. IsResposta(r')
  BY DEF Answered, Restart, Fresh, NamingInv, IsResposta
<1>3. \A domain \in Sticky : dominiotxt'[domain] # "youtube"
  <2>1. CASE Answered
    BY <2>1 DEF Answered, NamingInv
  <2>2. CASE Restart
    BY <2>2, TextIsNot DEF Restart, FirstTexts
  <2>3. QED  BY <2>1, <2>2
<1>4. OwnName' /\ RightPlace' /\ Survives'
  BY <1>1 DEF OwnName, RightPlace, Survives, Cached
<1>5. QED  BY <1>1, <1>2, <1>3, <1>4 DEF NamingInv, IsResposta

LEMMA NamingStutters == ASSUME NamingInv, UNCHANGED vars PROVE NamingInv'
<1>1. /\ UNCHANGED <<site, withgeneral, pc, url, header, dominiotxt, r>>
      /\ UNCHANGED <<partial, range_min, range_max>>
  BY DEF vars, request, limits
<1>2. OwnAnswer' = OwnAnswer
  BY <1>1 DEF OwnAnswer
<1>3. OwnName' /\ RightPlace' /\ Survives'
  BY <1>1, <1>2 DEF NamingInv, OwnName, RightPlace, Survives, Cached
<1>4. (IsUrl(url) /\ IsHeader(header))' <=> IsUrl(url) /\ IsHeader(header)
  BY <1>1
<1>5. limits' = limits
  BY <1>1 DEF limits
<1>6. QED  BY <1>1, <1>3, <1>4, <1>5 DEF NamingInv, IsResposta

\* NamingInv holds in every reachable state: for all domains, URLs, headers and
\* sequences of requests, whatever an earlier request of the child left behind.
THEOREM NamingAlways == Spec => []NamingInv
<1>1. Init => NamingInv
  BY NamingInit
<1>2. NamingInv /\ [Next]_vars => NamingInv'
  <2>1. SUFFICES ASSUME NamingInv, [Next]_vars PROVE NamingInv'
    OBVIOUS
  <2>2. CASE \E ask \in Asks(site) : getLimitBytes(ask[1], ask[2])
    BY <2>1, <2>2, HeaderStep
  <2>3. CASE NoDomain
    BY <2>1, <2>3, NobodyThere
  <2>4. CASE AskPlugin
    BY <2>1, <2>4, PluginStep
  <2>5. CASE AskGeneral
    BY <2>1, <2>5, GeneralStep
  <2>6. CASE AskNobody
    BY <2>1, <2>6, NobodyStep
  <2>7. CASE Answered \/ Restart
    BY <2>1, <2>7, QuietStep
  <2>8. CASE UNCHANGED vars
    BY <2>1, <2>8, NamingStutters
  <2>9. QED  BY <2>1, <2>2, <2>3, <2>4, <2>5, <2>6, <2>7, <2>8 DEF Next
<1>3. QED  BY <1>1, <1>2, PTL DEF Spec

\* The name under which an answer is cached is the one that a child would give
\* which had just been started, whatever this one was asked before; a match
\* without a name comes only from the plugins that are known for it
\* (connectiontohttp2.cpp:424, 454, 500).
THEOREM NamesAreOwn == Spec => []OwnName
<1>1. NamingInv => OwnName
  BY DEF NamingInv
<1>2. QED  BY <1>1, NamingAlways, PTL

\* The first byte of what a server sends is cached at the place in the file at
\* which the URL and the Range header asked for it, but for the known exceptions
\* (connectiontohttp2.cpp:69-84, 466-478).
THEOREM PlacesAreRight == Spec => []RightPlace
<1>1. NamingInv => RightPlace
  BY DEF NamingInv
<1>2. QED  BY <1>1, NamingAlways, PTL

\* No other URL than the deadly ones makes a plugin throw, in any of the 109
\* libraries (at() behind stringexplode() in the plugins, and utils.cpp:553).
THEOREM OnlyDeadlyKill == Spec => []Survives
<1>1. NamingInv => Survives
  BY DEF NamingInv
<1>2. QED  BY <1>1, NamingAlways, PTL

=============================================================================
