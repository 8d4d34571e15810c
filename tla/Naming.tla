------------------------------- MODULE Naming -------------------------------
(***************************************************************************)
(* How a child names what it caches: ConnectionToHTTP2::getLimitBytes(),   *)
(* which reads the browser's Range header, and the first part of Cache(),  *)
(* which asks the plugin of the URL's domain, or the general plugin, and   *)
(* puts the two ranges together.                                           *)
(*                                                                         *)
(* A child is asked for one URL after another.  Between two requests it    *)
(* keeps `r`, the answer of the last plugin, and the global variables of   *)
(* the libraries it has loaded, which dlopen() does not load again.  An    *)
(* exception that nobody catches ends it, and the parent starts another.   *)
(***************************************************************************)
EXTENDS Plugins

CONSTANTS
  Visited,        \* <<domain, whether there is a general plugin>>, one for each behaviour
  Asks(_),        \* the requests for a domain: <<URL, Range header>>
  SIZE            \* the size of the files

VARIABLES
  site,            \* the domain that is visited
  withgeneral,     \* is generalplugin.so there?
  pc,              \* "idle", "limits", "named" or "dead"
  url, header,     \* the request
  dominiotxt,      \* the global variable of each library that has one
  r,               \* the resposta of the last plugin
  partial, range_min, range_max,
  isgeneralplugin  \* the file is cached without its lock

request == <<url, header>>
limits == <<partial, range_min, range_max>>
vars == <<site, withgeneral, pc, request, dominiotxt, r, limits, isgeneralplugin>>

(***************************************************************************)
(* Range headers: none; a-b; a-; 0-0; -n, the last n bytes; and a-b with   *)
(* the name of the header in another case.  Start(h) is the byte with      *)
(* which a server's answer begins.                                         *)
(***************************************************************************)

Start(h) == IF h.kind = "suffix" THEN SIZE - h.a ELSE h.a

NoUrl == [host |-> <<>>, path |-> <<>>, mark |-> FALSE, query |-> <<>>, has |-> {}]
NoHeader == [kind |-> "none", a |-> 0, b |-> 0]

\* What is found in a path is there, no part of it has a slash and no value of an
\* argument an ampersand, and there are arguments only behind a "?".
IsUrl(u) ==
  /\ u.host \in Seq(STRING) /\ u.host # <<>>
  /\ u.path \in Seq(STRING \ {"/&"}) /\ u.mark \in BOOLEAN /\ u.has \subseteq STRING
  /\ u.query \in Seq(STRING \X (STRING \ {"/&"})) /\ (u.query # <<>> => u.mark)
  /\ "/videoplayback?" \in u.has =>
       u.mark /\ u.path # <<>> /\ Last(u.path) = "videoplayback"

IsHeader(h) ==
  /\ h.kind \in {"none", "range", "open", "suffix", "lower"}
  /\ h.a \in 0 .. SIZE /\ h.b \in 0 .. SIZE
  /\ h.kind = "none" => h.a = 0
  /\ h.kind = "range" => h.a <= h.b

ASSUME NamingAssumption ==
  /\ SIZE \in Nat
  /\ \A visit \in Visited : visit[2] \in BOOLEAN
  /\ \A visit \in Visited : \A ask \in Asks(visit[1]) : IsUrl(ask[1]) /\ IsHeader(ask[2])

FirstTexts == [domain \in Sticky |-> dominiotxtAtStart(domain)]
TextsBy(u, before) ==
  [domain \in Sticky |-> IF domain = getdomain(u) THEN dominiotxtFor(domain, u, before[domain])
                         ELSE before[domain]]
Text(texts, domain) == IF domain \in Sticky THEN texts[domain] ELSE ""

(***************************************************************************)
(* getLimitBytes(): "Range: bytes=" is looked for as it is written here.   *)
(* The value is cut at the "-", and empty parts are lost: "-n" reads as    *)
(* "n-".                                                                   *)
(***************************************************************************)

LimitBytes(h) ==
  CASE h.kind = "range" -> <<TRUE, h.a, h.b>>
    [] h.kind \in {"open", "suffix"} -> <<TRUE, h.a, -1>>
    [] OTHER -> <<FALSE, 0, 0>>

getLimitBytes(u, h) ==
  /\ pc = "idle"
  /\ url' = u /\ header' = h
  /\ LET l == LimitBytes(h)
     IN  partial' = l[1] /\ range_min' = l[2] /\ range_max' = l[3]
  /\ pc' = "limits"
  /\ UNCHANGED <<site, withgeneral, dominiotxt, r, isgeneralplugin>>

(***************************************************************************)
(* Cache(), up to the lock of the file.                                    *)
(***************************************************************************)

ByHeader(l) == l[1] /\ l[3] # 0     \* partial and range_max

Prefixed(file) == IF file = <<>> THEN <<>> ELSE <<"206-", file>>
AsWebm(file) ==
  IF file # <<>> /\ Last(file) = ".flv" THEN Append(Front(file), ".webm") ELSE file

\* Mutant: a YouTube URL with its own range is cached by the header's.
AdjustedAlways(l, answer) ==
  IF ByHeader(l) THEN [answer EXCEPT !.file = Prefixed(AsWebm(answer.file))] ELSE answer

\* What a plugin says, when the Range header counts and when it does not.
Adjusted(l, answer) ==
  CASE ~ ByHeader(l) -> answer
    [] ByHeader(l) /\ answer.domain = "youtube" /\ answer.exist_range ->
         [answer EXCEPT !.match = FALSE]
    [] ByHeader(l) /\ answer.domain = "youtube" /\ ~ answer.exist_range ->
         [answer EXCEPT !.file = Prefixed(AsWebm(answer.file))]
    [] OTHER -> [answer EXCEPT !.file = Prefixed(answer.file)]

\* hgetmatch2() of grandchase.com.br returns nothing: the caller reads what is
\* in the place of the result, which may be no string at all.
Answers(domain, text) ==
  {hgetmatch2(domain, url, text)}
    \cup (IF domain = <<"grandchase", "com", "br">> THEN {NoMatch, Dies} ELSE {})

Taken(answer) ==
  IF ByHeader(limits) THEN UNCHANGED limits
  ELSE /\ range_min' = answer.range_min /\ range_max' = answer.range_max
       /\ UNCHANGED partial

Name(answer) == IF answer.file = Thrown THEN pc' = "dead" ELSE pc' = "named"

\* The host has two short labels and no third: getdomain() throws.
NoDomain ==
  /\ pc = "limits" /\ getdomain(url) = Nowhere
  /\ pc' = "dead"
  /\ UNCHANGED <<site, withgeneral, request, dominiotxt, r, limits, isgeneralplugin>>

AskPlugin ==
  /\ pc = "limits" /\ getdomain(url) \in Installed
  /\ dominiotxt' = TextsBy(url, dominiotxt)
  /\ \E answer \in Answers(getdomain(url), Text(dominiotxt', getdomain(url))) :
       /\ r' = Adjusted(limits, answer) /\ Taken(answer) /\ Name(answer)
  /\ isgeneralplugin' = FALSE
  /\ UNCHANGED <<site, withgeneral, request>>

AskGeneral ==
  /\ pc = "limits" /\ getdomain(url) \notin Installed \cup {Nowhere} /\ withgeneral
  /\ LET answer == generalplugin(url)
     IN  /\ r' = answer /\ Name(answer)
         /\ IF partial THEN UNCHANGED limits
            ELSE /\ range_min' = answer.range_min /\ range_max' = answer.range_max
                 /\ UNCHANGED partial
  /\ isgeneralplugin' = ~ partial
  /\ UNCHANGED <<site, withgeneral, request, dominiotxt>>

\* Mutant: the answer of the last plugin still counts.
AskNobodyKept ==
  /\ pc = "limits" /\ getdomain(url) \notin Installed \cup {Nowhere} /\ ~ withgeneral
  /\ isgeneralplugin' = FALSE /\ pc' = "named"
  /\ UNCHANGED <<site, withgeneral, request, dominiotxt, r, limits>>

AskNobody ==
  /\ pc = "limits" /\ getdomain(url) \notin Installed \cup {Nowhere} /\ ~ withgeneral
  /\ r' = [r EXCEPT !.match = FALSE]
  /\ isgeneralplugin' = FALSE /\ pc' = "named"
  /\ UNCHANGED <<site, withgeneral, request, dominiotxt, limits>>

\* The request is answered, one way or the other.  What getLimitBytes() sets
\* before anybody reads it again is cleared here; `r` stays.
Answered ==
  /\ pc = "named" /\ pc' = "idle"
  /\ url' = NoUrl /\ header' = NoHeader
  /\ partial' = FALSE /\ range_min' = 0 /\ range_max' = 0 /\ isgeneralplugin' = FALSE
  /\ UNCHANGED <<site, withgeneral, dominiotxt, r>>

Fresh ==
  /\ pc' = "idle" /\ url' = NoUrl /\ header' = NoHeader
  /\ r' = NoMatch /\ partial' = FALSE /\ range_min' = 0 /\ range_max' = 0
  /\ isgeneralplugin' = FALSE

\* The child is gone; another one has loaded nothing yet.
Restart ==
  /\ pc = "dead" /\ Fresh
  /\ dominiotxt' = FirstTexts
  /\ UNCHANGED <<site, withgeneral>>

Init ==
  /\ \E visit \in Visited : site = visit[1] /\ withgeneral = visit[2]
  /\ pc = "idle" /\ url = NoUrl /\ header = NoHeader
  /\ dominiotxt = FirstTexts
  /\ r = NoMatch /\ partial = FALSE /\ range_min = 0 /\ range_max = 0
  /\ isgeneralplugin = FALSE

Next ==
  \/ \E ask \in Asks(site) : getLimitBytes(ask[1], ask[2])
  \/ NoDomain \/ AskPlugin \/ AskGeneral \/ AskNobody
  \/ Answered \/ Restart

Spec == Init /\ [][Next]_vars

(***************************************************************************)
(* Properties.                                                             *)
(***************************************************************************)

Cached == pc = "named" /\ r.match

\* What the plugin would answer in a child that has just been started.
OwnAnswer ==
  LET domain == getdomain(url)
  IN  CASE domain \in Installed ->
             Adjusted(LimitBytes(header), hgetmatch2(domain, url, Text(TextsBy(url, FirstTexts), domain)))
        [] domain \notin Installed /\ withgeneral -> generalplugin(url)
        [] OTHER -> NoMatch

\* Plugins that match without having found a name.
Unnamed == {"edgesuite", "worldofwarcraft", "blizzard", "lol", "steampowered"}

\* What is cached for a URL has a name, and the name depends on the request alone:
\* nothing that the child did before is in it (connectiontohttp2.cpp:424, 454,
\* 500), except in the three libraries with a global variable.  Three plugins
\* match with an empty name, under which all such URLs of theirs are one file.
OwnName ==
  Cached =>
    /\ r.file = OwnAnswer.file
    /\ getdomain(url) \notin Sticky => r.domain = OwnAnswer.domain
    /\ r.file = <<>> => r.domain \in Unnamed

(***************************************************************************)
(* The byte with which the answer to a URL begins.  How players ask for    *)
(* the rest of a video is known from the plugins, which look for it.       *)
(***************************************************************************)

SeekArg(domain) ==
  CASE domain \in {<<"xtube", "com">>, <<"xvideos", "com">>} -> "fs"
    [] domain = <<"rncdn3", "com">> -> "ms"
    [] OTHER -> "start"

Seekers == {<<"4shared", "com">>, <<"justin", "tv">>, <<"xtube", "com">>, <<"xvideos", "com">>,
            <<"vimeo", "com">>, <<"rncdn3", "com">>, <<"redtubefiles", "com">>, <<"phncdn", "com">>,
            <<"porntube", "com">>, <<"globo", "com">>}

UrlStart(u) ==
  LET domain == getdomain(u)
      last == IF u.path = <<>> THEN "" ELSE Last(u.path)
      at == IF last \in DOMAIN Intervals THEN last ELSE Arg(u, "range")
  IN  CASE domain \in Seekers -> atoll(Arg(u, SeekArg(domain)))
        [] domain \in {<<"youtube", "com">>, <<"netflix", "com">>} /\ at \in DOMAIN Intervals ->
             Intervals[at][1]
        [] OTHER -> 0

\* The first byte of an answer is cached at its place in the file, except that
\*  - "bytes=-n" is taken for "from n on", and a range header in another case is
\*    sent on unseen (connectiontohttp2.cpp:69-84);
\*  - of a URL with its own start and a Range header, only the header counts
\*    (connectiontohttp2.cpp:475-478), except for YouTube (466-474);
\*  - fs= is not seen when it is the first argument (xtube, xvideos).
RightPlace ==
  Cached /\ r.domain # "rewrite" =>
    \/ range_min = UrlStart(url) + Start(header)
    \/ header.kind \in {"suffix", "lower"}
    \/ header.kind # "none" /\ UrlStart(url) # 0 /\ r.domain # "youtube"
    \/ Args(url, "fs") # {} /\ LaterArg(url, "fs") = ""

\* How many parts of the URL a plugin takes from its end without asking.
Counted(domain) ==
  CASE domain = <<"porntube", "com">> -> 11
    [] domain \in {<<"akamaihd", "net">>, <<"photobucket", "com">>, <<"phncdn", "com">>,
                   <<"avira-update", "com">>} -> 4
    [] domain = <<"submanga", "com">> -> 3
    [] domain \in {<<"fbcdn", "net">>, <<"ytimg", "com">>, <<"speedtest", "net">>} -> 2
    [] OTHER -> 1

\* The URLs that end the child.
Deadly(u) ==
  LET domain == getdomain(u)
  IN  \/ domain = Nowhere
      \/ Bare(u)
      \/ Len(Parts(u)) < Counted(domain)
      \/ domain = <<"live", "com">> /\ Args(u, "q") # {} /\ Asked(u) = ""
      \/ domain = <<"netflix", "com">> /\ Has(u, {"/range/"})
           /\ (NoMark(u) \/ Last(Parts(u)) \notin DOMAIN Intervals)
      \/ domain = <<"grandchase", "com", "br">>

\* A URL ends the child that is asked for it only when two short labels are all
\* its host has (utils.cpp:553), when it ends with the "?" that a plugin cuts at,
\* when it has fewer parts than the plugin takes, or an argument without the value
\* that the plugin takes; and in the plugin that returns nothing.
Survives == pc = "dead" => Deadly(url)

=============================================================================
