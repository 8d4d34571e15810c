------------------------------ MODULE MCNaming ------------------------------
(***************************************************************************)
(* Naming with URLs of every domain that has a plugin, and of three that   *)
(* have none.  A URL of a domain is one of its shapes with one of the      *)
(* queries and one or two of the marks that the plugin looks for.          *)
(***************************************************************************)
EXTENDS Naming

NoPlugin == {<<"example", "org">>, <<"t", "co">>, <<"v10_0">>}
MCVisited == (Installed \X {TRUE}) \cup (NoPlugin \X BOOLEAN)

Headers ==
  {NoHeader,
   [kind |-> "range", a |-> 2, b |-> 3], [kind |-> "range", a |-> 0, b |-> 0],
   [kind |-> "open", a |-> 2, b |-> 0], [kind |-> "suffix", a |-> 2, b |-> 0],
   [kind |-> "lower", a |-> 2, b |-> 3]}

Hosts(domain) ==
  CASE domain = <<"youtube", "com">> -> {<<"v74_125">>, <<"www", "youtube", "com">>}
    [] domain = <<"netflix", "com">> -> {<<"v198_38">>, <<"www", "netflix", "com">>}
    [] domain = <<"mediafire", "com">> -> {<<"v205_196">>}
    [] domain = <<"v10_0">> -> {<<"v10_0">>}
    [] domain \in Seekers -> {<<"www">> \o domain}
    [] OTHER -> {domain, <<"www">> \o domain}

Long == <<"1", "2", "3", "4", "5", "6", "7", "8", "9", "p">>

Paths(domain) ==
  CASE domain = <<"youtube", "com">> ->
         {<<"videoplayback">>,
          <<"videoplayback", "id", "v", "itag", "22", "clen", "2", "range", "2-3">>,
          <<"videoplayback", "id", "v", "itag", "22", "range", "2-3">>}
    [] domain = <<"netflix", "com">> -> {<<"range", "2-3">>, <<"range", "0-3">>, <<"range", "p">>}
    [] domain = <<"steampowered", "com">> ->
         {<<"p">>, <<"depot", "1", "chunk", "p">>, <<"depot", "chunk", "p">>, <<"chunk", "p">>}
    [] domain = <<"dailymotion", "com">> -> {<<"p">>, <<"sec(x)", "frag(1)", "p">>, <<"frag(2)", "p">>}
    [] domain = <<"riotgames", "com">> -> {<<"q", "p">>, <<"q", "1.2.3", "p">>}
    [] domain = <<"fbcdn", "net">> -> {<<>>, <<"p">>, <<"s720x720", "p">>}
    [] domain \in {<<"porntube", "com">>, <<"bitdefender", "com">>, <<"blogspot", "com">>} ->
         {<<"p">>, <<"q", "p">>, Long}
    [] OTHER -> {<<>>, <<"p">>, <<"q", "p">>, <<"q", "r", "p">>}

Queries(domain) ==
  {<<>>, <<<<"x", "3">>>>} \cup
  CASE domain = <<"youtube", "com">> ->
         {<<<<"id", "v">>, <<"itag", "34">>>>, <<<<"id", "v">>, <<"range", "2-3">>, <<"mime", "-vid">>>>,
          <<<<"id", "v">>, <<"range", "2-3">>, <<"clen", "3">>>>, <<<<"id", "v">>, <<"range", "x">>>>,
          <<<<"watchid", "w">>, <<"id", "v">>, <<"cm2", "0">>>>, <<<<"v", "w">>>>}
    [] domain = <<"netflix", "com">> -> {<<<<"o", "3">>, <<"watchid", "w">>>>}
    [] domain = <<"live", "com">> -> {<<<<"q", "x">>>>, <<<<"q", "">>>>}
    [] domain = <<"ytimg", "com">> -> {<<<<"sigh", "x">>>>}
    [] domain = <<"doubleclick", "net">> -> {<<<<"ad_type", "video">>>>}
    [] domain \in Seekers ->
         {<<<<SeekArg(domain), "2">>>>, <<<<"x", "3">>, <<SeekArg(domain), "2">>>>,
          <<<<"x", "3">>, <<SeekArg(domain), "0">>>>}
    [] OTHER -> {}

Marks(domain) ==
  CASE domain = <<"youtube", "com">> -> {{"/videoplayback?"}, {"/videoplayback/", "/mime/video"}, {".com/watch?"}, {"/videoplayback?", "begin"}}
    [] domain = <<"netflix", "com">> -> {{"/range/"}, {"/watch/"}, {"wwwplayer"}}
    [] domain = <<"4shared", "com">> -> {{".com/download/"}, {".com/img/", "_2Fdownload_2F", "_3Ftsid_"}, {"preview"}}
    [] domain = <<"live", "com">> -> {{"/search"}}
    [] domain = <<"rad", "msn", "com">> -> {{"ADSAdClient31.dll"}}
    [] domain = <<"fwmrm", "net">> -> {{"fwmrm.net/ad/p/1"}}
    [] domain = <<"doubleclick", "net">> -> {{"/pfadx/", "/main.*;"}, {"www.youtube.com"}}
    [] domain = <<"akamaihd", "net">> -> {{"/farm2/"}, {"/d3/"}, {"/wow/", "/d3/"}}
    [] domain = <<"socialpointgames", "com">> -> {{".swf"}, {".jpg", "/dragoncity/"}, {"/socialwars/"}}
    [] domain = <<"zgncdn", "com">> -> {{".swf"}, {".jpg", "/city/"}, {"castle"}, {".mp3", "/farm/", "/hidden/"}}
    [] domain = <<"submanga", "com">> -> {{"/pages/"}, {"/hdpages/"}}
    [] domain = <<"ytimg", "com">> -> {{"hqdefault.jpg"}, {"mqdefault.jpg"}}
    [] domain = <<"edgesuite", "net">> -> {{"blizzard.com.edgesuite.net"}, {"worldofwarcraft.com.edgesuite.net"}}
    [] domain = <<"porntube", "com">> -> {{"videos"}}
    [] domain = <<"bitdefender", "net">> -> {{"more than 70 characters"}}
    [] domain = <<"avast", "com">> -> {{".vpu"}, {".vpu", "servers.def.vpu"}}
    [] domain = <<"avgate", "net">> -> {{".gz"}, {".gz", "vdf.info.gz"}}
    [] domain = <<"nai", "com">> -> {{".zip"}, {".zip", "engmin.zip"}}
    [] domain = <<"microsoft", "com">> -> {{".asp"}}
    [] domain = <<"metacafe", "com">> -> {{"akvideos.", "ItemFiles"}}
    [] domain = <<"grandchase", "com", "br">> -> {{"fpatch.", ".kom"}}
    [] domain = <<"juegosjuegos", "com">> -> {{"/games", ".swf"}}
    [] domain = <<"netdna", "com">> -> {{"/vod/", ".mp4"}}
    [] domain = <<"ziddu", "com">> -> {{"downloads.ziddu.com/downloadfiles"}}
    [] domain = <<"fbcdn", "net">> -> {{".mp4"}, {".1.2."}}
    [] domain = <<"video", "msn", "com">> -> {{"share"}}
    [] domain = <<"sonicomusica", "com">> -> {{".jpg"}, {".sm3", ".jpg"}}
    [] domain = <<"5min", "com">> -> {{"time"}}
    [] domain = <<"kaspersky", "com">> -> {{".avc"}, {"/diffs/"}}
    [] domain \in Seekers \ {<<"4shared", "com">>, <<"porntube", "com">>} -> {{".flv"}, {".mp4"}, {".jpg"}}
    [] domain \in {<<"example", "org">>, <<"v10_0">>} -> {{"extension"}, {"/youku/"}, {"/speedtest/random.jpg"}}
    [] OTHER -> {{".jpg"}, {".mp3"}, {".flv"}, {".swf"}, {".mp4"}, {".exe"}}

\* What is looked for in the path is there.
Coherent(u) ==
  /\ "/videoplayback?" \in u.has => u.path = <<"videoplayback">> /\ u.mark
  /\ "/videoplayback/" \in u.has => Len(u.path) > 1
  /\ "/range/" \in u.has => u.path[1] = "range"

NoQuery == [mark |-> FALSE, args |-> <<>>]

UrlsOf(domain) ==
  {u \in {[host |-> host, path |-> path, mark |-> query.mark, query |-> query.args, has |-> has] :
            host \in Hosts(domain), path \in Paths(domain),
            query \in {NoQuery} \cup {[mark |-> TRUE, args |-> q] : q \in Queries(domain)},
            has \in {{}} \cup Marks(domain)} :
     Coherent(u)}

\* What becomes of the header depends on the plugin in YouTube only, and on the
\* start that a URL may have; elsewhere two headers are enough.
HeadersFor(domain) ==
  CASE domain \in NoPlugin \cup {<<"youtube", "com">>, <<"netflix", "com">>} -> Headers
    [] domain \in Seekers -> {h \in Headers : h.kind # "lower" /\ <<h.a, h.b>> # <<0, 0>>} \cup {NoHeader}
    [] OTHER -> {h \in Headers : h = NoHeader \/ h.b = 3}

MCAsks(domain) == UrlsOf(domain) \X HeadersFor(domain)

=============================================================================
