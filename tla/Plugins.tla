------------------------------ MODULE Plugins ------------------------------
(***************************************************************************)
(* The plugins of HaarpCache: functions from a URL to the domain and the   *)
(* file name under which its answer is cached, and to the first byte that  *)
(* the URL asks for.  Every plugin is one operator, named after its source *)
(* file.                                                                   *)
(*                                                                         *)
(* A URL is a record: `host`, its labels; `path`, its segments; `mark`,    *)
(* whether there is a "?", `query`, the arguments behind it, pairs of name *)
(* and value; `has`, the marks that url.find() looks for and finds in the  *)
(* path.  A mark that begins with a dot and the plugin's own domain asks   *)
(* for a host with more labels: Sub(url).                                  *)
(*                                                                         *)
(* A file name is the sequence of the parts that the code joins.           *)
(***************************************************************************)
EXTENDS Integers, Sequences, SequencesExt, FiniteSetsExt

(***************************************************************************)
(* Hosts.  getdomain() takes two labels of a host, or three when the last  *)
(* two are short (three characters at most).  Of "host/" the slash is left *)
(* at the last label: the root of a site belongs to no plugin.             *)
(***************************************************************************)

Shorter == {"br", "us", "tv", "pl", "me", "ca", "r7", "t", "co"}
Slashed(label) == label \o "/"
Short == {"com", "net", "org", "biz", "www", "nai", "avg", "msn", "vsh", "rad"}
           \cup Shorter \cup {Slashed(label) : label \in Shorter}

\* Addresses, and paths on any host, that stand for a domain.
Numeric == [v74_125 |-> <<"youtube", "com">>, v205_196 |-> <<"mediafire", "com">>,
            v198_38 |-> <<"netflix", "com">>, v10_0 |-> <<"10", "0", "0", "1">>]

Nowhere == <<>>          \* resultado.at(-1): out_of_range

LastLabels(host, n) == IF Len(host) < n THEN Nowhere ELSE SubSeq(host, Len(host) - n + 1, Len(host))

RootOnly(url) == url.path = <<>> /\ ~ url.mark
Labels(url) == IF RootOnly(url) THEN Append(Front(url.host), Slashed(Last(url.host))) ELSE url.host

getdomain(url) ==
  LET labels == Labels(url)
      size == Len(labels)
  IN  IF "/speedtest/random.jpg" \in url.has THEN <<"speedtest", "net">>
      ELSE IF "/youku/" \in url.has THEN <<"youku", "com">>
      ELSE
      CASE size = 1 /\ url.host[1] \in DOMAIN Numeric -> Numeric[url.host[1]]
        [] size = 1 /\ url.host[1] \notin DOMAIN Numeric -> labels
        [] size > 1 /\ labels[size] \in Short /\ labels[size - 1] \in Short \ {"avg"} ->
             LastLabels(labels, 3)
        [] OTHER -> LastLabels(labels, 2)

Sub(url) == Len(url.host) > Len(getdomain(url))

(***************************************************************************)
(* Pieces of a URL, as stringexplode() gives them: without empty parts.    *)
(***************************************************************************)

Parts(url) == <<"host">> \o url.path                 \* up to the "?"
QueryText(url) == IF url.mark THEN <<"?", url.query>> ELSE <<>>
Bare(url) == url.mark /\ url.query = <<>>            \* nothing behind the "?"
Has(url, marks) == url.has \cap marks # {}

\* resultado.at() out of range: the exception ends the process.  Paths are cut at
\* the slashes and arguments at the ampersands, so that no name is this one.
Thrown == <<"/&">>

LastParts(url, n) ==
  LET parts == Parts(url)
  IN  IF Len(parts) < n THEN Thrown ELSE SubSeq(parts, Len(parts) - n + 1, Len(parts))
PartFromEnd(url, n) == IF Len(Parts(url)) < n THEN Thrown ELSE <<Parts(url)[Len(Parts(url)) - n + 1]>>

\* The last part with the query, where a plugin does not cut at the "?".
LastPartWithQuery(url) == LastParts(url, 1) \o QueryText(url)

Args(url, name) == {i \in DOMAIN url.query : url.query[i][1] = name}
LastOfArgs(url, args) == IF args = {} THEN "" ELSE url.query[Max(args)][2]
Arg(url, name) == LastOfArgs(url, Args(url, name))

Numbers == [n \in {"", "0", "2", "3"} |-> CASE n = "2" -> 2 [] n = "3" -> 3 [] OTHER -> 0]
atoll(text) == IF text \in DOMAIN Numbers THEN Numbers[text] ELSE 0
Intervals == [n \in {"0-3", "2-3"} |-> IF n = "0-3" THEN <<0, 3>> ELSE <<2, 3>>]

(***************************************************************************)
(* struct resposta, as far as it is set.                                   *)
(***************************************************************************)

Resposta(match, domain, file, a, b, exist_range) ==
  [match |-> match, domain |-> domain, file |-> file,
   range_min |-> a, range_max |-> b, exist_range |-> exist_range]

NoMatch == Resposta(FALSE, "", <<>>, 0, 0, FALSE)
Dies == Resposta(FALSE, "", Thrown, 0, 0, FALSE)

\* Nearly every hgetmatch2(): a condition, a name, a match if it is not empty.
GiveAt(condition, domain, file, a, b) ==
  CASE ~ condition -> NoMatch
    [] condition /\ file = Thrown -> Dies
    [] condition /\ file = <<>> -> NoMatch
    [] OTHER -> Resposta(TRUE, domain, file, a, b, FALSE)
Give(condition, domain, file) == GiveAt(condition, domain, file, 0, 0)

\* A match even when the name is empty.
GiveAny(condition, domain, file) ==
  CASE ~ condition -> NoMatch
    [] condition /\ file = Thrown -> Dies
    [] OTHER -> Resposta(TRUE, domain, file, 0, 0, FALSE)

Rewrite(condition, to) == Give(condition, "rewrite", to)

\* get_filename() of most plugins: the last part before the "?".
get_filename(url) == IF Bare(url) THEN Thrown ELSE LastParts(url, 1)
\* That of others: the last four, joined.
get_filename4(url) == IF Bare(url) THEN Thrown ELSE LastParts(url, 4)
\* get_videoid() of some plugins.
get_videoid(url) == LastPartWithQuery(url)
NoMark(url) == ~ url.mark

(***************************************************************************)
(* Plugins that name the file after the last part, under a condition.  Of  *)
(* those that mean "the host and one of the extensions", nine lack the     *)
(* parentheses: `and` binds stronger than `or`.                            *)
(***************************************************************************)

amazonaws_com(url) ==
  Give(Sub(url) /\ Has(url, {".jpg", ".png", ".gif", ".swf", ".mp3"}),
       "GAMESF_amazonaws", get_filename(url))

appspot_com(url) == Give(Sub(url), "GAMESF_appspot", get_filename(url))

avast_com(url) ==
  Give(Sub(url) /\ Has(url, {".vpu", ".smtap"}) /\ ~ Has(url, {"servers.def.vpu"}),
       "avast", get_filename(url))

avg_com(url) == Give(Has(url, {".exe", ".bin"}), "avg", get_filename(url))

avgate_net(url) ==
  Give(Sub(url) /\ Has(url, {".gz", ".zip", ".exe"}) /\ ~ Has(url, {"vdf.info.gz"}),
       "avgate", get_filename(url))

bomusica_biz(url) == Give(TRUE, "bomusica.biz", get_filename(url))

bomusica_info(url) == Give(TRUE, "bomusica.info", get_filename(url))

bomusicas_com(url) == Give(TRUE, "bomusicas.com", get_filename(url))

bullafina_biz(url) == Give(TRUE, "bullafina.biz", get_filename(url))

bullafina_me(url) == Give(TRUE, "bullafina.me", get_filename(url))

cloudfront_net(url) ==
  Give((Sub(url) /\ Has(url, {".jpg"})) \/ Has(url, {".png", ".swf", ".mp3"}),
       "GAMESF_cloudfront", get_filename(url))

coqui_net(url) == Give(Sub(url) /\ Has(url, {".mp3"}), "coqui", get_filename(url))

cutmu_net(url) == Give(TRUE, "cutmu.biz", get_filename(url))

disneylatino_com(url) ==
  Give((Sub(url) /\ Has(url, {".jpg"})) \/ Has(url, {".swf", ".gif"}),
       "DISNEY", get_filename(url))

domusica_me(url) == Give(TRUE, "domusica.me", get_filename(url))

domusicas_com(url) == Give(TRUE, "domusica.com", get_filename(url))

dungeonbusters_com(url) ==
  Give((Sub(url) /\ Has(url, {".jpg"})) \/ Has(url, {".png", ".swf", ".mp3"}),
       "GAMESF_dungeonbusters", get_filename(url))

etrustdownloads_ca_com(url) ==
  Give(Has(url, {".pkg", ".exe", ".zip", ".tar"}),
       "etrust", get_filename(url))

fivemin_com(url) == Give(~ Has(url, {"time"}), "aol", get_filename(url))

friv_com(url) == Give(TRUE, "FrivIntro", get_filename(url))

geewa_net(url) == Give(Sub(url), "GAMESF_geewa", get_filename(url))

globo_com(url) == Give(Args(url, "start") = {}, "globo", get_filename(url))

goobeo_com(url) == Give(TRUE, "goobeo.com", get_filename(url))

gooveo_biz(url) == Give(TRUE, "gooveo.biz", get_filename(url))

gooveo_info(url) == Give(TRUE, "gooveo.info", get_filename(url))

gooveo_me(url) == Give(TRUE, "gooveo.me", get_filename(url))

hulkshare_com(url) == Give(Sub(url) /\ Has(url, {".mp3"}), "hulkshare", get_filename(url))

juegosdiarios_com(url) ==
  Give(Sub(url) /\ Has(url, {".swf"}) /\ NoMark(url),
       "juegosdiarios", get_videoid(url))

juegosjuegos_com(url) ==
  Give(Sub(url) /\ Has(url, {"/games"}) /\ Has(url, {".swf"}) /\ NoMark(url),
       "juegosjuegos", get_videoid(url))

kaspersky_com(url) ==
  Give(Has(url, {".bz2", "/diffs/", ".avc", ".kdc", ".klz", ".dif", ".dat", ".exe",
                 ".kdz", ".kdl", ".kfb"}),
       "kaspersky", get_filename(url))

kixeye_com(url) ==
  Give((Sub(url) /\ Has(url, {".jpg"})) \/ Has(url, {".png", ".swf", ".mp3"}),
       "GAMESF_kixeye", get_filename(url))

llnwd_net(url) == Give(Sub(url), "GAMESF_llnwd", get_filename(url))

maguinamotors_com(url) ==
  Give(Sub(url) /\ Has(url, {".mp3"}),
       "maguinamotors", get_filename(url))

manabar_ca(url) == Give(Has(url, {".mp3"}), "manabar", get_filename(url))

metacafe_com(url) ==
  Give(Has(url, {"akvideos."}) /\ Has(url, {"ItemFiles"}),
       "metacafe", get_filename(url))

microsoft_com(url) ==
  Give(NoMark(url) /\ ~ Has(url, {"wuredir.cab", ".asp"}),
       "windowsupdate", get_videoid(url))

miniclip_com(url) ==
  Give((Sub(url) /\ Has(url, {".jpg"})) \/ Has(url, {".png", ".swf", ".mp3"}),
       "GAMESF_miniclip", get_filename(url))

mlstatic_com(url) ==
  Give(Sub(url) /\ Has(url, {".jpg", ".png"}),
       "mercadolibre_img", get_videoid(url))

modovideo_com(url) ==
  Give(Has(url, {".flv"}) \/ ~ Has(url, {".mp4"}),
       "modovideo", get_filename(url))

molenillo_com(url) == Give(Has(url, {".mp3"}), "molenillo", get_filename(url))

mp3_buscador_com(url) ==
  Give(Sub(url) /\ Has(url, {".mp3"}),
       "mp3-buscador", get_filename(url))

musicaveo_biz(url) == Give(TRUE, "musicaveo.biz", get_filename(url))

musicaveo_info(url) == Give(TRUE, "musicaveo.info", get_filename(url))

nai_com(url) ==
  Give(Sub(url) /\ Has(url, {".zip", ".exe", ".gem", ".tar"}) /\ ~ Has(url, {"engmin.zip"}),
       "nai", get_filename(url))

netdna_com(url) ==
  Give(Sub(url) /\ Has(url, {"/vod/"}) /\ Has(url, {".mp4"}) /\ NoMark(url),
       "netdna", get_videoid(url))

netpocket_org(url) == Give(Sub(url), "GF_netpocket", get_filename(url))

nflximg_net(url) == Give(NoMark(url), "nflximg", get_videoid(url))

ning_com(url) == Give(Sub(url) /\ Has(url, {".mp3"}), "ning", get_filename(url))

nofeehost_com(url) == Give(Sub(url) /\ Has(url, {".mp3"}), "nofeehost", get_filename(url))

nordeus_com(url) ==
  Give((Sub(url) /\ Has(url, {".jpg"})) \/ Has(url, {".png", ".swf", ".mp3"}),
       "GAMESF_nordeus", get_filename(url))

nvidia_com(url) == Give(NoMark(url), "nvidia", get_videoid(url))

orkut_com(url) == Give(TRUE, "orkut", get_videoid(url))

photobucket_com(url) == Give(TRUE, "photobucket", get_filename4(url))

pop6_com(url) == Give(Sub(url) /\ Has(url, {".flv"}), "pop6", get_filename(url))

popcap_com(url) ==
  Give(Sub(url) /\ Has(url, {".jpg", ".png", ".gif", ".swf", ".mp3"}),
       "GAMESF_popcap", get_filename(url))

serviporno_com(url) == Give(Sub(url), "serviporno", get_filename(url))

sonicomusica_com(url) ==
  Give(Sub(url) /\ (Has(url, {".sm3"}) \/ ~ Has(url, {".jpg"})),
       "sonicomusica", get_filename(url))

symantecliveupdate_com(url) ==
  Give(Sub(url) /\ Has(url, {".zip", ".exe"}),
       "symantecliveupdate", get_filename(url))

telaxo_com(url) ==
  Give((Sub(url) /\ Has(url, {".jpg"})) \/ Has(url, {".png", ".swf", ".mp3"}),
       "GAMESF_telaxo", get_filename(url))

terra_com(url) == Give(Sub(url) /\ Has(url, {".flv"}), "terra", get_filename(url))

tetrisfb_com(url) == Give(Sub(url), "GAMESF_tetrisfb", get_filename(url))

tumblr_com(url) == Give(NoMark(url), "tumblr", get_videoid(url))

turner_com(url) == Give(Sub(url) /\ Has(url, {".mp3"}), "turner", get_filename(url))

uol_com_br(url) == Give(Has(url, {".flv"}), "uol", get_filename(url))

vevos_biz(url) == Give(TRUE, "vevos.biz", get_filename(url))

viddler_com(url) == Give(Has(url, {".flv"}), "viddler", get_filename(url))

video_msn_com(url) ==
  Give(Sub(url) /\ Has(url, {"share"}),
       "msn_video", get_filename(url))

vostucdn_com(url) ==
  Give((Sub(url) /\ Has(url, {".jpg"})) \/ Has(url, {".png", ".gif", ".swf", ".mp3"}),
       "GAMESF_vostucdn", get_filename(url))

vsh_r7_com(url) == Give(NoMark(url), "r7", get_videoid(url))

wooga_com(url) ==
  Give((Sub(url) /\ Has(url, {".jpg"})) \/ Has(url, {".png", ".swf", ".mp3"}),
       "GAMESF_wooga", get_filename(url))

youku_com(url) == Give(TRUE, "youku", get_videoid(url))

ziddu_com(url) ==
  Give(Has(url, {"downloads.ziddu.com/downloadfiles"}),
       "ziddu", get_filename(url))

(***************************************************************************)
(* Plugins that join parts in their own way.                               *)
(***************************************************************************)

\* The last n parts, or no name when there are fewer than `least`.
\* Mutant: the parts are not counted.
LastOfAny(url, n, least) == LastParts(url, n)

LastOf(url, n, least) == IF Len(Parts(url)) < least THEN <<>> ELSE LastParts(url, n)

avira_update_com(url) == Give(NoMark(url), "avira", LastParts(url, 4))

bitdefender_com(url) == Give(NoMark(url), "bitdefender", LastOf(url, 8, 9))

bitdefender_net(url) ==
  Give(NoMark(url) /\ Has(url, {"more than 70 characters"}), "bitdefender", LastParts(url, 1))

blogspot_com(url) == Give(NoMark(url), "blogspot", LastOf(url, 5, 6))

eset_com(url) == Give(NoMark(url), "eset", LastOf(url, 3, 3))

issuu_com(url) == Give(NoMark(url), "issuu", LastOf(url, 3, 4))

submanga_com(url) ==
  Give(Has(url, {"/pages/", "/hdpages/"}) /\ NoMark(url), "submanga",
       IF LastParts(url, 3) = Thrown THEN Thrown
       ELSE (IF Has(url, {"/hdpages/"}) THEN <<"hd-">> ELSE <<>>) \o LastParts(url, 3))

mediafire_com(url) ==
  Give(NoMark(url) /\ Len(Parts(url)) = 4, "mediafire", LastParts(url, 2))

\* From the third part on; it matches even if there is none.
edgesuite_net(url) ==
  GiveAny(NoMark(url),
          CASE Has(url, {"worldofwarcraft.com.edgesuite.net"}) -> "worldofwarcraft"
            [] Has(url, {"blizzard.com.edgesuite.net"})
                 /\ ~ Has(url, {"worldofwarcraft.com.edgesuite.net"}) -> "blizzard"
            [] OTHER -> "edgesuite",
          SubSeq(Parts(url), 3, Len(Parts(url))))

\* From the first part on that ends with a version number.
Versions == {"1.2.3"}
riotgames_com(url) ==
  LET parts == Parts(url)
      at == {i \in DOMAIN parts : parts[i] \in Versions}
  IN  GiveAny(NoMark(url), "lol", IF at = {} THEN <<>> ELSE SubSeq(parts, Min(at), Len(parts)))

\* The parts behind "depot" and "chunk"; it matches even without them.
steampowered_com(url) ==
  LET parts == Parts(url)
      After(word) == {i \in 2 .. Len(parts) : parts[i - 1] = word}
      chunk == After("chunk")
      depot == {i \in After("depot") : chunk # {} /\ i < Min(chunk)}
  IN  GiveAny(TRUE, "steampowered",
              IF chunk = {} THEN <<>>
              ELSE (IF depot = {} THEN <<>> ELSE <<parts[Max(depot)]>>) \o <<"_", parts[Min(chunk)]>>)

\* sec(...), then frag(...): the name is both and the last part.
Secs == {"sec(x)"}
Frags == {"frag(1)", "frag(2)"}
dailymotion_com(url) ==
  LET parts == Parts(url)
      frag == {i \in DOMAIN parts : parts[i] \in Frags}
      sec == {i \in DOMAIN parts : frag # {} /\ i < Min(frag) /\ parts[i] \in Secs}
  IN  Give(NoMark(url), "dailymotion",
           IF frag = {} THEN <<>>
           ELSE (IF sec = {} THEN <<>> ELSE <<parts[Max(sec)]>>)
                  \o <<parts[Min(frag)], Last(parts)>>)

edgecastcdn_net(url) ==
  Give(Has(url, {".mp4", ".flv", ".m4a", ".jpg"}) \/ Bare(url),
       IF Has(url, {".mp4", ".flv", ".m4a"}) THEN "edgecastcdn" ELSE "edgecastcdn_thumbs",
       get_filename(url))

imageshack_us(url) ==
  Give(Sub(url) \/ Has(url, {".jpg", ".png"}),
       IF Sub(url) THEN "imageshack" ELSE "imageshack-small", get_filename(url))

\* The "?" behind ".mp4" counts as a "/", and what is behind it as a part.
Sizes == {"s720x720"}
fbcdn_net(url) ==
  LET video == url.mark /\ Has(url, {".mp4"})
      size == PartFromEnd(url, 2)
  IN  IF video
      THEN Give(TRUE, "fbcdn.videos", IF Bare(url) THEN size ELSE LastParts(url, 1))
      ELSE Give(~ Has(url, {".1.2."}), "fbcdn.photos",
                IF size = Thrown THEN Thrown
                ELSE (IF size[1] \in Sizes THEN size ELSE <<>>) \o LastPartWithQuery(url))

speedtest_net(url) ==
  LET parts == Parts(url) \o (IF Bare(url) \/ NoMark(url) THEN <<>> ELSE <<"query">>)
  IN  Give(Len(parts) <= 6, "speedtest",
           IF Len(parts) < 2 THEN Thrown ELSE <<parts[Len(parts) - 1]>>)

wrzuta_pl(url) ==
  Give(TRUE, "wrzuta",
       IF get_filename(url) = Thrown THEN Thrown ELSE get_filename(url) \o <<".mp4">>)

ytimg_com(url) ==
  LET base == PartFromEnd(url, 2)
      suffix == CASE Has(url, {"hqdefault.jpg"}) -> <<"-hq">>
                  [] Has(url, {"mqdefault.jpg"}) /\ ~ Has(url, {"hqdefault.jpg"}) -> <<"-mq">>
                  [] OTHER -> <<>>
  IN  Give(TRUE, "ytimg",
           CASE base = Thrown -> Thrown
             [] base # Thrown /\ suffix # <<>> -> base \o suffix \o <<".jpg">>
             [] base # Thrown /\ suffix = <<>> /\ Arg(url, "sigh") # "" ->
                  <<Arg(url, "sigh"), "-">> \o LastParts(url, 1) \o <<".jpg">>
             [] OTHER -> <<>>)

\* It ends without `return r`: what the caller gets is what is there.
grandchase_com_br(url) ==
  Give(Has(url, {"fpatch."}) /\ Has(url, {".kom", ".mkom", ".mp3"}), "grandchase", get_filename(url))

(***************************************************************************)
(* Plugins that look at the start of the part that is asked for.           *)
(***************************************************************************)

\* start= (or ec_seek=, fs=, ms=) with anything but 0.
Seeks(url, name) == Args(url, name) # {} /\ Arg(url, name) # "0"

four_shared_com(url) ==
  LET parts == Parts(url) \o (IF Bare(url) \/ NoMark(url) THEN <<>> ELSE <<"query">>)
      file == CASE Has(url, {".com/download/"}) ->
                     IF Len(parts) < 4 THEN <<>> ELSE SubSeq(parts, Len(parts) - 2, Len(parts) - 1)
                [] Has(url, {".com/img/"}) /\ ~ Has(url, {".com/download/"}) ->
                     IF Has(url, {"_2Fdownload_2F"}) /\ Has(url, {"_3Ftsid_"}) THEN LastParts(url, 1)
                     ELSE <<>>
                [] OTHER -> <<>>
      started == Arg(url, "start") \in DOMAIN Numbers \ {""}
  IN  GiveAt(~ Has(url, {"preview"}), "4shared", file,
             atoll(Arg(url, "start")), IF started THEN -1 ELSE 0)

justin_tv(url) ==
  LET started == Arg(url, "start") # ""
  IN  GiveAt(~ started \/ Arg(url, "start") \in DOMAIN Numbers, "justin", LastParts(url, 1),
             atoll(Arg(url, "start")), IF started THEN -1 ELSE 0)

\* `[\\?&]fs=` in the text behind the "?": the first argument has neither before it.
LaterArg(url, name) == LastOfArgs(url, Args(url, name) \ {1})

xtube_com(url) ==
  GiveAt(TRUE, "xtube", get_filename(url), atoll(LaterArg(url, "fs")),
         IF LaterArg(url, "fs") # "" THEN -1 ELSE 0)

xvideos_com(url) ==
  Give(Bare(url) \/ LaterArg(url, "fs") = "", "xvideos", get_filename(url))

vimeo_com(url) ==
  Give(\A i \in DOMAIN url.query : url.query[i][1] \notin {"time", "start"},
       "vimeo", LastParts(url, 1))

rncdn3_com(url) == Give(Args(url, "ms") = {}, "pornhub_vid", LastParts(url, 1))

redtubefiles_com(url) ==
  Give(~ Seeks(url, "start") /\ ~ Seeks(url, "ec_seek") /\ Has(url, {".flv"}),
       "redtubefiles", LastParts(url, 1))

phncdn_com(url) ==
  IF Has(url, {".mp4"})
  THEN Give(~ Seeks(url, "start"), "pornhub_vid", LastParts(url, 1))
  ELSE Give(NoMark(url), "pornhub_img",
            IF LastParts(url, 4) = Thrown THEN Thrown
            ELSE PartFromEnd(url, 4) \o LastParts(url, 2))

porntube_com(url) ==
  IF Has(url, {"videos"})
  THEN Give(~ Seeks(url, "start"), "porntube_vid", LastParts(url, 10))
  ELSE Give(NoMark(url), "porntube_img", LastParts(url, 11))

\* /range/a-b behind the name; a match only if it does not begin with byte 0.
netflix_com(url) ==
  LET interval == IF Last(Parts(url)) \in DOMAIN Intervals THEN Intervals[Last(Parts(url))] ELSE <<>>
      id == IF Arg(url, "watchid") # "" /\ Arg(url, "o") # ""
            THEN <<Arg(url, "watchid"), Arg(url, "o")>> ELSE <<>>
      lost == Bare(url) \/ NoMark(url) \/ interval = <<>>
  IN  IF Has(url, {"/watch/"})
      THEN [NoMatch EXCEPT !.domain = "NetflixID", !.file = LastParts(url, 1)]
      ELSE IF Has(url, {"wwwplayer"})
      THEN [NoMatch EXCEPT !.domain = "NetflixjsID", !.file = <<"NetflixjsID">>]
      ELSE
      CASE Has(url, {"/range/"}) /\ lost -> Dies
        [] Has(url, {"/range/"}) /\ ~ lost ->
             Resposta(id # <<>> /\ interval[1] # 0, "netflix", id, interval[1], interval[2], FALSE)
        [] OTHER -> NoMatch

(***************************************************************************)
(* YouTube: /videoplayback?id=..&range=a-b, or /videoplayback/id/../range/ *)
(***************************************************************************)

Segment(url, name) ==                                 \* getiValue(): /name/value
  LET at == {i \in 1 .. Len(url.path) - 1 : url.path[i] = name}
  IN  IF at = {} THEN "" ELSE url.path[Min(at) + 1]

\* `clen` within the interval asked for: nothing to cache.
PastEnd(clen, interval) == clen # 0 /\ clen >= interval[1] /\ clen <= interval[2]

YouTube(file, interval, given) ==
  IF file = <<>> THEN [NoMatch EXCEPT !.exist_range = given]
  ELSE Resposta(TRUE, "youtube", file \o <<".flv">>, interval[1], interval[2], given)

youtube_id(url) ==
  LET id == IF Arg(url, "watchid") # "" THEN Arg(url, "watchid") ELSE Arg(url, "id")
      range == Args(url, "range") # {}
      wrong == range /\ Arg(url, "range") \notin DOMAIN Intervals
      interval == IF range /\ ~ wrong THEN Intervals[Arg(url, "range")] ELSE <<0, 0>>
      itag == IF Arg(url, "itag") \in {"", "34"} THEN <<>> ELSE <<Arg(url, "itag")>>
      mime == IF Arg(url, "mime") = "" THEN <<>> ELSE <<Arg(url, "mime")>>
      nothing == \/ id = "" \/ wrong
                 \/ Arg(url, "cm2") = "0" /\ ~ range
                 \/ PastEnd(atoll(Arg(url, "clen")), interval)
  IN  YouTube(IF nothing THEN <<>> ELSE <<id>> \o itag \o mime, interval, range /\ ~ wrong)

youtube_path(url) ==
  LET id == IF Arg(url, "watchid") # "" THEN Arg(url, "watchid") ELSE Segment(url, "id")
      given == Last(url.path) \in DOMAIN Intervals /\ Segment(url, "range") = Last(url.path)
      interval == IF given THEN Intervals[Last(url.path)] ELSE <<0, 0>>
      nothing == \/ Bare(url) \/ NoMark(url) \/ id = "" \/ ~ given
                 \/ PastEnd(atoll(Segment(url, "clen")), interval)
  IN  YouTube(IF nothing THEN <<>>
              ELSE <<id, Segment(url, "itag"), IF Has(url, {"/mime/video"}) THEN "-vid" ELSE "-aud">>,
              interval, given /\ ~ Bare(url) /\ url.mark /\ id # "")

youtube_com(url) ==
  CASE Has(url, {"/videoplayback?"}) ->
         IF Has(url, {"begin", "yt_live"}) THEN NoMatch ELSE youtube_id(url)
    [] Has(url, {"/videoplayback/"}) /\ ~ Has(url, {"/videoplayback?"}) ->
         IF Has(url, {"begin", "yt_live"}) THEN NoMatch ELSE youtube_path(url)
    [] OTHER ->
         IF Has(url, {".com/watch?"}) /\ Arg(url, "v") # ""
         THEN [NoMatch EXCEPT !.domain = "youtube_IDs", !.file = <<Arg(url, "v")>>] ELSE NoMatch

(***************************************************************************)
(* Plugins that send the browser elsewhere.                                *)
(***************************************************************************)

fwmrm_net(url) == Rewrite(Bare(url) /\ Has(url, {"fwmrm.net/ad/p/1"}), <<"host", "ad", "p", "1">>)

rad_msn_com(url) ==
  Rewrite(url.mark /\ Has(url, {"ADSAdClient31.dll"}), <<"zion2.zionlanhouse.com.br:8080", "msn.htm">>)

\* "q=" without a value: valor.at(1).
Asked(url) == url.query[Min(Args(url, "q"))][2]
live_com(url) ==
  Rewrite(url.mark /\ Has(url, {"/search"}),
          CASE Args(url, "q") = {} -> Parts(url) \o QueryText(url)
            [] Args(url, "q") # {} /\ Asked(url) = "" -> Thrown
            [] OTHER -> <<"www.google.com.pe/search?q=", Asked(url)>>)

doubleclick_net(url) ==
  IF Has(url, {"/pfadx/"})
  THEN Rewrite(Has(url, {"/main.*;"}), SubSeq(Parts(url), 1, Len(Parts(url)) - 1))
  ELSE Rewrite(Has(url, {"www.youtube.com"}) /\ Arg(url, "ad_type") = "video",
               <<"googleads.g.doubleclick.net", "pagead", "ads">>)

(***************************************************************************)
(* Plugins with a global `dominiotxt`, which a mark in the URL sets and    *)
(* nothing clears: it lives as long as the child.  Where several marks are *)
(* there, the last of the list wins.                                       *)
(***************************************************************************)

Chosen(url, choices, before) ==
  LET at == {i \in DOMAIN choices : Has(url, choices[i][1])}
  IN  IF at = {} THEN before ELSE choices[Max(at)][2]

Sticky == {<<"akamaihd", "net">>, <<"socialpointgames", "com">>, <<"zgncdn", "com">>}

dominiotxtAtStart(site) ==
  CASE site = <<"akamaihd", "net">> -> "GAMESF_akamaihd"
    [] site = <<"socialpointgames", "com">> -> "socialpg"
    [] site = <<"zgncdn", "com">> -> "GF_zgncdn"

dominiotxtFor(site, url, before) ==
  CASE site = <<"akamaihd", "net">> ->
         Chosen(url, <<<<{"/shockwave/"}, "GF_akamaihd_city2">>, <<{"/farm2/"}, "GF_akamaihd_farm2">>,
                       <<{"/slingo/"}, "GF_akamaihd_slingo">>, <<{"dchoc1"}, "GF_akamaihd_galaxy">>,
                       <<{"/cooking/"}, "GF_akamaihd_cheff">>, <<{"/wow/"}, "GF_akamaihd_worldofwarcraft">>,
                       <<{"/d3/"}, "GF_akamaihd_diablo3">>>>, before)
    [] site = <<"socialpointgames", "com">> ->
         Chosen(url, <<<<{"/dragoncity/"}, "socialpg_dragoncity">>, <<{"/socialwars/"}, "socialpg_socialwars">>,
                       <<{"/socialempires/"}, "socialpg_socialempires">>>>, before)
    [] site = <<"zgncdn", "com">> ->
         Chosen(url, <<<<{"empire"}, "GF_zgncdn_empire">>, <<{"cityvillefb", "/city/"}, "GF_zgncdn_city">>,
                       <<{"farmville", "/farm/"}, "GF_zgncdn_farm">>, <<{"castle"}, "GF_zgncdn_castle">>,
                       <<{"bubblesafari", "/bubble/"}, "GF_zgncdn_bubble">>, <<{"familyville"}, "GF_zgncdn_ville">>,
                       <<{"hog", "/hidden/"}, "GF_zgncdn_hidden">>>>, before)

akamaihd_net(url, dominiotxt) == Give(Sub(url), dominiotxt, get_filename4(url))

socialpointgames_com(url, dominiotxt) ==
  Give(Sub(url) /\ Has(url, {".jpg", ".png", ".mp3", ".swf"}), dominiotxt, get_filename(url))

zgncdn_com(url, dominiotxt) ==
  Give(Sub(url) /\ Has(url, {".jpg", ".png", ".mp3", ".swf"}), dominiotxt, get_filename(url))

(***************************************************************************)
(* The general plugin, for domains that have none.  The name is the md5 of *)
(* getdomain() and the path: of the labels, two or three are left.         *)
(***************************************************************************)

Joined(labels) == IF Len(labels) = 1 THEN labels[1] ELSE "joined"

generalplugin(url) ==
  LET domain == getdomain(url)
  IN  IF domain = Nowhere THEN Dies
      ELSE Give(NoMark(url) /\ Has(url, {"extension"}),
                IF Len(domain) = 2 THEN domain[1] ELSE Joined(domain),
                <<"md5", domain, url.path, "DELIM", Last(Parts(url))>>)

(***************************************************************************)
(* PLUGINSDIR: dlopen() of the domain's .so and its hgetmatch2().          *)
(***************************************************************************)

hgetmatch2(site, url, dominiotxt) ==
  CASE site = <<"4shared", "com">> -> four_shared_com(url)
    [] site = <<"5min", "com">> -> fivemin_com(url)
    [] site = <<"akamaihd", "net">> -> akamaihd_net(url, dominiotxt)
    [] site = <<"amazonaws", "com">> -> amazonaws_com(url)
    [] site = <<"appspot", "com">> -> appspot_com(url)
    [] site = <<"avast", "com">> -> avast_com(url)
    [] site = <<"avg", "com">> -> avg_com(url)
    [] site = <<"avgate", "net">> -> avgate_net(url)
    [] site = <<"avira-update", "com">> -> avira_update_com(url)
    [] site = <<"bitdefender", "com">> -> bitdefender_com(url)
    [] site = <<"bitdefender", "net">> -> bitdefender_net(url)
    [] site = <<"blogspot", "com">> -> blogspot_com(url)
    [] site = <<"bomusica", "biz">> -> bomusica_biz(url)
    [] site = <<"bomusica", "info">> -> bomusica_info(url)
    [] site = <<"bomusicas", "com">> -> bomusicas_com(url)
    [] site = <<"bullafina", "biz">> -> bullafina_biz(url)
    [] site = <<"bullafina", "me">> -> bullafina_me(url)
    [] site = <<"cloudfront", "net">> -> cloudfront_net(url)
    [] site = <<"coqui", "net">> -> coqui_net(url)
    [] site = <<"cutmu", "net">> -> cutmu_net(url)
    [] site = <<"dailymotion", "com">> -> dailymotion_com(url)
    [] site = <<"disneylatino", "com">> -> disneylatino_com(url)
    [] site = <<"domusica", "me">> -> domusica_me(url)
    [] site = <<"domusicas", "com">> -> domusicas_com(url)
    [] site = <<"doubleclick", "net">> -> doubleclick_net(url)
    [] site = <<"dungeonbusters", "com">> -> dungeonbusters_com(url)
    [] site = <<"edgecastcdn", "net">> -> edgecastcdn_net(url)
    [] site = <<"edgesuite", "net">> -> edgesuite_net(url)
    [] site = <<"eset", "com">> -> eset_com(url)
    [] site = <<"etrustdownloads", "ca", "com">> -> etrustdownloads_ca_com(url)
    [] site = <<"fbcdn", "net">> -> fbcdn_net(url)
    [] site = <<"friv", "com">> -> friv_com(url)
    [] site = <<"fwmrm", "net">> -> fwmrm_net(url)
    [] site = <<"geewa", "net">> -> geewa_net(url)
    [] site = <<"globo", "com">> -> globo_com(url)
    [] site = <<"goobeo", "com">> -> goobeo_com(url)
    [] site = <<"gooveo", "biz">> -> gooveo_biz(url)
    [] site = <<"gooveo", "info">> -> gooveo_info(url)
    [] site = <<"gooveo", "me">> -> gooveo_me(url)
    [] site = <<"grandchase", "com", "br">> -> grandchase_com_br(url)
    [] site = <<"hulkshare", "com">> -> hulkshare_com(url)
    [] site = <<"imageshack", "us">> -> imageshack_us(url)
    [] site = <<"issuu", "com">> -> issuu_com(url)
    [] site = <<"juegosdiarios", "com">> -> juegosdiarios_com(url)
    [] site = <<"juegosjuegos", "com">> -> juegosjuegos_com(url)
    [] site = <<"justin", "tv">> -> justin_tv(url)
    [] site = <<"kaspersky", "com">> -> kaspersky_com(url)
    [] site = <<"kixeye", "com">> -> kixeye_com(url)
    [] site = <<"live", "com">> -> live_com(url)
    [] site = <<"llnwd", "net">> -> llnwd_net(url)
    [] site = <<"maguinamotors", "com">> -> maguinamotors_com(url)
    [] site = <<"manabar", "ca">> -> manabar_ca(url)
    [] site = <<"mediafire", "com">> -> mediafire_com(url)
    [] site = <<"metacafe", "com">> -> metacafe_com(url)
    [] site = <<"microsoft", "com">> -> microsoft_com(url)
    [] site = <<"miniclip", "com">> -> miniclip_com(url)
    [] site = <<"mlstatic", "com">> -> mlstatic_com(url)
    [] site = <<"modovideo", "com">> -> modovideo_com(url)
    [] site = <<"molenillo", "com">> -> molenillo_com(url)
    [] site = <<"mp3-buscador", "com">> -> mp3_buscador_com(url)
    [] site = <<"musicaveo", "biz">> -> musicaveo_biz(url)
    [] site = <<"musicaveo", "info">> -> musicaveo_info(url)
    [] site = <<"nai", "com">> -> nai_com(url)
    [] site = <<"netdna", "com">> -> netdna_com(url)
    [] site = <<"netflix", "com">> -> netflix_com(url)
    [] site = <<"netpocket", "org">> -> netpocket_org(url)
    [] site = <<"nflximg", "net">> -> nflximg_net(url)
    [] site = <<"ning", "com">> -> ning_com(url)
    [] site = <<"nofeehost", "com">> -> nofeehost_com(url)
    [] site = <<"nordeus", "com">> -> nordeus_com(url)
    [] site = <<"nvidia", "com">> -> nvidia_com(url)
    [] site = <<"orkut", "com">> -> orkut_com(url)
    [] site = <<"phncdn", "com">> -> phncdn_com(url)
    [] site = <<"photobucket", "com">> -> photobucket_com(url)
    [] site = <<"pop6", "com">> -> pop6_com(url)
    [] site = <<"popcap", "com">> -> popcap_com(url)
    [] site = <<"porntube", "com">> -> porntube_com(url)
    [] site = <<"rad", "msn", "com">> -> rad_msn_com(url)
    [] site = <<"redtubefiles", "com">> -> redtubefiles_com(url)
    [] site = <<"riotgames", "com">> -> riotgames_com(url)
    [] site = <<"rncdn3", "com">> -> rncdn3_com(url)
    [] site = <<"serviporno", "com">> -> serviporno_com(url)
    [] site = <<"socialpointgames", "com">> -> socialpointgames_com(url, dominiotxt)
    [] site = <<"sonicomusica", "com">> -> sonicomusica_com(url)
    [] site = <<"speedtest", "net">> -> speedtest_net(url)
    [] site = <<"steampowered", "com">> -> steampowered_com(url)
    [] site = <<"submanga", "com">> -> submanga_com(url)
    [] site = <<"symantecliveupdate", "com">> -> symantecliveupdate_com(url)
    [] site = <<"telaxo", "com">> -> telaxo_com(url)
    [] site = <<"terra", "com">> -> terra_com(url)
    [] site = <<"tetrisfb", "com">> -> tetrisfb_com(url)
    [] site = <<"tumblr", "com">> -> tumblr_com(url)
    [] site = <<"turner", "com">> -> turner_com(url)
    [] site = <<"uol", "com", "br">> -> uol_com_br(url)
    [] site = <<"vevos", "biz">> -> vevos_biz(url)
    [] site = <<"viddler", "com">> -> viddler_com(url)
    [] site = <<"video", "msn", "com">> -> video_msn_com(url)
    [] site = <<"vimeo", "com">> -> vimeo_com(url)
    [] site = <<"vostucdn", "com">> -> vostucdn_com(url)
    [] site = <<"vsh", "r7", "com">> -> vsh_r7_com(url)
    [] site = <<"wooga", "com">> -> wooga_com(url)
    [] site = <<"wrzuta", "pl">> -> wrzuta_pl(url)
    [] site = <<"xtube", "com">> -> xtube_com(url)
    [] site = <<"xvideos", "com">> -> xvideos_com(url)
    [] site = <<"youku", "com">> -> youku_com(url)
    [] site = <<"youtube", "com">> -> youtube_com(url)
    [] site = <<"ytimg", "com">> -> ytimg_com(url)
    [] site = <<"zgncdn", "com">> -> zgncdn_com(url, dominiotxt)
    [] site = <<"ziddu", "com">> -> ziddu_com(url)

Installed ==
  {<<"4shared", "com">>, <<"5min", "com">>, <<"akamaihd", "net">>, <<"amazonaws", "com">>,
   <<"appspot", "com">>, <<"avast", "com">>, <<"avg", "com">>, <<"avgate", "net">>,
   <<"avira-update", "com">>, <<"bitdefender", "com">>, <<"bitdefender", "net">>, <<"blogspot", "com">>,
   <<"bomusica", "biz">>, <<"bomusica", "info">>, <<"bomusicas", "com">>, <<"bullafina", "biz">>,
   <<"bullafina", "me">>, <<"cloudfront", "net">>, <<"coqui", "net">>, <<"cutmu", "net">>,
   <<"dailymotion", "com">>, <<"disneylatino", "com">>, <<"domusica", "me">>, <<"domusicas", "com">>,
   <<"doubleclick", "net">>, <<"dungeonbusters", "com">>, <<"edgecastcdn", "net">>, <<"edgesuite", "net">>,
   <<"eset", "com">>, <<"etrustdownloads", "ca", "com">>, <<"fbcdn", "net">>, <<"friv", "com">>,
   <<"fwmrm", "net">>, <<"geewa", "net">>, <<"globo", "com">>, <<"goobeo", "com">>,
   <<"gooveo", "biz">>, <<"gooveo", "info">>, <<"gooveo", "me">>, <<"grandchase", "com", "br">>,
   <<"hulkshare", "com">>, <<"imageshack", "us">>, <<"issuu", "com">>, <<"juegosdiarios", "com">>,
   <<"juegosjuegos", "com">>, <<"justin", "tv">>, <<"kaspersky", "com">>, <<"kixeye", "com">>,
   <<"live", "com">>, <<"llnwd", "net">>, <<"maguinamotors", "com">>, <<"manabar", "ca">>,
   <<"mediafire", "com">>, <<"metacafe", "com">>, <<"microsoft", "com">>, <<"miniclip", "com">>,
   <<"mlstatic", "com">>, <<"modovideo", "com">>, <<"molenillo", "com">>, <<"mp3-buscador", "com">>,
   <<"musicaveo", "biz">>, <<"musicaveo", "info">>, <<"nai", "com">>, <<"netdna", "com">>,
   <<"netflix", "com">>, <<"netpocket", "org">>, <<"nflximg", "net">>, <<"ning", "com">>,
   <<"nofeehost", "com">>, <<"nordeus", "com">>, <<"nvidia", "com">>, <<"orkut", "com">>,
   <<"phncdn", "com">>, <<"photobucket", "com">>, <<"pop6", "com">>, <<"popcap", "com">>,
   <<"porntube", "com">>, <<"rad", "msn", "com">>, <<"redtubefiles", "com">>, <<"riotgames", "com">>,
   <<"rncdn3", "com">>, <<"serviporno", "com">>, <<"socialpointgames", "com">>, <<"sonicomusica", "com">>,
   <<"speedtest", "net">>, <<"steampowered", "com">>, <<"submanga", "com">>, <<"symantecliveupdate", "com">>,
   <<"telaxo", "com">>, <<"terra", "com">>, <<"tetrisfb", "com">>, <<"tumblr", "com">>,
   <<"turner", "com">>, <<"uol", "com", "br">>, <<"vevos", "biz">>, <<"viddler", "com">>,
   <<"video", "msn", "com">>, <<"vimeo", "com">>, <<"vostucdn", "com">>, <<"vsh", "r7", "com">>,
   <<"wooga", "com">>, <<"wrzuta", "pl">>, <<"xtube", "com">>, <<"xvideos", "com">>,
   <<"youku", "com">>, <<"youtube", "com">>, <<"ytimg", "com">>, <<"zgncdn", "com">>,
   <<"ziddu", "com">>}

=============================================================================
