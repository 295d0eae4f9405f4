------------------------------ MODULE Metadata ------------------------------
(***************************************************************************)
(* What fetchVideoMeta makes of the answers of YouTube                     *)
(* (internal/service/youtube.go): a title and a duration, an age           *)
(* restriction, or another error.                                          *)
(*                                                                         *)
(* An answer is a record of what the two sources would say; the operators  *)
(* are the decisions of the code, in its order.  A text is reduced to what *)
(* the code asks of it (is it empty, does it parse, does it speak of age). *)
(* A duration is a number of seconds; the 64 bits of time.Duration are not *)
(* modelled, and a length YouTube gives is taken to fit in them.           *)
(***************************************************************************)
EXTENDS Integers, Sequences, FiniteSets

FetchOption == {"UseScrapeFetch", "UseDataAPI", "UseScrapeBrowser"}

\* FetchOption.Set and FetchOption.Has; the bits are a set.
SetOption(opts, more) == opts \cup more

HasOption(opts, o) == o \in opts

\* The (title, duration, error) of a fetch; a title counts as there or empty.
Fetched(title, dur) == [err |-> "none", title |-> title, dur |-> dur]

Failed(err) == [err |-> err, title |-> FALSE, dur |-> 0]

Result == [err : {"none", "age", "other"}, title : BOOLEAN, dur : Int]

\* The visitor data is the string at [0][2][0][0][13] of sw.js_data: every
\* array on the way has to be long enough, and the string must not be blank.
Nesting == <<1, 3, 1, 1, 14>>

\* What may be answered.  reply: the status of an exchange.  visitor: the lengths of
\* the nested arrays (0 where there is none), and whether the string is there.
\* page: the player's response, where the number of formats' milliseconds is 0 if
\* there is none or it does not parse, as lengthSeconds is.  deadline: the source
\* during which the time of the whole fetch runs out.
Reply == {"ok", "bad"}

Visitor == [reply : Reply, len : [1..Len(Nesting) -> Nat], value : BOOLEAN]

Page == [reply : Reply, flagged : BOOLEAN, rated : BOOLEAN, familySafe : BOOLEAN,
         ageStatus : BOOLEAN, ageReason : BOOLEAN, gateReason : Nat,
         title : BOOLEAN, lengthSeconds : Int, formats : Seq(Int)]

ApiItem == [title : BOOLEAN, rated : BOOLEAN,
         iso : [match : BOOLEAN, h : Nat, m : Nat, s : Nat]]

Answers == [visitor : Visitor, page : Page, list : [reply : Reply, items : Seq(ApiItem)],
            deadline : {"none", "scrape", "api"}]

-----------------------------------------------------------------------------
(* The mobile client, emulated *)

ResolveVisitorData(visitor) ==
    /\ visitor.reply = "ok"
    /\ \A level \in 1..Len(Nesting) : visitor.len[level] >= Nesting[level]
    /\ visitor.value

\* A page of the player says in one of three places that the video is gated; the
\* last of them counts only if the page is not marked safe for families.
IsAgeRestricted(page) ==
    \/ page.flagged
    \/ page.rated
    \/ ~page.familySafe /\ (page.ageStatus \/ page.ageReason \/ page.gateReason > 0)

\* The first of the formats with a duration above 0 ends the search, whatever is
\* left of it in whole seconds (0 stands for none, or for one that does not parse).
FormatSeconds(formats) ==
    LET lasting == {i \in 1..Len(formats) : formats[i] > 0}
    IN  IF lasting = {}
        THEN 0
        ELSE formats[CHOOSE i \in lasting : \A j \in lasting : i <= j] \div 1000

\* lengthSeconds counts if it parses and is not 0 (it may be negative).
ScrapedSeconds(page) ==
    IF page.lengthSeconds # 0 THEN page.lengthSeconds ELSE FormatSeconds(page.formats)

MobileScrape(a) ==
    IF a.deadline = "scrape" \/ ~ResolveVisitorData(a.visitor) \/ a.page.reply # "ok"
    THEN Failed("other")
    ELSE IF IsAgeRestricted(a.page) THEN Failed("age")
    ELSE IF ScrapedSeconds(a.page) = 0 THEN Failed("other")
    ELSE Fetched(a.page.title, ScrapedSeconds(a.page))

-----------------------------------------------------------------------------
(* The official Data API *)

AnyAgeRestricted(items) == \E i \in 1..Len(items) : items[i].rated

\* An ISO 8601 duration of hours, minutes and seconds; each of them may be missing
\* (0).  A text with days in it does not match.
ParseISO8601(iso) == iso.h * 3600 + iso.m * 60 + iso.s

DataAPI(a) ==
    IF a.deadline \in {"scrape", "api"} \/ a.list.reply # "ok" \/ a.list.items = <<>>
    THEN Failed("other")
    ELSE IF AnyAgeRestricted(a.list.items) THEN Failed("age")
    ELSE IF ~a.list.items[1].iso.match THEN Failed("other")
    ELSE Fetched(a.list.items[1].title, ParseISO8601(a.list.items[1].iso))

-----------------------------------------------------------------------------
(* Both *)

\* (Mutant: any duration will do.)
UsableAny(r) == r.err = "none" /\ r.title

Usable(r) == r.err = "none" /\ r.dur > 0 /\ r.title

\* The last switch: the errors of both sources are wrapped, so that "age
\* restricted" can be told from the rest.
BothFailed(scrape, api) ==
    Failed(IF "age" \in {scrape.err, api.err} THEN "age" ELSE "other")

\* No scrape, when the option is not set: no error, and nothing found.
NotScraped == Fetched(FALSE, 0)

\* fetchVideoMeta.  One deadline of ten seconds (and the request itself, should its
\* sender hang up) covers both sources: past it during the scrape, the Data API fails
\* as well.  The sources' own timeouts are as long or longer.  UseScrapeFetch falls
\* through to the Data API whatever is set.
FetchVideoMeta(opts, key, a) ==
    LET scrape == IF HasOption(opts, "UseScrapeFetch") THEN MobileScrape(a) ELSE NotScraped
        api == DataAPI(a)
    IN  IF opts \cap {"UseScrapeFetch", "UseDataAPI"} = {} THEN Failed("other")
        ELSE IF Usable(scrape) THEN scrape
        ELSE IF scrape.err = "age" THEN Failed("age")
        ELSE IF ~key THEN Failed("other")
        ELSE IF Usable(api) THEN api
        ELSE BothFailed(scrape, api)

\* What HandleAddVideo asks for: the Data API always, the scrape unless the
\* environment says otherwise.
AddVideoOptions(useScrape) ==
    SetOption(IF useScrape THEN SetOption({}, {"UseScrapeFetch"}) ELSE {}, {"UseDataAPI"})

=============================================================================
