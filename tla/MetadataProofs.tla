--------------------------- MODULE MetadataProofs ---------------------------
(***************************************************************************)
(* What fetchVideoMeta promises for every answer of YouTube.               *)
(***************************************************************************)
EXTENDS Metadata, WellFoundedInduction, TLAPS

\* Every set of naturals that is not empty has a least member.
LEMMA Least ==
    ASSUME NEW S \in SUBSET Nat, S # {}
    PROVE  \E i \in S : \A j \in S : i <= j
<1> DEFINE Less == {ij \in Nat \X Nat : ij[1] < ij[2]}
<1>1. IsWellFoundedOn(Less, Nat)
    BY NatLessThanWellFounded DEF OpToRel
<1> HIDE DEF Less
<1>2. PICK i \in S : \A j \in S : <<j, i>> \notin Less
    BY <1>1, WFMin
<1>3. \A j \in S : ~(j < i)
    BY <1>2 DEF Less
<1> QED
    BY <1>2, <1>3

LEMMA FormatSecondsType ==
    ASSUME NEW formats \in Seq(Int)
    PROVE  FormatSeconds(formats) \in Nat
<1> DEFINE lasting == {i \in 1..Len(formats) : formats[i] > 0}
           first == CHOOSE i \in lasting : \A j \in lasting : i <= j
<1>1. CASE lasting = {}
    BY <1>1 DEF FormatSeconds
<1>2. CASE lasting # {}
    <2>0. lasting \in SUBSET Nat
        OBVIOUS
    <2>1. first \in lasting
        <3> HIDE DEF lasting
        <3>1. \E i \in lasting : \A j \in lasting : i <= j
            BY <1>2, <2>0, Least
        <3> QED
            BY <3>1
    <2>2. formats[first] \in Int /\ formats[first] > 0
        BY <2>1
    <2>3. formats[first] \div 1000 \in Nat
        BY <2>2
    <2> QED
        BY <1>2, <2>3 DEF FormatSeconds
<1> QED
    BY <1>1, <1>2

LEMMA MobileScrapeType ==
    ASSUME NEW a \in Answers
    PROVE  MobileScrape(a) \in Result
<1>1. a.page \in Page
    BY DEF Answers
<1>2. a.page.lengthSeconds \in Int /\ a.page.title \in BOOLEAN /\ a.page.formats \in Seq(Int)
    BY <1>1 DEF Page
<1>3. ScrapedSeconds(a.page) \in Int
    BY <1>2, FormatSecondsType DEF ScrapedSeconds
<1> QED
    BY <1>2, <1>3 DEF MobileScrape, Fetched, Failed, Result

LEMMA DataAPIType ==
    ASSUME NEW a \in Answers
    PROVE  DataAPI(a) \in Result
<1>1. a.list.items \in Seq(ApiItem)
    BY DEF Answers
<1>2. a.list.items # <<>> => a.list.items[1] \in ApiItem
    BY <1>1
<1>3. a.list.items # <<>> =>
        a.list.items[1].title \in BOOLEAN /\ ParseISO8601(a.list.items[1].iso) \in Int
    BY <1>2 DEF ApiItem, ParseISO8601
<1> QED
    BY <1>3 DEF DataAPI, Fetched, Failed, Result

\* Whatever the options, the key and the answers are: the result has its type, and
\* one without an error has a title and lasts longer than nothing, although either
\* source may report an empty title and a duration of 0 or below without an error.
THEOREM FetchUsable ==
    ASSUME NEW a \in Answers, NEW opts, NEW key \in BOOLEAN
    PROVE  /\ FetchVideoMeta(opts, key, a) \in Result
           /\ FetchVideoMeta(opts, key, a).err = "none" => Usable(FetchVideoMeta(opts, key, a))
<1> DEFINE scrape == IF HasOption(opts, "UseScrapeFetch") THEN MobileScrape(a) ELSE NotScraped
           api == DataAPI(a)
<1>1. scrape \in Result /\ api \in Result
    BY MobileScrapeType, DataAPIType DEF NotScraped, Fetched, Result
<1>2. /\ Failed("other") \in Result /\ Failed("other").err = "other"
      /\ Failed("age") \in Result /\ Failed("age").err = "age"
    BY DEF Failed, Result
<1>3. BothFailed(scrape, api) \in Result /\ BothFailed(scrape, api).err # "none"
    BY <1>2 DEF BothFailed
<1> HIDE DEF scrape, api
<1>4. FetchVideoMeta(opts, key, a) =
        IF opts \cap {"UseScrapeFetch", "UseDataAPI"} = {} THEN Failed("other")
        ELSE IF Usable(scrape) THEN scrape
        ELSE IF scrape.err = "age" THEN Failed("age")
        ELSE IF ~key THEN Failed("other")
        ELSE IF Usable(api) THEN api
        ELSE BothFailed(scrape, api)
    BY DEF FetchVideoMeta, scrape, api
<1> QED
    BY <1>1, <1>2, <1>3, <1>4

\* A gate that either source sees is reported as such, unless the scrape found
\* a length and a title first (a page that is not gated for the emulated client):
\* then the Data API is not asked.
THEOREM AgeReported ==
    ASSUME NEW a \in Answers, NEW useScrape \in BOOLEAN,
           ~Usable(MobileScrape(a)) \/ ~useScrape
    PROVE  LET meta == FetchVideoMeta(AddVideoOptions(useScrape), TRUE, a)
           IN  (useScrape /\ MobileScrape(a).err = "age") \/ DataAPI(a).err = "age"
                   => meta.err = "age"
<1> DEFINE opts == AddVideoOptions(useScrape)
<1>1. "UseDataAPI" \in opts /\ (HasOption(opts, "UseScrapeFetch") <=> useScrape)
    BY DEF AddVideoOptions, SetOption, HasOption
<1>2. ~Usable(NotScraped) /\ NotScraped.err = "none"
    BY DEF NotScraped, Fetched, Usable
<1>3. DataAPI(a).err = "age" => ~Usable(DataAPI(a))
    BY DEF Usable
<1>4. Failed("age").err = "age"
    BY DEF Failed
<1> HIDE DEF opts
<1>5. FetchVideoMeta(opts, TRUE, a) =
        LET scrape == IF useScrape THEN MobileScrape(a) ELSE NotScraped
            api == DataAPI(a)
        IN  IF Usable(scrape) THEN scrape
            ELSE IF scrape.err = "age" THEN Failed("age")
            ELSE IF Usable(api) THEN api
            ELSE BothFailed(scrape, api)
    BY <1>1 DEF FetchVideoMeta
<1> QED
    BY <1>1, <1>2, <1>3, <1>4, <1>5 DEF BothFailed, opts

=============================================================================
