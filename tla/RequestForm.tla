---------------------------- MODULE RequestForm ----------------------------
(* A filled form on its way to the PDF SDK: the check the page makes, the       *)
(* request it composes, the road the request takes, the checks the server       *)
(* makes on that road, and what the SDK client hands on.  The checks of the two *)
(* sides are written separately, in two languages of bounds, and most requests  *)
(* go by a road on which the server makes none: there the page's is the only    *)
(* one.                                                                         *)
(*                                                                              *)
(* A page selection is a sequence of parts, [from, to] for "from-to", a single  *)
(* page being [from, from], with Every for the word "all" and Junk for text     *)
(* that is neither; <<>> is a blank field.  Three tools send the text of the     *)
(* field as it was typed, and there it counts how: with commas between its parts *)
(* (or semicolons, or wide commas, or both kinds of commas), or with spaces       *)
(* around and in capitals ("loose").  The other tools send what their check made of the text.  *)
(* A numeric field is {} when blank; its numbers are in tenths, so that a        *)
(* fraction can be told from an integer.                                         *)
EXTENDS Integers, Sequences

CONSTANTS Forms,        \* the filled forms, records by tool
          PageCounts    \* pages a document may have

VARIABLES form,
          stage,        \* form, sync, batch, refused, too_many, sent
          document,     \* its number of pages
          sent          \* what the SDK receives

formVars == <<form, stage, document, sent>>

(* A filled form, by tool.  Of a prefix only the kinds of its characters count:  *)
(* "hash", "open" and "close" are #, << and >>, which the server reads as tokens. *)
PageRange == [from : Int, to : Int]
Number == SUBSET Int
Text == {"blank", "some"}
Typing == {"commas", "semicolons", "wide_commas", "mixed", "loose"}
FormShapes ==
    [tool : {"delete", "rotate", "watermark/remove"}, pages : Seq(PageRange), typed : Typing]
    \cup [tool : {"compress"}, quality : {"low", "medium", "high", "custom"}, image : Number]
    \cup [tool : {"encrypt"}, password : Text]
    \cup [tool : {"insert-from-pdf"}, pages : Seq(PageRange), file : {"none", "empty", "some"}]
    \cup [tool : {"pdf/png"}, dpi : Int]
    \cup [tool : {"watermark/add"}, pages : Seq(PageRange), type : {"text", "image"}, text : Text,
           file : {"none", "empty", "some"}, opacity : Number, fontSize : Number, spacing : Number]
    \cup [tool : {"split"}, mode : {"custom", "every", "equal"}, ranges : Seq(Seq(PageRange)), count : Int]
    \cup [tool : {"headers-footers/add"}, pages : Seq(PageRange), fontSize : Number, opacity : Number, margin : Number,
           region : {"blank", "text", "page_number", "unknown_variable"}, offset : Number]
    \cup [tool : {"bates/add"}, pages : Seq(PageRange), fontSize : Number, opacity : Number, margin : Number,
           start : Int, digits : Int, prefix : SUBSET {"letter", "digit", "space", "underscore", "hyphen", "hash", "open", "close"}]

ASSUME FormAssumption == Forms \subseteq FormShapes /\ PageCounts \subseteq Nat \ {0} /\ PageCounts # {}

Span(a, b) == [from |-> a, to |-> b]
Every == Span(0 - 1, 0 - 1)
Junk == Span(0 - 2, 0 - 2)

LargestPage == 100000              \* parsePages' limit
LargestNumber == 2147483647        \* the page's limit of an offset, both sides' of a Bates number
OneBased(part) == part.from >= 1 /\ part.to >= part.from
AllOneBased(pages) == \A i \in DOMAIN pages : OneBased(pages[i])
Within(field, low, high) == \A n \in field : low <= n /\ n <= high
PageSet(pages) == UNION {pages[i].from .. pages[i].to : i \in DOMAIN pages}
Blank(pages) == pages = <<>>
All(pages) == pages = <<Every>>
Digits(n) == CHOOSE w \in 1 .. 10 : (w = 10 \/ n < 10^w) /\ (w = 1 \/ 10^(w - 1) <= n)
Rounded(n, d) == (2 * n + d) \div (2 * d)

(* parsePages, and splitCustomRanges on groups of it. *)
ParsePages(pages) ==
    \/ Blank(pages) \/ All(pages)
    \/ AllOneBased(pages) /\ \A i \in DOMAIN pages : pages[i].to <= LargestPage
SplitCustomRanges(groups) == groups # <<>> /\ \A i \in DOMAIN groups : ~Blank(groups[i]) /\ ParsePages(groups[i])

(* compressImageQualityValidationKey, and a form that forgets the upper bound. *)
QualityUnbounded(f) == f.quality = "custom" => f.image # {} /\ \A n \in f.image : n >= 0 /\ n % 10 = 0
QualityValid(f) == f.quality = "custom" => f.image # {} /\ Within(f.image, 0, 1000) /\ \A n \in f.image : n % 10 = 0

(* watermarkValidationKey. *)
WatermarkValid(f) ==
    /\ ParsePages(f.pages)
    /\ f.type = "text" => f.text = "some"
    /\ f.type = "image" => f.file = "some"
    /\ f.opacity # {} /\ Within(f.opacity, 0, 10)
    /\ \A n \in f.fontSize : n > 0
    /\ \A n \in f.spacing : n >= 0

(* stampValidationKey: the part shared by the two kinds, then each kind's. *)
StampValid(f) ==
    /\ f.pages = <<Every>> \/ (f.pages # <<>> /\ AllOneBased(f.pages))
    /\ f.fontSize # {} /\ Within(f.fontSize, 10, 1000) /\ \A n \in f.fontSize : n % 10 = 0
    /\ f.opacity # {} /\ Within(f.opacity, 0, 10)
    /\ f.margin # {} /\ \A n \in f.margin : n >= 0
HeaderValid(f) ==
    /\ f.region # "blank" /\ f.region # "unknown_variable"
    /\ f.region = "page_number" =>
          f.offset # {} /\ \A n \in f.offset : n >= 10 /\ n % 10 = 0 /\ n \div 10 <= LargestNumber
BatesValid(f) ==
    /\ f.start \in 1 .. LargestNumber /\ f.digits \in 1 .. 32
    /\ Digits(f.start) <= f.digits
    /\ f.prefix \subseteq {"letter", "digit", "space", "underscore", "hyphen"}

(* validationKey of the upload panel: nothing is posted while it names an error. *)
FormValid(f) ==
    CASE f.tool = "delete" -> ~Blank(f.pages)
      [] f.tool = "compress" -> QualityValid(f)
      [] f.tool = "watermark/add" -> WatermarkValid(f)
      [] f.tool = "encrypt" -> f.password = "some"
      [] f.tool = "insert-from-pdf" -> f.file = "some" /\ (Blank(f.pages) \/ All(f.pages) \/ AllOneBased(f.pages))
      [] f.tool = "pdf/png" -> f.dpi \in 72 .. 1500
      [] f.tool = "split" -> IF f.mode = "custom" THEN SplitCustomRanges(f.ranges) ELSE f.count >= 1
      [] f.tool = "headers-footers/add" -> StampValid(f) /\ HeaderValid(f)
      [] f.tool = "bates/add" -> StampValid(f) /\ BatesValid(f)
      [] OTHER -> TRUE

(* An object spread into a new one: what the new one says comes first. *)
Spread(request, f) == [k \in DOMAIN request \cup DOMAIN f |-> IF k \in DOMAIN request THEN request[k] ELSE f[k]]

(* buildStampRequest: a colour that is not opaque gets two digits of alpha. *)
ColorDigits(n) == IF n = 10 THEN 6 ELSE IF Rounded(n * 255, 10) < 256 THEN 8 ELSE 9
StampRequest(f) ==
    [op |-> f.tool, pages |-> f.pages, fontSize |-> f.fontSize, margin |-> f.margin,
     color |-> {ColorDigits(n) : n \in f.opacity},
     offset |-> IF f.tool = "bates/add" THEN {0} ELSE IF f.region = "page_number" THEN f.offset ELSE {10}]

(* buildPdfEditPayload and buildConversionPayload; a key left out is {}. *)
Quality(f) == CASE f.quality = "low" -> {300} [] f.quality = "medium" -> {600} [] f.quality = "high" -> {800}
                [] OTHER -> f.image
Scaling(dpi) == Rounded(100 * dpi, 72)          \* hundredths
Payload(f) ==
    CASE f.tool \in {"headers-footers/add", "bates/add"} -> Spread(StampRequest(f), f)
      [] f.tool = "compress" -> [op |-> f.tool, profile |-> f.quality # "custom", quality |-> Quality(f)]
      [] f.tool = "pdf/png" -> [op |-> f.tool, scaling |-> Scaling(f.dpi)]
      [] f.tool = "watermark/add" ->
            [op |-> f.tool, type |-> f.type, text |-> f.text, file |-> f.file, opacity |-> f.opacity,
             fontSize |-> IF f.type = "text" THEN f.fontSize ELSE {}, spacing |-> f.spacing]
      [] f.tool = "split" ->
            IF f.mode = "custom" THEN [op |-> f.tool, ranges |-> f.ranges]
            ELSE [op |-> f.tool, splitMode |-> f.mode, splitCount |-> f.count]
      [] OTHER -> Spread([op |-> f.tool], f)

(* useSync: the operations the batch does not take, and three the page keeps from it. *)
UseSync(f) == f.tool \in {"split", "encrypt", "insert-from-pdf"}
              \/ (f.tool = "watermark/add" /\ f.type = "image")

-----------------------------------------------------------------------------
(* The server's checks.                                                         *)
DecorationAccepted(r) ==
    /\ \A n \in r.fontSize : n > 0
    /\ r.color \subseteq {6, 8}
    /\ \A n \in r.margin : n >= 0
    /\ \A n \in r.offset : n >= 0 /\ n % 10 = 0
    /\ r.pages = <<Every>> \/ (r.pages # <<>> /\ AllOneBased(r.pages))
    /\ r.op = "headers-footers/add" => r.region # "blank"
    /\ r.op = "bates/add" => /\ r.start \in 0 .. LargestNumber
                             /\ r.digits \in 1 .. 32
                             /\ r.prefix \cap {"hash", "open", "close"} = {}

SplitAccepted(r) ==
    {"splitMode", "splitCount"} \cap DOMAIN r # {} =>
        "ranges" \notin DOMAIN r /\ r.splitMode \in {"every", "equal"} /\ r.splitCount >= 1

WatermarkAccepted(r) ==
    /\ r.type = "text" => r.text = "some"
    /\ r.type = "image" => r.file = "some"
    /\ Within(r.opacity, 0, 10) /\ (\A n \in r.fontSize : n > 0) /\ (\A n \in r.spacing : n >= 0)

InsertAccepted(r) ==
    /\ r.file = "some"
    /\ \A i \in DOMAIN r.pages : r.pages[i] = Every \/ OneBased(r.pages[i])

ImageAccepted(r) == 100 <= r.scaling /\ 72 * r.scaling <= 100 * 1500

(* The handlers of the synchronous routes; a task makes the same checks. *)
SyncAccepts(r) ==
    CASE r.op \in {"headers-footers/add", "bates/add"} -> DecorationAccepted(r)
      [] r.op = "compress" -> Within(r.quality, 0, 1000) /\ \A n \in r.quality : n % 10 = 0
      [] r.op = "watermark/add" -> WatermarkAccepted(r)
      [] r.op = "delete" -> ~Blank(r.pages)
      [] r.op = "encrypt" -> r.password = "some"
      [] r.op = "insert-from-pdf" -> InsertAccepted(r)
      [] r.op = "pdf/png" -> ImageAccepted(r)
      [] r.op = "split" -> SplitAccepted(r)
      [] OTHER -> TRUE

(* The creation of a batch checks encryption and the decorations, nothing else. *)
BatchAccepts(r) == r.op \in {"encrypt", "headers-footers/add", "bates/add"} => SyncAccepts(r)

(* toPageNumbers: only commas and semicolons divide a text, so parts at a wide     *)
(* comma (in a mixed text, the first two) are no numbers; such a part is dropped,  *)
(* and a range may run backwards.                                                  *)
Undivided(r, i) == Len(r.pages) > 1 /\ (r.typed = "wide_commas" \/ (r.typed = "mixed" /\ i <= 2))
Divided(r) == [i \in DOMAIN r.pages |-> IF Undivided(r, i) THEN Junk ELSE r.pages[i]]
ToPageNumbers(pages) ==
    UNION {LET p == pages[i] IN IF p \in {Every, Junk} THEN {} ELSE (p.from .. p.to) \cup (p.to .. p.from)
           : i \in DOMAIN pages}

(* normalizePagesRequest and normalizeRemoveWatermarkRequest: the word "all" and  *)
(* a blank field are no list of pages but a value of their own -- the second      *)
(* takes them to the letter.                                                      *)
MeansAll(r) == (Blank(r.pages) \/ All(r.pages)) /\ (r.op = "watermark/remove" => r.typed # "loose")
Selected(r) == [op |-> r.op, all |-> MeansAll(r), pages |-> ToPageNumbers(Divided(r))]

(* normalizeCompressRequest: a profile becomes the flags of its quality. *)
Compressed(r) ==
    [op |-> r.op, quality |-> r.quality,
     flags |-> IF ~r.profile THEN "own" ELSE IF Within(r.quality, 0, 300) THEN "low"
               ELSE IF Within(r.quality, 0, 600) THEN "medium" ELSE "high"]

(* buildSplitRanges; in mode every the last part takes what is left. *)
PartsFloor(r, n) == IF r.splitMode = "equal" THEN r.splitCount ELSE n \div r.splitCount
Parts(r, n) == IF r.splitMode = "equal" THEN r.splitCount ELSE (n + r.splitCount - 1) \div r.splitCount
SplitRanges(r, n) ==
    LET size(i, consumed) ==
            IF r.splitMode = "every" THEN IF r.splitCount < n - consumed THEN r.splitCount ELSE n - consumed
            ELSE n \div r.splitCount + (IF i <= n % r.splitCount THEN 1 ELSE 0)
        consumed[i \in 0 .. Parts(r, n)] == IF i = 0 THEN 0 ELSE consumed[i - 1] + size(i, consumed[i - 1])
    IN [i \in 1 .. Parts(r, n) |-> Span(consumed[i - 1] + 1, consumed[i])]

Dynamic(r) == r.op = "split" /\ "splitMode" \in DOMAIN r
Normalized(r, n) ==
    CASE r.op \in {"delete", "rotate", "watermark/remove"} -> Selected(r)
      [] r.op = "compress" -> Compressed(r)
      [] Dynamic(r) -> [op |-> r.op, parts |-> SplitRanges(r, n)]
      [] OTHER -> r

-----------------------------------------------------------------------------
FormInit ==
    /\ form \in Forms
    /\ stage = "form"
    /\ document \in IF form.tool = "split" THEN PageCounts ELSE {CHOOSE n \in PageCounts : TRUE}
    /\ sent = [op |-> "nothing"]

(* The start button; it stays disabled while the form has an error. *)
SubmitForm ==
    /\ stage = "form" /\ FormValid(form)
    /\ stage' = IF UseSync(form) THEN "sync" ELSE "batch"
    /\ UNCHANGED <<form, document, sent>>

(* A client of the API posts what it likes. *)
PostDirectly ==
    /\ stage = "form"
    /\ stage' = "sync"
    /\ UNCHANGED <<form, document, sent>>

Accepts(r) == (stage = "sync" /\ SyncAccepts(r)) \/ (stage = "batch" /\ BatchAccepts(r))
(* Only the document tells whether it has as many pages as parts are wanted. *)
TooManyParts(r) == Dynamic(r) /\ r.splitMode = "equal" /\ r.splitCount > document

RefuseForm ==
    /\ stage \in {"sync", "batch"} /\ ~Accepts(Payload(form))
    /\ stage' = "refused"
    /\ UNCHANGED <<form, document, sent>>

RefuseParts ==
    /\ Accepts(Payload(form)) /\ TooManyParts(Payload(form))
    /\ stage' = "too_many"
    /\ UNCHANGED <<form, document, sent>>

PassOn ==
    /\ Accepts(Payload(form)) /\ ~TooManyParts(Payload(form))
    /\ stage' = "sent" /\ sent' = Normalized(Payload(form), document)
    /\ UNCHANGED <<form, document>>

FormNext == SubmitForm \/ PostDirectly \/ RefuseForm \/ RefuseParts \/ PassOn

FormSpec == FormInit /\ [][FormNext]_formVars

-----------------------------------------------------------------------------
(* A form the page lets start is never refused for what it says: every request  *)
(* it composes passes the server's checks, whichever road it takes -- and passes *)
(* those of the synchronous road also when it goes by the batch, where nobody    *)
(* but the page looked at it.                                                    *)
FormAccepted ==
    /\ FormValid(form) => stage # "refused"
    /\ stage = "sent" => SyncAccepts(Payload(form))

(* What was meant is what is done.  Pages typed like the field's own example,    *)
(* 1,2,3-5 (ParamForm.vue:509), reach the SDK as those pages and no others; typed *)
(* otherwise they still never become other pages, though they may become fewer:   *)
(* the wide commas that the page's parsePages takes (batch-files.ts:45) divide    *)
(* nothing for the client (pdf-sdk.client.ts:493).  A preset keeps its name, and  *)
(* a document split in equal parts or by a count is cut into consecutive parts,   *)
(* none empty, that cover it.                                                     *)
MeantIsSent ==
    stage = "sent" =>
        /\ sent.op \in {"delete", "rotate", "watermark/remove"} =>
              /\ form.typed = "commas" /\ ParsePages(form.pages) =>
                    IF Blank(form.pages) \/ All(form.pages) THEN sent.all
                    ELSE ~sent.all /\ sent.pages = PageSet(form.pages)
              /\ ~Blank(form.pages) /\ AllOneBased(form.pages) =>
                    ~sent.all /\ sent.pages \subseteq PageSet(form.pages)
        /\ sent.op = "compress" /\ form.quality # "custom" => sent.flags = form.quality
        /\ "parts" \in DOMAIN sent =>
              LET parts == sent.parts
                  last == Len(parts) IN
              /\ last >= 1 /\ parts[1].from = 1 /\ parts[last].to = document
              /\ \A i \in 1 .. last : parts[i].from <= parts[i].to
              /\ \A i \in 1 .. last - 1 : parts[i + 1].from = parts[i].to + 1
              /\ form.mode = "every" => \A i \in 1 .. last - 1 : parts[i].to - parts[i].from + 1 = form.count
              /\ form.mode = "equal" => \A i, j \in 1 .. last :
                    parts[i].to - parts[i].from <= parts[j].to - parts[j].from + 1
=============================================================================
