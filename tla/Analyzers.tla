----------------------------- MODULE Analyzers -----------------------------
(***************************************************************************)
(* What the analyzers of OpenWPM-Data-Analytics take from a row of the     *)
(* crawl's database (_read_row) and what they make of it (_classify).  All *)
(* that an analyzer keeps between two rows (_reset) is a bag of facts: a   *)
(* flag is a fact that is there or not, a set the facts with a detail, a   *)
(* counter the copies of one.                                              *)
(*                                                                         *)
(* A row of the table javascript has its id (visit, script, top-level      *)
(* URL), symbol, operation, value and arguments; a text is a sequence of   *)
(* characters.  What makes _read_row raise once the arguments are parsed   *)
(* is logged and skipped, so that such a row has no facts; a text of       *)
(* arguments that is not JSON is not caught (IsRefused).                   *)
(***************************************************************************)
EXTENDS Integers, SequencesExt

CONSTANTS
    EnumLimit,      \* distinct symbols from which JSEnum classifies: 12, above (13 + 77) / 8
    FontLimit,      \* fonts, and measurements of one text, for the font analyzers: 50
    Missing,        \* a value that is NULL or empty
    Unparsable      \* a value that int() or float() refuses, or a text that is not JSON

Number(v) == v \in Int
Abs(n) == IF n < 0 THEN -n ELSE n
If(condition, facts) == IF condition THEN facts ELSE {}
Called(row, n) == row.operation = "call" /\ Len(row.arguments) >= n
SetTo(row) == row.operation = "set" /\ row.value # Missing
Size == {"HTMLCanvasElement.height", "HTMLCanvasElement.width"}
Extract == {"HTMLCanvasElement.toDataURL", "HTMLCanvasElement.toBlob"}
Text == {"CanvasRenderingContext2D.fillText", "CanvasRenderingContext2D.strokeText"}
Contexts == {"WebGLRenderingContext", "WebGL2RenderingContext"}
Of(objects, member) == {o \o "." \o member : o \in objects}
AnyOf(objects, members) == UNION {Of(objects, m) : m \in members}

-----------------------------------------------------------------------------
(* custom_analyzers                                                        *)
Audio == {"AudioContext", "OfflineAudioContext"}
AudioContextReads(row) ==
    If(row.symbol \in AnyOf(Audio, {"createOscillator", "createDynamicCompressor", "createAnalyser",
                                    "audioWorklet", "createGain", "createScriptProcessor"}),
       {<<"node">>})
    \cup If(row.symbol \in {"AudioBuffer.getChannelData", "AudioBuffer.copyFromChannel",
                            "AnalyserNode.getFloatFrequencyData", "AnalyserNode.getByteFrequencyData"}
              \cup AnyOf(Audio, {"destination", "listener"}),
            {<<"extraction">>})
AudioContext(seen) == <<"node">> \in seen /\ <<"extraction">> \in seen

CanvasReads(row) ==
    CASE row.symbol \in Size -> If(SetTo(row) /\ Number(row.value) /\ row.value <= 16, {<<"small">>})
      [] row.symbol = "HTMLCanvasElement.setAttribute" ->
           If(Called(row, 2) /\ row.arguments[2] = "visibility:hidden", {<<"small">>})
      [] row.symbol \in Text -> If(Called(row, 1) /\ Len(row.arguments[1]) > 10, {<<"drawn">>})
      [] row.symbol = "CanvasRenderingContext2D.fillStyle" -> If(SetTo(row), {<<"color", row.value>>})
      [] row.symbol \in {"CanvasRenderingContext2D.fillRect", "CanvasRenderingContext2D.rect"} ->
           If(Called(row, 4), {<<"drawn">>})
      [] row.symbol \in Extract -> {<<"extraction">>}
      [] row.symbol = "CanvasRenderingContext2D.getImageData" ->
           If(Called(row, 4) /\ \A i \in 3 .. 4 : Abs(row.arguments[i]) <= 16, {<<"extraction">>})
      [] OTHER -> {}
Colors(seen) == {f \in seen : f[1] = "color"}
Canvas(seen) ==
    /\ <<"small">> \in seen /\ <<"extraction">> \in seen
    /\ Cardinality(Colors(seen)) > 2 \/ <<"drawn">> \in seen

CanvasFontReads(row) ==
    CASE row.symbol = "CanvasRenderingContext2D.font" -> If(SetTo(row), {<<"font", row.value>>})
      [] row.symbol = "CanvasRenderingContext2D.measureText" ->
           If(Called(row, 1), {<<"text", row.arguments[1]>>})
      [] OTHER -> {}
CanvasFont(facts) ==
    /\ Cardinality({f \in DOMAIN facts : f[1] = "font"}) >= FontLimit
    /\ \E f \in DOMAIN facts : f[1] = "text" /\ facts[f] >= FontLimit

(* There is no comma after "window.indexedDB" in PROPERTIES, so that       *)
(* Python joins it with the next.                                          *)
PROPERTIES ==
    {"window.name", "window.localStorage", "window.sessionStorage",
     "window.indexedDBwindow.devicePixelRatio", "window.openDatabase", "window.matchMedia",
     "window.history", "window.performance", "window.crypto.subtle", "window.screen.pixelDepth",
     "window.screen.colorDepth", "window.Notification.permission"}
StartsWith(s, p) == Len(s) >= Len(p) /\ SubSeq(s, 1, Len(p)) = p
JSEnumReads(row) ==
    If(\/ row.symbol \in PROPERTIES
       \/ \E p \in {"window.navigator", "window.Intl", "window.performance.timing"} :
            StartsWith(row.symbol, p),
       {<<"found", row.symbol>>})
JSEnum(seen) == Cardinality(seen) >= EnumLimit

GPU(row) == Len(row.arguments) >= 1 /\ row.arguments[1] \in {37445, 37446}
WebGLReads(row) ==
    CASE row.symbol \in Of(Contexts, "getParameter") ->
           If(row.operation = "call" /\ GPU(row), {<<"told">>})
      [] row.symbol \in AnyOf(Contexts, {"getSupportedExtensions", "getExtension",
                                        "getContextAttributes", "readPixels"}) -> {<<"told">>}
      [] row.symbol = "HTMLCanvasElement.getContext" ->
           If(Called(row, 1) /\ StartsWith(row.arguments[1], "webgl"), {<<"canvas">>})
      [] row.symbol \in Extract -> {<<"extraction">>}
      [] OTHER -> {}
WebGL(seen) == <<"told">> \in seen \/ {<<"canvas">>, <<"extraction">>} \subseteq seen

WebRTCSymbols == {"RTCPeerConnection.createDataChannel", "RTCPeerConnection.createOffer",
                  "RTCPeerConnection.onicecandidate"}
WebRTCReads(row) == If(row.symbol \in WebRTCSymbols, {<<"symbol", row.symbol>>})
WebRTC(seen) == Cardinality(seen) = 3

Counted(row, symbol) == If(row.symbol = symbol, {<<"access">>})
LocalStorageReads(row) == Counted(row, "window.localStorage")
SessionStorageReads(row) == Counted(row, "window.sessionStorage")
IndexedDBReads(row) == Counted(row, "window.indexedDB")

-----------------------------------------------------------------------------
(* dynamic_analyzers                                                       *)
Canvas1MReads(row) ==
    CASE row.symbol \in Size ->
           If(SetTo(row) /\ Number(row.value),
              {<<"set", row.symbol>>} \cup If(row.value >= 16, {<<"large", row.symbol>>}))
      [] row.symbol = "CanvasRenderingContext2D.fillText" ->
           If(Len(row.arguments) >= 1, {<<"character", c>> : c \in Range(row.arguments[1])}
                \cup If(Cardinality(Range(row.arguments[1])) >= 10, {<<"varied">>}))
      [] row.symbol = "CanvasRenderingContext2D.fillStyle" -> If(SetTo(row), {<<"color", row.value>>})
      [] row.symbol = "HTMLCanvasElement.toDataURL" -> {<<"extraction">>}
      [] row.symbol = "CanvasRenderingContext2D.getImageData" ->
           If(Len(row.arguments) >= 4 /\ \A i \in 3 .. 4 : Abs(row.arguments[i]) >= 16,
              {<<"extraction">>})
      [] row.symbol \in {"HTMLCanvasElement.addEventListener", "CanvasRenderingContext2D.save",
                        "CanvasRenderingContext2D.restore"} -> {<<"productive">>}
      [] OTHER -> {}
(* Neither height nor width was only ever set to less than 16; the default *)
(* is more.                                                                *)
LargeEnough(seen) == \A s \in Size : <<"set", s>> \in seen => <<"large", s>> \in seen
Canvas_1M_Dynamic(seen) ==
    /\ LargeEnough(seen) /\ <<"extraction">> \in seen /\ <<"productive">> \notin seen
    /\ Cardinality(Colors(seen)) > 2 \/ Cardinality({f \in seen : f[1] = "character"}) > 10
Canvas_Basic_Dynamic(seen) == LargeEnough(seen) /\ {<<"extraction">>, <<"varied">>} \subseteq seen

WebGL_Dynamic(row) ==
    If(row.symbol = "WebGLRenderingContext.getParameter" /\ GPU(row), {<<"told">>})

(* These two are what they are named after.                                *)
Canvas_Font_1M_Dynamic(facts) == CanvasFont(facts)
WebRTC_1M_Dynamic(seen) == WebRTC(seen)

-----------------------------------------------------------------------------
(* The eight cookie analyzers: which cookies count.                        *)
CONSTANT FirstParties   \* host and top-level URL, the host occurring in the URL's domain
isFirstParty(row) == <<row.id[2], row.id[3]>> \in FirstParties
CookieFirstPartyTotal(row) == isFirstParty(row)
CookieThirdPartyTotal(row) == ~isFirstParty(row)
CookieFirstPartySecure(row) == isFirstParty(row) /\ {"secure", "http_only"} \cap row.attributes # {}
CookieThirdPartySecure(row) == ~isFirstParty(row) /\ {"secure", "http_only"} \cap row.attributes # {}
CookieFirstPartyHost(row) == isFirstParty(row) /\ "host_only" \in row.attributes
CookieThirdPartyHost(row) == ~isFirstParty(row) /\ "host_only" \in row.attributes
CookieFirstPartySession(row) == isFirstParty(row) /\ "session" \in row.attributes
CookieThirdPartySession(row) == ~isFirstParty(row) /\ "session" \in row.attributes
IsCounted(name, row) ==
    CASE name = "CookieFirstPartyTotal" -> CookieFirstPartyTotal(row)
      [] name = "CookieThirdPartyTotal" -> CookieThirdPartyTotal(row)
      [] name = "CookieFirstPartySecure" -> CookieFirstPartySecure(row)
      [] name = "CookieThirdPartySecure" -> CookieThirdPartySecure(row)
      [] name = "CookieFirstPartyHost" -> CookieFirstPartyHost(row)
      [] name = "CookieThirdPartyHost" -> CookieThirdPartyHost(row)
      [] name = "CookieFirstPartySession" -> CookieFirstPartySession(row)
      [] name = "CookieThirdPartySession" -> CookieThirdPartySession(row)

-----------------------------------------------------------------------------
(* The lists of analyzers_utils.py, by analysis_name.                      *)
Static_Analyzers ==
    <<"Canvas_1M_Static", "Canvas_Basic_Static", "Canvas_Basic_Static_2", "Canvas_Font_1M_Static",
      "WebRTC_1M_Static", "WebGL_Static", "Media_Queries_Static", "Navigator_Properties_Static">>
Dynamic_Analyzers ==
    <<"Canvas_1M_Dynamic", "Canvas_Basic_Dynamic", "Canvas1MDynamicND", "Canvas_Font_1M_Dynamic",
      "WebRTC_1M_Dynamic", "WebGL_Dynamic", "Media_Queries_Dynamic", "Navigator_Properties_Dynamic">>
Custom_Analyzers ==
    <<"AudioContext", "Canvas", "CanvasFont", "JSEnum", "WebGL", "WebRTC",
      "GoogleAnalytics", "MetaPixel", "MicrosoftUET", "Hotjar",
      "CookieFirstPartyTotal", "CookieThirdPartyTotal", "CookieFirstPartySecure",
      "CookieThirdPartySecure", "CookieFirstPartyHost", "CookieThirdPartyHost",
      "CookieFirstPartySession", "CookieThirdPartySession",
      "LocalStorage", "SessionStorage", "IndexedDB">>

(* Those whose objects cannot be made: __init__ takes an engine that       *)
(* nobody passes any more, or analyser_query is abstract in the class.     *)
Broken ==
    {"Canvas1MDynamicND", "Media_Queries_Dynamic", "Navigator_Properties_Dynamic"}
      \cup Range(Static_Analyzers)
CookieNames ==
    {"CookieFirstPartyTotal", "CookieThirdPartyTotal", "CookieFirstPartySecure",
     "CookieThirdPartySecure", "CookieFirstPartyHost", "CookieThirdPartyHost",
     "CookieFirstPartySession", "CookieThirdPartySession"}
RequestNames == {"GoogleAnalytics", "MetaPixel", "MicrosoftUET", "Hotjar"}
ScriptNames ==
    (Range(Dynamic_Analyzers \o Custom_Analyzers) \ Broken) \ (CookieNames \cup RequestNames)

(* parseArguments is called before the try of _read_row, by these.         *)
Parsing ==
    {"Canvas", "CanvasFont", "Canvas_Font_1M_Dynamic", "WebGL", "WebGL_Dynamic",
     "Canvas_1M_Dynamic", "Canvas_Basic_Dynamic"}
IsRefused(name, row) == name \in Parsing /\ row.arguments = Unparsable

(* What _read_row of an analyzer takes from a row.                         *)
Reads(name, row) ==
    CASE name = "AudioContext" -> AudioContextReads(row)
      [] name = "Canvas" -> CanvasReads(row)
      [] name \in {"CanvasFont", "Canvas_Font_1M_Dynamic"} -> CanvasFontReads(row)
      [] name = "JSEnum" -> JSEnumReads(row)
      [] name = "WebGL" -> WebGLReads(row)
      [] name = "WebGL_Dynamic" -> WebGL_Dynamic(row)
      [] name \in {"WebRTC", "WebRTC_1M_Dynamic"} -> WebRTCReads(row)
      [] name \in {"Canvas_1M_Dynamic", "Canvas_Basic_Dynamic"} -> Canvas1MReads(row)
      [] name = "LocalStorage" -> LocalStorageReads(row)
      [] name = "SessionStorage" -> SessionStorageReads(row)
      [] name = "IndexedDB" -> IndexedDBReads(row)
      [] name \in CookieNames -> If(IsCounted(name, row), {<<"name", row.name>>})

(* int(_classify()) of the facts it took.                                  *)
Flag(condition) == IF condition THEN 1 ELSE 0
Times(fact, facts) == IF fact \in DOMAIN facts THEN facts[fact] ELSE 0
Counters == {"LocalStorage", "SessionStorage", "IndexedDB"}
IsFound(name, facts) ==
    LET seen == DOMAIN facts IN
    \/ name = "AudioContext" /\ AudioContext(seen)
    \/ name = "Canvas" /\ Canvas(seen)
    \/ name = "CanvasFont" /\ CanvasFont(facts)
    \/ name = "Canvas_Font_1M_Dynamic" /\ Canvas_Font_1M_Dynamic(facts)
    \/ name = "JSEnum" /\ JSEnum(seen)
    \/ name = "WebGL" /\ WebGL(seen)
    \/ name = "WebGL_Dynamic" /\ seen # {}
    \/ name = "WebRTC" /\ WebRTC(seen)
    \/ name = "WebRTC_1M_Dynamic" /\ WebRTC_1M_Dynamic(seen)
    \/ name = "Canvas_1M_Dynamic" /\ Canvas_1M_Dynamic(seen)
    \/ name = "Canvas_Basic_Dynamic" /\ Canvas_Basic_Dynamic(seen)
Classify(name, facts) ==
    IF name \in CookieNames THEN Cardinality(DOMAIN facts)
    ELSE IF name \in Counters THEN Times(<<"access">>, facts)
    ELSE Flag(IsFound(name, facts))
=============================================================================
