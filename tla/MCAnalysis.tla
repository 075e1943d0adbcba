----------------------------- MODULE MCAnalysis -----------------------------
(***************************************************************************)
(* Small instances of Analysis for TLC: crawls of two visits, the first    *)
(* to two pages.                                                           *)
(***************************************************************************)
EXTENDS Analysis

(* What a script does, in one call.                                        *)
Get(symbol) == [symbol |-> symbol, operation |-> "get", value |-> Missing, arguments |-> <<>>]
Set(symbol, value) == [symbol |-> symbol, operation |-> "set", value |-> value, arguments |-> <<>>]
Call(symbol, arguments) ==
    [symbol |-> symbol, operation |-> "call", value |-> Missing, arguments |-> arguments]
Letters == [i \in 1 .. 11 |-> i]
On2D(member) == "CanvasRenderingContext2D." \o member
OnCanvas(member) == "HTMLCanvasElement." \o member

(* The rows of a table of calls: at(k) says which script made the k-th.    *)
Table(at, calls) ==
    {[id |-> at[k], ordinal |-> k] @@ calls[k] : k \in DOMAIN calls}

A == <<1, 1, 1>>
B == <<1, 1, 2>>
C == <<1, 2, 1>>
D == <<2, 1, 1>>
Canvases ==
    <<Set(OnCanvas("height"), 10), Set(OnCanvas("height"), 20), Set(OnCanvas("width"), Unparsable),
      Set(On2D("fillStyle"), "red"), Call(On2D("fillText"), <<Letters>>), Call(OnCanvas("toDataURL"), <<>>),
      Set(OnCanvas("height"), 10), Set(On2D("fillStyle"), "red"), Set(On2D("fillStyle"), "green"),
      Set(On2D("fillStyle"), "blue"), Call(On2D("getImageData"), <<0, 0, -16, 16>>),
      Call(On2D("save"), <<>>), Call(OnCanvas("toDataURL"), <<>>)>>
CanvasIds == <<A, C, C, C, C, C, D, D, A, D, D, B, B>>
Fonts ==
    <<Set(On2D("font"), "serif"), Call(On2D("measureText"), <<"m">>), Set(On2D("font"), "mono"),
      Call(On2D("measureText"), <<"m">>), Call(On2D("measureText"), <<"w">>),
      Set(On2D("font"), "serif"), Set(On2D("font"), "mono"), Call(On2D("measureText"), <<"w">>),
      Call(OnCanvas("setAttribute"), <<"style", "visibility:hidden">>), Call(On2D("rect"), <<0, 0, 1, 1>>),
      Call(OnCanvas("toBlob"), <<>>)>>
FontIds == <<A, A, A, A, B, B, B, D, D, D, D>>
Contacts ==
    <<Call("RTCPeerConnection.createDataChannel", <<>>), Call("AudioContext.createGain", <<>>),
      Call("RTCPeerConnection.createOffer", <<>>), Get("OfflineAudioContext.destination"),
      Get("RTCPeerConnection.onicecandidate"), Call("WebGLRenderingContext.getParameter", <<37445>>),
      Call(OnCanvas("getContext"), <<"webgl2">>), Call(OnCanvas("toBlob"), <<>>),
      Call("WebGL2RenderingContext.getParameter", <<1>>), Get("window.localStorage")>>
ContactIds == <<C, A, C, A, C, B, D, D, B, D>>
Stores ==
    <<Get("window.localStorage"), Get("window.indexedDB"), Get("window.navigator.language"),
      Get("window.localStorage"), Get("window.sessionStorage"), Get("window.localStorage"),
      Get("window.history"), [Call("window.indexedDB", <<>>) EXCEPT !.arguments = Unparsable]>>
StoreIds == <<B, A, A, B, D, D, D, D>>

Cookie(visit, host, name, attributes, ordinal) ==
    [visit |-> visit, host |-> host, name |-> name, attributes |-> attributes, ordinal |-> ordinal]
Jar ==
    {Cookie(1, 1, "a", {}, 1), Cookie(1, 1, "a", {"secure"}, 2), Cookie(1, 1, "b", {"session"}, 3),
     Cookie(2, 1, "a", {"host_only"}, 1), Cookie(2, 2, "a", {"http_only"}, 2), Cookie(1, 3, "c", {}, 4)}
MCFirstParties == {<<1, 1>>, <<2, 2>>}
Requests == {A, C, <<1, 3, 1>>, B, <<2, 2, 1>>, <<1, 3, 3>>}
Responses == {<<1, 1, "h1">>, <<1, 2, "h2">>, <<2, 1, "h1">>, <<1, 3, "h3">>}
Matches == {<<"Hotjar", 1>>, <<"Hotjar", 3>>, <<"GoogleAnalytics", 2>>}

Crawl(javascript, cookies) ==
    [visits |-> 2, responses |-> Responses, javascript |-> javascript, cookies |-> cookies, requests |-> Requests,
     matches |-> Matches]
MCDatabases ==
    {Crawl(Table(CanvasIds, Canvases), {}), Crawl(Table(FontIds, Fonts), {}),
     Crawl(Table(ContactIds, Contacts), {}), Crawl(Table(StoreIds, Stores), Jar),
     [Crawl({}, {}) EXCEPT !.visits = 0, !.requests = {}]}

(* Each analysis alone, and some together.                                 *)
MCSelections ==
    {<<name>> : name \in ScriptNames \cup CookieNames \cup RequestNames}
      \cup {<<"CookieFirstPartyTotal", "CookieThirdPartyTotal">>, <<"LocalStorage", "Hotjar", "Canvas">>,
            <<"CookieThirdPartySecure", "WebRTC">>, <<"Canvas_1M_Dynamic", "MetaPixel">>}
=============================================================================
