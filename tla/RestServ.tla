------------------------------- MODULE RestServ -------------------------------
(***************************************************************************)
(* The request router of src/src/bin/swirlyd/RestServ.cpp.  httpRequest    *)
(* resets the state_ flags and the URI tokeniser, parses the body, walks   *)
(* the URI one routing function at a time (each pops the tokens it        *)
(* consumes, sets MatchUri when the path names a resource and MatchMethod  *)
(* when the method is served there, and calls the Rest back end), then     *)
(* turns missing flags into 404 or 405.  Each routing function is one      *)
(* action; handler names the function about to run.                       *)
(*                                                                         *)
(* A URI token is the sequence of its comma-separated items (Tokeniser<','>).*)
(* The client DN header is an input of the request; getETrader resolves  *)
(* the trader from it.  The response body, the other headers, the cache    *)
(* flag, timestamps and profiling are not modelled: no routing decision    *)
(* depends on them.                                                        *)
(***************************************************************************)
EXTENDS Integers, Sequences, FiniteSets, SequencesExt, TLC

CONSTANTS
    URIs,       \* the request URIs, each a sequence of tokens
    Stou64(_),  \* stou64 on one item: its number, 0 for a non-numeral
    DNs         \* the values of the httpAuth_ header, each a DN as tokens

Methods == {"GET", "POST", "PUT", "DELETE", "HEAD"}  \* HEAD: any other method
Bodies == {"none", "some", "partial"}  \* empty, parseable, incomplete
NoCall == [op |-> "none", args |-> <<>>, trader |-> "none"]
NoStatus == "none"

VARIABLES
    handler,  \* the routing function to run next, "idle" or "done"
    method,   \* data.method()
    path,     \* data.uri() as tokens (history: the whole URI)
    uri,      \* uri_: the tokens not yet popped
    body,     \* data.body()
    flags,    \* state_ without the method bits: MatchUri, MatchMethod
    status,   \* the status out_ carries
    call,     \* the rest_ call made for this request, or NoCall
    ids,      \* ids_, the member vector ScopedIdens fills
    mnems,    \* mnems_, the member vector ScopedMnems fills
    dn        \* data.header(httpAuth_)

vars == <<handler, method, path, uri, body, flags, status, call, ids, mnems, dn>>

(***************************************************************************)
(* EntitySet::parse (not in the repository): the entities a token names;   *)
(* a token naming anything else is taken to parse as the empty set.        *)
(***************************************************************************)
EntityNames == {"asset", "contr", "market", "trader", "order", "trade", "posn", "view"}
Parse(tok) == IF \A i \in 1..Len(tok) : tok[i] \in EntityNames THEN ToSet(tok) ELSE {}
Many(tok) == Cardinality(Parse(tok)) > 1
Single(tok) == IF Cardinality(Parse(tok)) = 1 THEN CHOOSE e \in Parse(tok) : TRUE ELSE "none"

IdsOf(tok) == [i \in 1..Len(tok) |-> Stou64(tok[i])]

(***************************************************************************)
(* getDnAttribute and getETrader (RestServ.cpp:67-99).  A DN is the        *)
(* sequence of the tokens Tokeniser<'/'> yields, a leading '/' showing as  *)
(* an empty first token; a token is the sequence of its '='-separated      *)
(* parts.  Tokeniser and splitPair are not in the repository: they are     *)
(* taken to split at every separator.  An absent header is the empty DN.   *)
(***************************************************************************)
\* splitPair(tok, '='): the key before the first '=' and the rest after it,
\* empty when the token has no '='.
SplitPair(tok) ==
    <<tok[1], IF Len(tok) = 1 THEN ""
              ELSE FoldLeft(LAMBDA a, b : a \o "=" \o b, tok[2], Tail(Tail(tok)))>>

\* The token loop of getDnAttribute: the value of the first key equal to attr.
RECURSIVE DnAttribute(_, _)
DnAttribute(toks, attr) ==
    IF toks = <<>> THEN ""
    ELSE IF SplitPair(Head(toks))[1] = attr THEN SplitPair(Head(toks))[2]
    ELSE DnAttribute(Tail(toks), attr)

\* getDnAttribute: trim the leading slash, then scan the tokens.
GetDnAttribute(d, attr) == DnAttribute(IF d[1] = <<"">> THEN Tail(d) ELSE d, attr)

\* Fault model: getETrader without the check that the email is present.
GetETraderNoEmailCheck(d) ==
    IF d = <<>> THEN [ok |-> FALSE, email |-> ""]
    ELSE [ok |-> TRUE, email |-> GetDnAttribute(d, "emailAddress")]

\* getETrader: UnauthorizedException without a DN or without an email in it.
GetETrader(d) ==
    IF d = <<>> THEN [ok |-> FALSE, email |-> ""]
    ELSE LET email == GetDnAttribute(d, "emailAddress")
         IN [ok |-> email # "", email |-> email]

(***************************************************************************)
(* An endpoint: the Rest call, whether it resolves the trader with         *)
(* getETrader, the request_ field check ("none"; "opt": valid() with no    *)
(* required field; "req": valid() or fields() == with a required field),   *)
(* and which of the scoped ids/mnems it passes ("none", "first", "all").   *)
(***************************************************************************)
EP(op, auth, fields, args) == [op |-> op, auth |-> auth, fields |-> fields, args |-> args]
GetOnly(op, auth) == "GET" :> EP(op, auth, "none", "none")

\* httpRequest after restRequest returns (RestServ.cpp:171-177).
Respond(fl) ==
    IF "MatchUri" \notin fl THEN "NotFound"
    ELSE IF "MatchMethod" \notin fl THEN "MethodNotAllowed"
    ELSE status

\* A routing function returns without a call: unwind to httpRequest.
Return(fl) ==
    /\ handler' = "done"
    /\ flags' = fl
    /\ status' = Respond(fl)
    /\ UNCHANGED call

GoTo(h) ==
    IF h = "none" THEN Return(flags)
    ELSE handler' = h /\ UNCHANGED <<flags, status, call>>

\* The resource is matched and its method served: validate the request
\* fields, resolve the trader (getETrader), call the back end.  An exception is caught
\* by httpRequest: a ServException gives its status, anything else 500.
Serve(ep, fl, scoped) ==
    /\ handler' = "done"
    /\ flags' = fl
    /\ \/ /\ \/ ep.fields = "req" /\ body = "none"
             \/ ep.fields # "none" /\ body = "some"
          /\ status' = "Invalid"
          /\ UNCHANGED call
       \/ /\ ~(ep.fields = "req" /\ body = "none")
          /\ ep.auth /\ ~GetETrader(dn).ok
          /\ status' = "Unauthorized"
          /\ UNCHANGED call
       \/ /\ ~(ep.fields = "req" /\ body = "none")
          /\ ep.auth => GetETrader(dn).ok
          /\ call' = [op |-> ep.op,
                       args |-> CASE ep.args = "first" -> <<scoped[1]>>
                                  [] ep.args = "all" -> scoped
                                  [] OTHER -> <<>>,
                       trader |-> IF ep.auth THEN GetETrader(dn).email ELSE "none"]
          /\ status' \in {Respond(fl), "ServError", "InternalServerError"}

\* The URI ends here: MatchUri, then the switch on the method.
Level(eps, scoped) ==
    LET fl == flags \cup {"MatchUri"}
    IN IF method \in DOMAIN eps THEN Serve(eps[method], fl \cup {"MatchMethod"}, scoped)
       ELSE Return(fl)

Scoped(pushed) == <<>>

Fixed == UNCHANGED <<method, path, body, dn>>

(***************************************************************************)
(* httpRequest and reset (RestServ.cpp:113-170).                          *)
(***************************************************************************)
HttpRequest(m, u, b, d) ==
    /\ handler = "idle"
    /\ method' = m /\ path' = u /\ uri' = u /\ body' = b /\ dn' = d
    /\ flags' = {}
    /\ call' = NoCall
    /\ \/ /\ b = "partial"
          /\ status' = "BadRequest"
          /\ handler' = "done"
       \/ /\ b # "partial"
          /\ status' = IF m = "DELETE" THEN "NoContent" ELSE "OK"
          /\ handler' = "restRequest"
    /\ UNCHANGED <<ids, mnems>>

(***************************************************************************)
(* The routing functions (RestServ.cpp:190-737).                           *)
(***************************************************************************)
RestDispatch(tok) ==
    CASE tok = <<"rec">> -> "recRequest"
      [] tok = <<"sess">> -> "sessRequest"
      [] tok = <<"view">> -> "viewRequest"
      [] OTHER -> "none"

RestRequest ==
    /\ handler = "restRequest"
    /\ IF uri = <<>> THEN Return(flags) /\ UNCHANGED uri
       ELSE uri' = Tail(uri) /\ GoTo(RestDispatch(Head(uri)))
    /\ UNCHANGED <<ids, mnems>> /\ Fixed

\* Fault model: an entity list served without the uri_.empty() check.
CollectionNoEndCheck(get, dispatch) ==
    IF uri = <<>> THEN Level(get, <<>>) /\ UNCHANGED uri
    ELSE /\ uri' = Tail(uri)
         /\ IF Many(Head(uri)) THEN Level(get, <<>>)
            ELSE GoTo(dispatch[Single(Head(uri))])

\* recRequest and sessRequest: the bare collection, a list of entities,
\* or the routing function of one entity.
Collection(get, dispatch) ==
    IF uri = <<>> THEN Level(get, <<>>) /\ UNCHANGED uri
    ELSE /\ uri' = Tail(uri)
         /\ IF Many(Head(uri))
            THEN IF Len(uri) = 1 THEN Level(get, <<>>) ELSE Return(flags)
            ELSE GoTo(dispatch[Single(Head(uri))])

RecDispatch == [e \in EntityNames \cup {"none"} |->
    CASE e = "asset" -> "assetRequest" [] e = "contr" -> "contrRequest"
      [] e = "market" -> "marketRequest" [] e = "trader" -> "traderRequest"
      [] OTHER -> "none"]

RecRequest ==
    /\ handler = "recRequest"
    /\ Collection(GetOnly("getRec", FALSE), RecDispatch)
    /\ UNCHANGED <<ids, mnems>> /\ Fixed

SessDispatch == [e \in EntityNames \cup {"none"} |->
    CASE e = "order" -> "orderRequest" [] e = "trade" -> "tradeRequest"
      [] e = "posn" -> "posnRequest" [] e = "view" -> "viewRequest"
      [] OTHER -> "none"]

SessRequest ==
    /\ handler = "sessRequest"
    /\ Collection(GetOnly("getSess", TRUE), SessDispatch)
    /\ UNCHANGED <<ids, mnems>> /\ Fixed

\* A collection and its members by mnemonic: /x and /x/MNEM.
TwoLevels(top, member) ==
    CASE uri = <<>> -> Level(top, <<>>) /\ UNCHANGED uri
      [] Len(uri) = 1 -> uri' = <<>> /\ Level(member, <<>>)
      [] OTHER -> uri' = Tail(uri) /\ Return(flags)

AssetRequest ==
    /\ handler = "assetRequest"
    /\ TwoLevels(GetOnly("getAsset", FALSE), GetOnly("getAsset", FALSE))
    /\ UNCHANGED <<ids, mnems>> /\ Fixed

ContrRequest ==
    /\ handler = "contrRequest"
    /\ TwoLevels(GetOnly("getContr", FALSE), GetOnly("getContr", FALSE))
    /\ UNCHANGED <<ids, mnems>> /\ Fixed

MarketRequest ==
    /\ handler = "marketRequest"
    /\ TwoLevels(GetOnly("getMarket", FALSE) @@ ("POST" :> EP("postMarket", FALSE, "req", "none")),
                 GetOnly("getMarket", FALSE) @@ ("PUT" :> EP("putMarket", FALSE, "opt", "none")))
    /\ UNCHANGED <<ids, mnems>> /\ Fixed

TraderRequest ==
    /\ handler = "traderRequest"
    /\ TwoLevels(GetOnly("getTrader", FALSE) @@ ("POST" :> EP("postTrader", FALSE, "req", "none")),
                 GetOnly("getTrader", FALSE) @@ ("PUT" :> EP("putTrader", FALSE, "req", "none")))
    /\ UNCHANGED <<ids, mnems>> /\ Fixed

\* orderRequest and tradeRequest: /x, /x/MARKET and /x/MARKET/ID,ID...;
\* the third token is appended to ids_ by a ScopedIdens.
ThreeLevels(top, market, byId) ==
    IF Len(uri) < 2 THEN TwoLevels(top, market) /\ UNCHANGED ids
    ELSE LET pushed == ids \o IdsOf(uri[2])
         IN /\ uri' = Tail(Tail(uri))
            /\ IF Len(uri) = 2 THEN Level(byId, pushed) ELSE Return(flags)
            /\ ids' = Scoped(pushed)

OrderRequest ==
    /\ handler = "orderRequest"
    /\ ThreeLevels(GetOnly("getOrder", TRUE),
                   GetOnly("getOrder", FALSE) @@ ("POST" :> EP("postOrder", TRUE, "req", "none")),
                   ("GET" :> EP("getOrder", TRUE, "none", "first"))
                   @@ ("PUT" :> EP("putOrder", TRUE, "req", "all"))
                   @@ ("DELETE" :> EP("deleteOrder", TRUE, "none", "all")))
    /\ UNCHANGED mnems /\ Fixed

TradeRequest ==
    /\ handler = "tradeRequest"
    /\ ThreeLevels(GetOnly("getTrade", TRUE),
                   GetOnly("getTrade", FALSE) @@ ("POST" :> EP("postTrade", FALSE, "req", "none")),
                   ("GET" :> EP("getTrade", TRUE, "none", "first"))
                   @@ ("DELETE" :> EP("deleteTrade", TRUE, "none", "all")))
    /\ UNCHANGED mnems /\ Fixed

\* /sess/posn, /sess/posn/CONTR and /sess/posn/CONTR/SETTL_DATE.
PosnRequest ==
    /\ handler = "posnRequest"
    /\ IF Len(uri) < 2
       THEN TwoLevels(GetOnly("getPosn", TRUE), GetOnly("getPosn", FALSE))
       ELSE /\ uri' = Tail(Tail(uri))
            /\ IF Len(uri) = 2 THEN Level(GetOnly("getPosn", TRUE), <<>>) ELSE Return(flags)
    /\ UNCHANGED <<ids, mnems>> /\ Fixed

\* /view and /view/MARKET,MARKET...; the token is appended to mnems_.
ViewRequest ==
    /\ handler = "viewRequest"
    /\ IF uri = <<>> THEN Level(GetOnly("getView", FALSE), <<>>) /\ UNCHANGED <<uri, mnems>>
       ELSE LET pushed == mnems \o Head(uri)
            IN /\ uri' = Tail(uri)
               /\ IF Len(uri) = 1 THEN Level("GET" :> EP("getView", FALSE, "none", "all"), pushed)
                  ELSE Return(flags)
               /\ mnems' = Scoped(pushed)
    /\ UNCHANGED ids /\ Fixed

\* The response is sent (setContentLength) and the server waits for the
\* next request; only the member vectors ids_ and mnems_ carry over.
Reply ==
    /\ handler = "done"
    /\ handler' = "idle" /\ method' = "GET" /\ path' = <<>> /\ uri' = <<>>
    /\ body' = "none" /\ flags' = {} /\ status' = NoStatus /\ call' = NoCall /\ dn' = <<>>
    /\ UNCHANGED <<ids, mnems>>

Route ==
    \/ RestRequest \/ RecRequest \/ SessRequest
    \/ AssetRequest \/ ContrRequest \/ MarketRequest \/ TraderRequest
    \/ OrderRequest \/ TradeRequest \/ PosnRequest \/ ViewRequest

Init ==
    /\ handler = "idle" /\ method = "GET" /\ path = <<>> /\ uri = <<>>
    /\ body = "none" /\ flags = {} /\ status = NoStatus /\ call = NoCall
    /\ ids = <<>> /\ mnems = <<>> /\ dn = <<>>

Next ==
    \/ handler = "idle" /\ \E m \in Methods, u \in URIs, b \in Bodies, d \in DNs :
                                HttpRequest(m, u, b, d)
    \/ Route
    \/ Reply

Spec == Init /\ [][Next]_vars

(***************************************************************************)
(* The route table, from the comments that head each case of the routing   *)
(* functions ("GET /rec/market/MNEM" ...).  A pattern item is a literal    *)
(* token, "*" for any token, or "ENTS" for a list of several entities.     *)
(***************************************************************************)
R(pat, ops) == [pat |-> pat, ops |-> ops]
Get1(op) == "GET" :> op

Routes ==
    { R(<<"rec">>, Get1("getRec")), R(<<"rec", "ENTS">>, Get1("getRec")),
      R(<<"rec", "asset">>, Get1("getAsset")), R(<<"rec", "asset", "*">>, Get1("getAsset")),
      R(<<"rec", "contr">>, Get1("getContr")), R(<<"rec", "contr", "*">>, Get1("getContr")),
      R(<<"rec", "market">>, Get1("getMarket") @@ ("POST" :> "postMarket")),
      R(<<"rec", "market", "*">>, Get1("getMarket") @@ ("PUT" :> "putMarket")),
      R(<<"rec", "trader">>, Get1("getTrader") @@ ("POST" :> "postTrader")),
      R(<<"rec", "trader", "*">>, Get1("getTrader") @@ ("PUT" :> "putTrader")),
      R(<<"sess">>, Get1("getSess")), R(<<"sess", "ENTS">>, Get1("getSess")),
      R(<<"sess", "order">>, Get1("getOrder")),
      R(<<"sess", "order", "*">>, Get1("getOrder") @@ ("POST" :> "postOrder")),
      R(<<"sess", "order", "*", "*">>,
        Get1("getOrder") @@ ("PUT" :> "putOrder") @@ ("DELETE" :> "deleteOrder")),
      R(<<"sess", "trade">>, Get1("getTrade")),
      R(<<"sess", "trade", "*">>, Get1("getTrade") @@ ("POST" :> "postTrade")),
      R(<<"sess", "trade", "*", "*">>, Get1("getTrade") @@ ("DELETE" :> "deleteTrade")),
      R(<<"sess", "posn">>, Get1("getPosn")), R(<<"sess", "posn", "*">>, Get1("getPosn")),
      R(<<"sess", "posn", "*", "*">>, Get1("getPosn")),
      R(<<"view">>, Get1("getView")), R(<<"view", "*">>, Get1("getView")),
      R(<<"sess", "view">>, Get1("getView")), R(<<"sess", "view", "*">>, Get1("getView")) }

PatItem(x, tok) == CASE x = "*" -> TRUE [] x = "ENTS" -> Many(tok) [] OTHER -> tok = <<x>>
Matches(pat, u) == Len(pat) = Len(u) /\ \A i \in 1..Len(u) : PatItem(pat[i], u[i])
RoutesOf(u) == {r \in Routes : Matches(r.pat, u)}

\* The outcome the table gives: 404, 405, or the call of the route.
Expected(m, u) ==
    IF RoutesOf(u) = {} THEN "NotFound"
    ELSE LET r == CHOOSE r \in RoutesOf(u) : TRUE
         IN IF m \in DOMAIN r.ops THEN r.ops[m] ELSE "MethodNotAllowed"

TypeOK ==
    /\ handler \in {"idle", "done", "restRequest", "recRequest", "sessRequest",
                    "assetRequest", "contrRequest", "marketRequest", "traderRequest",
                    "orderRequest", "tradeRequest", "posnRequest", "viewRequest"}
    /\ method \in Methods /\ body \in Bodies
    /\ path \in URIs \cup {<<>>} /\ IsSuffix(uri, path)
    /\ flags \subseteq {"MatchUri", "MatchMethod"}
    /\ call.op \in {"none"} \cup UNION {Range(r.ops) : r \in Routes}
    /\ dn \in DNs \cup {<<>>}

\* Every finished request whose outcome is decided by routing (a served
\* call, 404 or 405) is the outcome the route table gives its method and
\* URI: the token-popping of restRequest and the routing functions below
\* it, with their emptiness checks and entity dispatch, find exactly the
\* documented routes and serve exactly their methods.
RouteAgrees ==
    handler = "done" /\ status \in {"OK", "NoContent", "NotFound", "MethodNotAllowed"}
      => IF status \in {"OK", "NoContent"} THEN call.op = Expected(method, path)
         ELSE status = Expected(method, path)

EmailOf(d) ==
    LET at == {i \in 1..Len(d) : d[i][1] = "emailAddress"}
    IN IF at = {} THEN "" ELSE SplitPair(d[Min(at)])[2]

\* Every session call is made for the trader whose email the request's own
\* client DN names, never for an empty one; and a request refused with
\* 401 is one whose DN is absent or names no email.  getETrader runs after
\* the request fields are checked and after the route is matched, once
\* per call, deep in the routing functions.
AuthFromDn ==
    handler = "done" =>
        /\ call.trader # "none" => call.trader = EmailOf(dn) /\ call.trader # ""
        /\ status = "Unauthorized" => EmailOf(dn) = ""

\* The route comment of orderRequest and tradeRequest reads
\* "GET /sess/order/MARKET/ID": a GET answered OK names a single order or
\* trade, the one it returns.
SingleIdGet ==
    handler = "done" /\ status = "OK" /\ call.op \in {"getOrder", "getTrade"} /\ Len(path) = 4
      => Len(path[4]) = 1

====
