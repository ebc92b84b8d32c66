-------------------------------- MODULE Calls --------------------------------
(***************************************************************************)
(* A call of a REST client, from its arguments to what it returns or       *)
(* throws: credentials and host, query, body, attempts, pages.  The same   *)
(* call is made twice, on a blocking client and then on its coroutine      *)
(* twin, and the second is given the answers of the first.                 *)
(*                                                                         *)
(* Nothing is shared between calls but the limiter, which is the module    *)
(* RequestContext: here an exchange with the server is one step, whatever  *)
(* it waits for.  The server is external: it answers anything, except that *)
(* it places no second order under a client_order_id it has seen.  A       *)
(* method that returns one page is called again by the caller, with the    *)
(* token it got, while there is one (README.md:291).                       *)
(***************************************************************************)
EXTENDS Credentials, OrderRequest, QueryBuilder, Responses, Tables

CONSTANTS
  Sessions,      \* [method, given, order, argument, env, vars]: the calls that are made
  Bodies(_),     \* the bodies a server may answer a method with
  Faults(_),     \* the failures it may answer it with
  Tokens,        \* the page tokens, in order
  MaxAttempts    \* retry_policy::max_attempts

ASSUME TokenAssumption == Tokens \in Seq(STRING \ {""})
ASSUME AttemptAssumption == MaxAttempts \in Nat \ {0}

Trading          == INSTANCE TradingClient
TradingAwaitable == INSTANCE TradingClientAwaitable
Data             == INSTANCE DataClient
DataAwaitable    == INSTANCE DataClientAwaitable

blocking  == Trading!trading_client ++ Data!data_client
awaitable == TradingAwaitable!trading_client_awaitable ++ DataAwaitable!data_client_awaitable

\* What a caller can ask for: a method there is, values that are not empty, an order that a
\* factory has made, and credentials whose parts are its own.
ASSUME SessionAssumption ==
  \A c \in Sessions :
    /\ c.method \in DOMAIN blocking
    /\ \A k \in DOMAIN c.given : c.given[k] # ""
    /\ c.method = "submit_order" => c.order \in Made \cup {Named(o) : o \in Made}
    /\ c.argument \in [Parts -> {"argument", ""}]

\* What a server can answer: an object's entries are under symbols.
ASSUME BodyAssumption ==
  \A c \in Sessions : \A b \in Bodies(c) : b.entries \cup b.odd \subseteq Symbols

Twins == {"blocking", "awaitable"}

VARIABLES
  call,      \* what is called, with what arguments, on a client made how
  twin,      \* which of the two clients is running it
  params,    \* the query of the request
  page,      \* how many pages have been taken
  attempt,   \* of the request
  sent,      \* the requests of each client
  result,    \* what each has gathered
  outcome,   \* how the call has ended on each
  answers,   \* history: the server's answers, in order
  placed     \* history: how often the server carried out the POST of each

progress == <<params, page, attempt>>
vars     == <<call, twin, progress, sent, result, outcome, answers, placed>>

Method(t) == IF t = "blocking" THEN blocking[call.method] ELSE awaitable[call.method]

OutcomeKinds == {"pending", "returned", "api_error", "parse_error", "type_error"}

TypeOK ==
  /\ call.method \in DOMAIN blocking \cap DOMAIN awaitable
  /\ twin \in Twins
  /\ page \in 0..Len(Tokens) + 1
  /\ attempt \in 1..MaxAttempts
  /\ \A t \in Twins : /\ Len(sent[t]) <= Len(answers)
                      /\ outcome[t].kind \in OutcomeKinds
                      /\ placed[t] \in 0..Len(sent[t])

Outcome(kind, about) == [kind |-> kind, about |-> about]

Pending == Outcome("pending", <<>>)

Init ==
  /\ call \in Sessions
  /\ twin = "blocking"
  /\ params = build(Method("blocking").query, call.given)
  /\ page = 0
  /\ attempt = 1
  /\ sent = [t \in Twins |-> <<>>]
  /\ result = [t \in Twins |-> Nothing]
  /\ outcome = [t \in Twins |-> Pending]
  /\ answers = <<>>
  /\ placed = [t \in Twins |-> 0]

(***************************************************************************)
(* The exchange.                                                           *)
(***************************************************************************)

host(method, env) ==
  IF method \in DOMAIN Data!data_client THEN data_base_url(env) ELSE trading_base_url(env)

Payload(method) ==
  IF method.body = "order_request" THEN to_json(call.order)
  ELSE [keys |-> {method.body}, type |-> "", class |-> ""]

Request ==
  LET method == Method(twin)
  IN  [verb |-> method.verb, host |-> host(call.method, call.env), path |-> method.path,
       params |-> params, body |-> Payload(method),
       keys |-> trading_headers(resolve(call.argument, call.env, call.vars))]

Success(body) == [status |-> "2xx", body |-> body, done |-> TRUE]

\* What the server may say: what it has said before, or anything.
MayAnswer(a) ==
  IF Len(sent[twin]) < Len(answers) THEN a = answers[Len(sent[twin]) + 1]
  ELSE /\ a.status = "2xx" => ~(HasToken(a.body) /\ a.body.token = "next" /\ page >= Len(Tokens))
       /\ a.done /\ placed[twin] > 0 => "client_order_id" \notin Request.body.keys

Exchange(a) ==
  /\ outcome[twin] = Pending
  /\ MayAnswer(a)
  /\ sent' = [sent EXCEPT ![twin] = Append(@, Request)]
  /\ answers' = IF Len(sent[twin]) < Len(answers) THEN answers ELSE Append(answers, a)
  /\ placed' = IF Request.verb = "post" /\ a.done THEN [placed EXCEPT ![twin] = @ + 1] ELSE placed
  /\ UNCHANGED <<call, twin>>

End(kind, about) == outcome' = [outcome EXCEPT ![twin] = Outcome(kind, about)]

(***************************************************************************)
(* Failures.                                                               *)
(***************************************************************************)

\* Mutant of MayRetry: the attempts are counted from zero.
MayRetryOnceMore(a) == a.status \in {"429", "5xx"} /\ attempt <= MaxAttempts

MayRetry(a) == a.status \in {"429", "5xx"} /\ attempt < MaxAttempts

Retry(a) ==
  /\ Exchange(a)
  /\ MayRetry(a)
  /\ attempt' = attempt + 1
  /\ UNCHANGED <<params, page, result, outcome>>

\* throw_api_error() with the last answer.
GiveUp(a) ==
  /\ Exchange(a)
  /\ a.status # "2xx" /\ ~MayRetry(a)
  /\ End("api_error", <<a.status, message(a)>>)
  /\ UNCHANGED <<progress, result>>

Parsed(a) == a.status = "2xx" /\ (Method(twin).reply.shape = "raw" \/ a.body.kind # "garbage")

\* parse_body() throws, whatever the method makes of the body.
Unparsable(a) ==
  /\ Exchange(a)
  /\ a.status = "2xx" /\ ~Parsed(a)
  /\ End("parse_error", <<>>)
  /\ UNCHANGED <<progress, result>>

(***************************************************************************)
(* Pages.                                                                  *)
(***************************************************************************)

Take(a) ==
  LET reply == Method(twin).reply
  IN  /\ Exchange(a)
      /\ Parsed(a)
      /\ page' = page + 1
      /\ result' = [result EXCEPT ![twin] = Absorb(reply, @, Taken(reply, a.body, page'))]

IsLast(a) == Method(twin).reply.pages = "no" \/ ~HasToken(a.body)

\* get<std::string>() throws on what is none: a page's token, or an entry of a map of codes.
NoString(a) ==
  IF IsLast(a) THEN Misfits(Method(twin).reply, a.body) ELSE a.body.token = "number"

\* The last page, or the only answer.
Return(a) ==
  /\ Take(a)
  /\ IsLast(a) /\ ~NoString(a)
  /\ End("returned", <<>>)
  /\ UNCHANGED <<params, attempt>>

\* The exception reaches the caller, and what was gathered is lost.
RefuseString(a) ==
  /\ Take(a)
  /\ NoString(a)
  /\ End("type_error", <<>>)
  /\ UNCHANGED <<params, attempt>>

NextPage(a) ==
  /\ Take(a)
  /\ ~IsLast(a) /\ a.body.token = "next"
  /\ params' = CASE Method(twin).reply.pages = "all" -> set(params, "page_token", Tokens[page'])
                 [] Method(twin).reply.pages = "one" ->
                      build(Method(twin).query, [page_token |-> Tokens[page']] ++ call.given)
  /\ attempt' = 1
  /\ UNCHANGED outcome

\* The call has ended on the blocking client, and is made again on its twin.
Mirror ==
  /\ twin = "blocking" /\ outcome["blocking"] # Pending
  /\ twin' = "awaitable"
  /\ params' = build(Method("awaitable").query, call.given)
  /\ page' = 0
  /\ attempt' = 1
  /\ UNCHANGED <<call, sent, result, outcome, answers, placed>>

Over == outcome["awaitable"] # Pending /\ UNCHANGED vars

Fails == \E a \in Faults(call) : Retry(a) \/ GiveUp(a)

Succeeds ==
  \E body \in Bodies(call) :
    LET a == Success(body) IN Unparsable(a) \/ Return(a) \/ RefuseString(a) \/ NextPage(a)

Next == Fails \/ Succeeds \/ Mirror \/ Over

Spec == Init /\ [][Next]_vars

-----------------------------------------------------------------------------
(***************************************************************************)
(* Properties.                                                             *)
(***************************************************************************)

Query(request) == [k \in {request.params[i][1] : i \in DOMAIN request.params} |->
                     request.params[SelectInSeq(request.params, LAMBDA p : p[1] = k)][2]]

\* The answers among the first n that were pages, and how many there were.
Pages(n) == {i \in 1..n : answers[i].status = "2xx"}

PageNumber(n) == Cardinality(Pages(n))

\* A failed request is repeated to the letter; after a page the next request asks for the page
\* its token names and is otherwise the same, whether paginate() or the caller turns it and
\* whether or not the caller started from a token; no key is ever given twice
\* (request_context.cpp:303, utils.hpp:366, README.md:291).
PagesFollowTokens ==
  \A t \in Twins :
    /\ \A i \in DOMAIN sent[t] :
         \A m, n \in DOMAIN sent[t][i].params :
           sent[t][i].params[m][1] = sent[t][i].params[n][1] => m = n
    /\ \A i \in 1..Len(sent[t]) - 1 :
         LET before == sent[t][i]
             after  == sent[t][i + 1]
         IN  IF answers[i].status = "2xx"
             THEN /\ Query(after) = [page_token |-> Tokens[PageNumber(i)]] ++ Query(before)
                  /\ [after EXCEPT !.params = <<>>] = [before EXCEPT !.params = <<>>]
             ELSE after = before

Offered(reply, body) ==
  IF ~Found(reply, body) THEN {} ELSE IF reply.shape = "append" THEN {"all"} ELSE body.entries

\* A call that gathers pages returns only after the page that has no successor, and then every
\* element of every page it was given, once and in the order of the pages; of a chain, the
\* entry on the first page that has the symbol (response.hpp:44, 58; data_client.cpp:276).
\* It never returns what it had when a request failed.
ReturnedIsWhole ==
  \A t \in Twins :
    LET reply    == Method(t).reply
        n        == Len(sent[t])
        items(s) == {<<PageNumber(i), s>> :
                       i \in {j \in Pages(n) : s \in Offered(reply, answers[j].body)}}
        line(s)  == result[t][IF reply.shape = "actions" THEN "all" ELSE s]
        own(s)   == {i \in DOMAIN line(s) : reply.shape = "actions" => line(s)[i][2] = s}
        chain(s) == {PageNumber(i) : i \in {j \in Pages(n) :
                       /\ is_object(answers[j].body, "object")
                       /\ s \in answers[j].body.entries \cup answers[j].body.odd}}
    IN  reply.pages # "no" /\ outcome[t].kind = "returned" =>
          /\ n \in Pages(n) /\ ~HasToken(answers[n].body)
          /\ \A s \in Slot :
               IF reply.shape = "first"
               THEN result[t][s] = IF chain(s) = {} THEN <<>> ELSE <<<<Min(chain(s)), s>>>>
               ELSE /\ {line(s)[i] : i \in own(s)} = items(s)
                    /\ \A i, j \in own(s) : i < j => line(s)[i][1] < line(s)[j][1]

\* A coroutine client sends the requests its blocking twin would have sent and ends the same
\* way, exceptions included (README.md:298-299), although every method is written twice.
MirrorsBlocking ==
  /\ \A i \in DOMAIN sent["awaitable"] :
       i \in DOMAIN sent["blocking"] /\ sent["awaitable"][i] = sent["blocking"][i]
  /\ outcome["awaitable"] # Pending =>
       /\ outcome["awaitable"] = outcome["blocking"]
       /\ result["awaitable"] = result["blocking"]
       /\ Len(sent["awaitable"]) = Len(sent["blocking"])

\* A request is signed with parts of one account, both of a pair or a token: the caller's if
\* they are usable, and never the paper account's at a host that is not paper's, nor the
\* other at a paper client that has a paper account (auth.hpp:47-57, trading_client.hpp:43-47).
\* Unless nothing usable is configured at all.
KeysOfOneAccount ==
  \A t \in Twins : \A i \in DOMAIN sent[t] :
    LET accounts == {key[2] : key \in sent[t][i].keys}
        paper    == call.env = "paper" /\ ~empty(get_env(call.vars, "paper"))
    IN  CASE ~empty(call.argument) -> accounts = {"argument"}
          [] empty(call.argument) /\ paper -> accounts = {"paper"}
          [] empty(call.argument) /\ ~paper ->
               accounts = {"plain"} \/ (empty(get_env(call.vars, "plain")) /\ accounts \subseteq {"plain", ""})

\* However often it is sent, an order with a client_order_id is placed once at most, although
\* the loop sends it again after a 5xx that may have placed it (request_context.cpp:174); a
\* call that returns has placed it; one without an identifier is placed by no more attempts
\* than the policy allows.
PlacedOnce ==
  call.method = "submit_order" => \A t \in Twins :
    /\ "client_order_id" \in call.order.set => placed[t] <= 1
    /\ outcome[t].kind = "returned" => placed[t] >= 1
    /\ placed[t] <= MaxAttempts

\* What the factories build says one quantity, and the prices its type asks for and no other;
\* a multi-leg order says symbol, side and type in its legs only (order.hpp:202, 218-219).
OrdersComplete ==
  call.method = "submit_order" => \A t \in Twins : \A i \in DOMAIN sent[t] :
    LET body == sent[t][i].body
        has(k) == k \in body.keys
    IN  /\ has("qty") <=> ~has("notional")
        /\ body.class = "mleg" <=> has("legs")
        /\ body.class = "mleg" <=> ~has("symbol") /\ ~has("side") /\ body.type = ""
        /\ has("limit_price") <=> body.type \in {"limit", "stop_limit"}
        /\ has("stop_price") <=> body.type \in {"stop", "stop_limit"}
        /\ body.type = "trailing_stop" <=> ~(has("trail_price") <=> has("trail_percent"))
        /\ body.class = "bracket" <=> has("take_profit") /\ has("stop_loss")
=============================================================================
