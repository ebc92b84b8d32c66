------------------------------- MODULE MCCalls -------------------------------
(***************************************************************************)
(* Calls on small instances: every method of every client with simple      *)
(* answers; one method of each shape of reply with all answers; a few with *)
(* every failure; submit_order with every order; two methods with every    *)
(* assignment of credentials.                                              *)
(***************************************************************************)
EXTENDS Calls

CONSTANTS Rich,       \* methods that are answered with every body
          Failing,    \* methods that are answered with every failure
          Signed      \* methods that are called with every assignment of credentials

MCTokens  == <<"t1", "t2">>

Given(keys) == [k \in keys |-> IF k = "page_token" THEN "t0" ELSE "given"]

KeysOf(method) == ToSet(blocking[method].query.keys)

Plain(method, given, order) ==
  [method |-> method, given |-> given, order |-> order,
   argument |-> get_env({<<"argument", p>> : p \in {"id", "secret"}}, "argument"),
   env |-> "paper", vars |-> {}]

Givens(m) == IF m \in Rich THEN {{}, {"page_token"} \cap KeysOf(m), KeysOf(m)} ELSE {KeysOf(m)}

Everywhere ==
  UNION {{Plain(m, Given(keys), market) : keys \in Givens(m)} :
           m \in DOMAIN blocking \ {"submit_order"}}

OrderCalls == {Plain("submit_order", <<>>, o) : o \in Made \cup {Named(o) : o \in Made}}

Vars == {"paper", "plain"} \X Parts

Accounts ==
  {[method |-> m, given |-> <<>>, order |-> market,
    argument |-> get_env({<<"argument", p>> : p \in has}, "argument"), env |-> e, vars |-> v] :
     m \in Signed, has \in SUBSET Parts, e \in environment, v \in SUBSET Vars}

MCSessions == Everywhere \cup OrderCalls \cup Accounts

JsonBody(kind, field, entries, odd, token) ==
  [kind |-> kind, field |-> field, entries |-> entries, odd |-> odd, token |-> token]

Object(field, entries, token) == JsonBody("object", field, entries, {}, token)

Other(kind) == JsonBody(kind, "absent", {}, {}, "absent")

Paged(call_) == blocking[call_.method].reply.pages # "no"

MCBodies(call_) ==
  IF call_.method \in Signed \cup {"submit_order"} THEN {Object("absent", {}, "absent")}
  ELSE IF call_.method \notin Rich
  THEN {Other("garbage"), Other("array")}
         \cup {Object(f, {"A"}, t) : f \in {"array", "object"},
                                     t \in IF Paged(call_) THEN {"null", "next"} ELSE {"absent"}}
  ELSE {Other(k) : k \in {"blank", "garbage", "array"}}
         \cup {Object("absent", {}, "next")}
         \cup {Object("array", {"B"}, t) : t \in {"null", "next"}}
         \cup {Object("object", {"A"}, "next"), Object("object", {"B"}, "number")}
         \cup {Object("object", {"A", "B"}, t) : t \in {"empty", "next"}}
         \cup {JsonBody("object", "object", {"B"}, {"A"}, "absent")}

Fault(status, done, text, reason) ==
  [status |-> status, done |-> done, text |-> text, reason |-> reason]

MCFaults(call_) ==
  IF call_.method = "submit_order"
  THEN {Fault("5xx", d, "message", "") : d \in BOOLEAN}
         \cup {Fault(s, FALSE, "message", "") : s \in {"429", "4xx"}}
  ELSE IF call_.method \in Signed THEN {Fault("4xx", FALSE, "message", "")}
  ELSE IF call_.method \in Failing
  THEN {Fault(s, FALSE, t, r) : s \in {"429", "4xx"}, t \in {"message", "error", "plain", ""},
                                r \in {"", "reason"}}
  ELSE {Fault("5xx", FALSE, "plain", "")}
=============================================================================
