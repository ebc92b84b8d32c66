------------------------------ MODULE Endpoints ------------------------------
(***************************************************************************)
(* What an endpoint method of the REST clients is: the verb, the path with *)
(* its holes, the query it builds, the body it sends and what it makes of  *)
(* the answer.  A query is the keys it may add, in order, and those among  *)
(* them it adds whatever the caller leaves out; the builder skips unset    *)
(* optionals, empty strings and empty lists.                               *)
(***************************************************************************)
EXTENDS Sequences

Query(keys) == [keys |-> keys, always |-> {}]

NoQuery == Query(<<>>)

\* A query that adds key k whatever the caller gives.
With(query, k) == [keys |-> Append(query.keys, k), always |-> query.always \cup {k}]

\* What is made of the answer, from which key, and how many pages of it.
Reply(shape, key) == [shape |-> shape, key |-> key, pages |-> "no"]

Model    == Reply("model", "none")    \* an object, or a default value
Vector   == Reply("vector", "none")   \* an array, or an empty vector
Wallets  == Reply("wallets", "none")  \* an array, or one object
Bare     == Reply("map", "none")      \* an object keyed by symbol
Codes    == Reply("codes", "none")    \* an object of strings
Bytes    == Reply("raw", "none")      \* the body as it came
Nothing  == Reply("nothing", "none")  \* the body is dropped
Map(key)      == Reply("map", key)       \* the object under key, keyed by symbol
One(key)      == Reply("one", key)       \* one symbol's entry of it, or a default value
Optional(key) == Reply("optional", key)  \* the array under key, or the array itself

Paginated(reply) == [reply EXCEPT !.pages = "all"]   \* every page, through paginate()
OnePage(reply)   == [reply EXCEPT !.pages = "one"]   \* one page, and its token

Elements(key) == Reply("append", key)                     \* elements appended
Merged(key)   == Reply("merge", key)                      \* appended symbol by symbol
Chain         == Reply("first", "snapshots")              \* the first entry of a symbol
Actions       == Reply("actions", "corporate_actions")    \* groups flattened

Endpoint(verb, path, query, body, reply) ==
  [verb |-> verb, path |-> path, query |-> query, body |-> body, reply |-> reply]

Get(path, query, reply)         == Endpoint("get", path, query, "none", reply)
Del(path, query, reply)         == Endpoint("del", path, query, "none", reply)
Post(path, query, body, reply)  == Endpoint("post", path, query, body, reply)
Put(path, query, body, reply)   == Endpoint("put", path, query, body, reply)
Patch(path, query, body, reply) == Endpoint("patch", path, query, body, reply)
=============================================================================
