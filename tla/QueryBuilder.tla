----------------------------- MODULE QueryBuilder -----------------------------
(***************************************************************************)
(* query_builder: an ordered list of <<key, value>>; "" is an unset value. *)
(***************************************************************************)
EXTENDS Integers, SequencesExt

add(params, key, value) == IF value = "" THEN params ELSE Append(params, <<key, value>>)

\* Mutant of set: the key is added a second time.
set_again(params, key, value) == add(params, key, value)

\* Replaces the key where it stands, or adds it.
set(params, key, value) ==
  IF \E i \in DOMAIN params : params[i][1] = key
  THEN [params EXCEPT ![SelectInSeq(params, LAMBDA p : p[1] = key)] = <<key, value>>]
  ELSE add(params, key, value)

\* What a query's build() adds: the keys it always writes, and those the caller has given.
build(query, given) ==
  LET value(k) == IF k \in DOMAIN given THEN given[k]
                  ELSE IF k \in query.always THEN "default" ELSE ""
      built[n \in 0..Len(query.keys)] ==
        IF n = 0 THEN <<>> ELSE add(built[n - 1], query.keys[n], value(query.keys[n]))
  IN  built[Len(query.keys)]
=============================================================================
