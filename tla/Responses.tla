------------------------------ MODULE Responses ------------------------------
(***************************************************************************)
(* Answers of the REST API and what the clients make of them.              *)
(*                                                                         *)
(* The body of a success is blank, text that is no JSON ("garbage"), an    *)
(* array, or an object.  Of an object the field the method looks at is an  *)
(* array, an object or absent.  An object has entries under the symbols    *)
(* (or groups) in `entries`, and under those in `odd` entries that are not *)
(* of the shape expected; its next_page_token is absent, null, "", a       *)
(* number, or the token of the next page.                                  *)
(*                                                                         *)
(* What a method returns is a function from symbol to a sequence of items; *)
(* the symbol is "all" where there are none.  An item is named by the page *)
(* and the symbol it came from.  The groups of one page are flattened in   *)
(* the order JSON objects are iterated in, which is some order.            *)
(***************************************************************************)
EXTENDS Integers, SequencesExt

CONSTANTS
  Symbols,   \* the symbols (or groups) an object has entries under
  Wanted     \* the one asked for by a method that returns the entry of one

ASSUME SymbolAssumption == IsFiniteSet(Symbols) /\ Wanted \in Symbols

Slot == Symbols \cup {"all"}

Nothing == [s \in Slot |-> <<>>]

All(items) == [Nothing EXCEPT !["all"] = items]

PerSymbol(S, page) == [s \in Slot |-> IF s \in S THEN <<<<page, s>>>> ELSE <<>>]

is_object(body, field) == body.kind = "object" /\ body.field = field

\* Whether a reply has what the method looks for.
Found(reply, body) ==
  CASE reply.shape \in {"model", "codes"} -> body.kind = "object"
    [] reply.shape = "vector"   -> body.kind = "array"
    [] reply.shape = "wallets"  -> body.kind \in {"array", "object"}
    [] reply.shape = "raw"      -> TRUE
    [] reply.shape = "nothing"  -> FALSE
    [] reply.shape = "optional" -> body.kind = "array" \/ is_object(body, "array")
    [] reply.shape = "append"   -> is_object(body, "array")
    [] reply.shape \in {"map", "one"} ->
         IF reply.key = "none" THEN body.kind = "object" ELSE is_object(body, "object")
    [] OTHER -> is_object(body, "object")

\* get<std::string>() throws on an entry of a map of codes that is none.
Misfits(reply, body) == reply.shape = "codes" /\ Found(reply, body) /\ body.odd # {}

\* What one answer gives.  Histories and corporate actions pass over an entry of another shape;
\* a map of models and a chain keep one, and make a default value of it.
Taken(reply, body, page) ==
  IF ~Found(reply, body) THEN Nothing
  ELSE CASE reply.shape \in {"merge", "codes"} -> PerSymbol(body.entries, page)
         [] reply.shape \in {"map", "first"}   -> PerSymbol(body.entries \cup body.odd, page)
         [] reply.shape = "one"     ->
              All(IF Wanted \in body.entries THEN <<<<page, Wanted>>>> ELSE <<>>)
         [] reply.shape = "actions" ->
              All(SetToSeq({<<page, s>> : s \in body.entries}))
         [] OTHER -> All(<<<<page, "all">>>>)

\* Mutant of Absorb: a page replaces what an earlier one gave for the symbol.
AbsorbLast(reply, result, taken) ==
  [s \in Slot |-> IF taken[s] # <<>> THEN taken[s] ELSE result[s]]

\* A page is appended, symbol by symbol; a chain keeps the first entry of a symbol.
Absorb(reply, result, taken) ==
  [s \in Slot |-> IF reply.shape = "first" /\ result[s] # <<>> THEN result[s]
                  ELSE result[s] \o taken[s]]

HasToken(body) == body.kind = "object" /\ body.token \notin {"absent", "null", "empty"}

\* The message of an api_error: the body's own, or the reason, or the body as it came.
message(fault) ==
  IF fault.text \in {"message", "error"} THEN fault.text
  ELSE IF fault.reason # "" THEN fault.reason ELSE fault.text
=============================================================================
