----------------------------- MODULE Credentials -----------------------------
(***************************************************************************)
(* Whose keys a client sends, and where.  Credentials hold three parts; a  *)
(* part is the name of the account it was taken from ("argument", "paper", *)
(* "plain"), or "" when it is not set.  The process environment is the set *)
(* of variables that are set: <<account, part>>, account "paper" for the   *)
(* APCA_PAPER_ variables and "plain" for the unprefixed ones.              *)
(***************************************************************************)
EXTENDS Naturals

environment == {"paper", "live", "sandbox"}

Parts == {"id", "secret", "oauth"}

empty(creds) == creds.oauth = "" /\ (creds.id = "" \/ creds.secret = "")

get_env(vars, account) == [p \in Parts |-> IF <<account, p>> \in vars THEN account ELSE ""]

\* Mutant of from_env: the parts of the paper pair that are missing are filled in.
from_env_filled(env, vars) ==
  LET paper == get_env(vars, "paper")
      plain == get_env(vars, "plain")
  IN  IF env = "paper"
      THEN [p \in Parts |-> IF paper[p] # "" THEN paper[p] ELSE plain[p]]
      ELSE plain

\* The paper pair, for a paper client, when it is configured; the unprefixed one otherwise.
from_env(env, vars) ==
  IF env = "paper" /\ ~empty(get_env(vars, "paper"))
  THEN get_env(vars, "paper")
  ELSE get_env(vars, "plain")

resolve(creds, env, vars) == IF empty(creds) THEN from_env(env, vars) ELSE creds

\* The parts that go into the headers: a token takes precedence over the pair.
trading_headers(creds) ==
  IF creds.oauth # "" THEN {<<"oauth", creds.oauth>>}
  ELSE {<<p, creds[p]>> : p \in {"id", "secret"}}

trading_base_url(env) == IF env = "live" THEN "api.alpaca.markets" ELSE "paper-api.alpaca.markets"

data_base_url(env) ==
  IF env = "sandbox" THEN "data.sandbox.alpaca.markets" ELSE "data.alpaca.markets"
=============================================================================
