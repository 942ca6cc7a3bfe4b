------------------------------ MODULE MCWebApi ------------------------------
(* One resource of a data, a fixed and an action property, for TLC. *)
EXTENDS WebApi, TLC

Alike == Permutations(Workers)

MCOrder == <<"url", "start", "version">>
MCKind == [url |-> "data", start |-> "action", version |-> "fixed"]

Item1(key, form) == [key |-> key, form |-> form]
Ask(what, property, body) == [what |-> what, property |-> property, body |-> body]
MCRequests ==
  { Ask("openapi", NoName, <<>>), Ask("wot", NoName, <<>>), Ask("read", NoName, <<>>), Ask("read", "start", <<>>),
    Ask("post", "url", <<Item1("start", "good"), Item1(Unknown, "good"), Item1("url", "good")>>),
    Ask("post", NoName, <<Item1("url", "good"), Item1("start", "nested")>>),
    Ask("post", NoName, <<Item1("start", "good"), Item1("version", "good")>>),
    Ask("post", "start", <<>>),
    Ask("one", NoName, <<Item1("start", "good")>>) }

=============================================================================
