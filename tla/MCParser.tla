------------------------------ MODULE MCParser ------------------------------
(***************************************************************************)
(* Requests of every command, at and around its arity, and SET and HELLO   *)
(* with every sequence of options up to a bound.  A key of "long" is over  *)
(* the key limit and a value of "longer" over the value limit; a duration  *)
(* of 5 seconds overflows the i64 of milliseconds, one of 4 does not.      *)
(***************************************************************************)
EXTENDS Parser

Names == DOMAIN SPECS \cup {"Get", "SET", "bogus"}

Words == {"nx", "NX", "xx", "keepttl", "ex", "px", "AUTH", "setname", "getname", "setinfo",
          "lib-name", "lib-ver", "count", "k", "K", "v", "long", "longer", "two words"}

Numbers == {"0", "4", "5", "-1", "01"}

MCTokens == Names \cup Words \cup Numbers

MCLower ==
    [t \in MCTokens |-> CASE t = "Get" -> "get" [] t = "SET" -> "set" [] t = "NX" -> "nx"
                          [] t = "AUTH" -> "auth" [] t = "K" -> "k" [] OTHER -> t]

MCIntegerOf ==
    [t \in MCTokens |-> CASE t = "0" -> 0 [] t = "4" -> 4 [] t = "5" -> 5 [] t = "-1" -> -1
                          [] OTHER -> None]

MCLength == [t \in MCTokens |-> CASE t = "long" -> 2 [] t = "longer" -> 3 [] OTHER -> 1]

MCPrintable == MCTokens \ {"two words"}

BoundedSeq(S, n) == UNION {[1 .. m -> S] : m \in 0 .. n}

\* At most this many arguments after the fixed ones.
MaxSetOptions == 5
MaxHelloOptions == 6

Assigns ==
    {<<"SET", "k", "v">> \o s :
        s \in BoundedSeq({"nx", "NX", "xx", "keepttl", "ex", "px", "0", "4", "5"}, 3)
              \cup BoundedSeq({"nx", "keepttl", "ex", "px", "4"}, MaxSetOptions)}
      \cup [1 .. 3 -> {"set", "k", "long", "longer"}]

\* "K" and "k" differ in case only, as credentials and names may.
Hellos ==
    {<<"hello">> \o s : s \in BoundedSeq({"0", "01", "5", "k"}, 1)}
      \cup {<<"hello", v>> \o s : v \in {"0", "5"}, s \in BoundedSeq({"AUTH", "setname", "k"}, 3)}
      \cup {<<"hello", "4">> \o s :
               s \in BoundedSeq({"auth", "AUTH", "setname", "k", "K", "two words", "longer"}, 4)
                     \cup BoundedSeq({"auth", "setname", "k", "K", "longer"}, MaxHelloOptions)}

Others ==
    {<<n>> \o s : n \in Names \ {"set", "SET", "hello"},
                  s \in BoundedSeq({"k", "v", "long", "longer", "5", "-1"}, 3)
                          \cup BoundedSeq({"k", "v", "longer"}, 4)}

Clients ==
    {<<"client">> \o s : s \in BoundedSeq({"getname", "setname", "setinfo", "lib-name", "lib-ver",
                                           "k", "two words"}, 3)}

Metadatas == {<<"command">> \o s : s \in BoundedSeq({"count", "info", "Get", "bogus"}, 3)}

MCInputs == Assigns \cup Hellos \cup Others \cup Clients \cup Metadatas
=============================================================================
