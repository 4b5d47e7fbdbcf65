------------------------------ MODULE MCServer ------------------------------
(***************************************************************************)
(* A password is configured and there is one permit for two clients.  The  *)
(* scripts put a data command behind a greeting with credentials, requests *)
(* behind a malformed frame and behind QUIT, and end in the middle of a    *)
(* frame; the greeting, an ECHO and a parse error may exceed the limit of  *)
(* replies.                                                                *)
(***************************************************************************)
EXTENDS Server

Data == [type |-> "data"]
Echo == [type |-> "echo"]
Quit == [type |-> "quit"]
Login == [type |-> "auth", username |-> None, password |-> "secret"]
Greeting ==
    [type |-> "hello", protocol |-> 2,
     auth |-> [username |-> "default", password |-> "secret"], name |-> "n"]

MCScripts ==
    { <<Greeting, Data>>,
      <<Unparsable, Malformed, Data>>,
      <<Login, Echo, Quit, Partial>> }
=============================================================================
