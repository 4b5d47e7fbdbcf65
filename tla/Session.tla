------------------------------- MODULE Session ------------------------------
(***************************************************************************)
(* recall-server/src/session.rs: the state of one connection and what each *)
(* parsed command does to it.  A data command, and an INFO that covers the *)
(* memory section, go on to the engine; the session does not change after  *)
(* that, so `execute` ends with what it decided and Server takes the       *)
(* engine's answer from there.                                             *)
(*                                                                         *)
(* Texts are members of small sets; "" is the empty one, which nonempty    *)
(* turns into None.                                                        *)
(***************************************************************************)
EXTENDS Integers, FiniteSets

CONSTANTS
    Password,       \* Config.password, or None
    Passwords,      \* what clients supply
    Usernames,      \* "default" and others
    Names,          \* connection and library names, "" among them
    None

ASSUME SessionAssumption ==
    /\ Password \in (Passwords \ {""}) \cup {None}
    /\ "default" \in Usernames /\ "" \in Names
    /\ None \notin Passwords \cup Usernames \cup Names
    /\ None \notin {"no_password", "wrongpass", "noproto", "noauth"}

(***************************************************************************)
(* The commands as parse returns them.                                     *)
(***************************************************************************)
Sections == {"server", "clients", "stats", "memory"}

Credentials == [username : Usernames, password : Passwords]

AuthCommands == [type : {"auth"}, username : Usernames \cup {None}, password : Passwords]

HelloCommands ==
    [type : {"hello"}, protocol : {None, 2, 3}, auth : Credentials \cup {None},
     name : Names \cup {None}]

ClientCommands ==
    [type : {"client_setname", "client_lib_name", "client_lib_ver"}, name : Names]

\* "all" and "default" name every section; any other name none.
InfoCommands == [type : {"info"}, section : Sections \cup {None, "all", "default", "other"}]

SessionCommands ==
    AuthCommands \cup HelloCommands \cup ClientCommands \cup InfoCommands
        \cup [type : {"data", "ping", "echo", "quit", "metadata", "client_getname"}]
        \cup [type : {"select"}, index : {0, 1}]

(***************************************************************************)
(* Session::new, authenticate, execute.                                    *)
(***************************************************************************)
SessionType ==
    [authenticated : BOOLEAN, name : (Names \ {""}) \cup {None},
     library_name : (Names \ {""}) \cup {None}, library_version : (Names \ {""}) \cup {None}]

new == [authenticated |-> Password = None, name |-> None, library_name |-> None,
        library_version |-> None]

nonempty(value) == IF value = "" THEN None ELSE value

Reply(text) == [kind |-> "reply", text |-> text]

Failure(code) == [kind |-> "error", text |-> code]

\* A bulk reply that holds what the session keeps or reports.
Bulk(kind, held) == [kind |-> kind, text |-> held]

\* The text of the greeting, which the model leaves out.
hello_reply == Reply("hello")

IsError(reply) == reply.kind = "error"

\* The error authenticate returns, or None.
authenticate(username, supplied) ==
    IF Password = None THEN "no_password"
    ELSE IF supplied = Password /\ username \in {None, "default"} THEN None
    ELSE "wrongpass"

Included(section) ==
    IF section \in {None, "all", "default"} THEN Sections ELSE {section} \cap Sections

\* The sections of an INFO stand for its text; with "memory" it awaits stats.
info(section) == Bulk("info", Included(section))

Outcome(session, reply) == [session |-> session, reply |-> reply, close |-> FALSE]

Auth(s, c) ==
    LET error == authenticate(c.username, c.password)
    IN  IF error = None THEN Outcome([s EXCEPT !.authenticated = TRUE], Reply("OK"))
        ELSE Outcome(s, Failure(error))

\* The checks of HELLO in the order of the code; the error, or None.
HelloError(s, c) ==
    LET error == IF c.auth = None THEN None
                 ELSE authenticate(c.auth.username, c.auth.password)
    IN  IF c.protocol \notin {None, 2} THEN "noproto"
        ELSE IF error # None THEN error
        ELSE IF c.auth = None /\ ~s.authenticated THEN "noauth"
        ELSE None

\* Mutant: HELLO answers before it asks whether the connection is authenticated.
HelloUngated(s, c) ==
    IF HelloError(s, c) \notin {None, "noauth"} THEN Outcome(s, Failure(HelloError(s, c)))
    ELSE Outcome([s EXCEPT !.authenticated = @ \/ c.auth # None], hello_reply)

\* Mutant: the options are carried out before the protocol version is looked at.
HelloAuthFirst(s, c) ==
    LET right == c.auth # None /\ authenticate(c.auth.username, c.auth.password) = None
        t == [s EXCEPT !.authenticated = @ \/ right]
    IN  Outcome(t, IF HelloError(s, c) = None THEN hello_reply
                   ELSE Failure(HelloError(s, c)))

\* Mutant: the name is set first.
HelloNameFirst(s, c) ==
    LET named == [s EXCEPT !.name = IF c.name = None THEN @ ELSE nonempty(c.name)]
    IN  IF HelloError(s, c) = None
        THEN Outcome([named EXCEPT !.authenticated = TRUE], hello_reply)
        ELSE Outcome(named, Failure(HelloError(s, c)))

Hello(s, c) ==
    IF HelloError(s, c) = None
    THEN Outcome([s EXCEPT !.authenticated = TRUE,
                           !.name = IF c.name = None THEN @ ELSE nonempty(c.name)],
                 hello_reply)
    ELSE Outcome(s, Failure(HelloError(s, c)))

\* The commands behind the gate.  "engine" stands for the engine's reply.
Admitted(s, c) ==
    CASE c.type = "data" -> Outcome(s, Reply("engine"))
      [] c.type \in {"ping", "echo", "metadata"} -> Outcome(s, Reply(c.type))
      [] c.type = "quit" -> [Outcome(s, Reply("OK")) EXCEPT !.close = TRUE]
      [] c.type = "select" ->
           Outcome(s, IF c.index = 0 THEN Reply("OK") ELSE Failure("db_index"))
      [] c.type = "client_getname" -> Outcome(s, Bulk("name", s.name))
      [] c.type = "client_setname" ->
           Outcome([s EXCEPT !.name = nonempty(c.name)], Reply("OK"))
      [] c.type = "client_lib_name" ->
           Outcome([s EXCEPT !.library_name = nonempty(c.name)], Reply("OK"))
      [] c.type = "client_lib_ver" ->
           Outcome([s EXCEPT !.library_version = nonempty(c.name)], Reply("OK"))
      [] c.type = "info" -> Outcome(s, info(c.section))

execute(s, c) ==
    CASE c.type = "auth"  -> Auth(s, c)
      [] c.type = "hello" -> Hello(s, c)
      [] OTHER -> IF s.authenticated THEN Admitted(s, c) ELSE Outcome(s, Failure("noauth"))

\* The command needs the engine: execute of an operation, or stats.
CallsEngine(s, c) ==
    /\ s.authenticated
    /\ c.type = "data" \/ (c.type = "info" /\ "memory" \in Included(c.section))
=============================================================================
