----------------------------- MODULE SessionGate ----------------------------
(***************************************************************************)
(* One connection that executes commands one after the other, as the loop  *)
(* of `connection` does, and what its authentication gate promises.        *)
(* `proved` is a history: the client has shown, on this connection, that   *)
(* it knows the password.                                                  *)
(***************************************************************************)
EXTENDS Session

VARIABLES
    session,    \* the Session
    proved,
    reply,      \* the reply to the last command
    open        \* the connection goes on

gate_vars == <<session, proved, reply, open>>

GateInit ==
    /\ session = new
    /\ proved = FALSE
    /\ reply = Reply("none")
    /\ open = TRUE

\* The password, for no user or the default one.
Correct(username, password) == password = Password /\ username \in {None, "default"}

\* c shows the password.  A HELLO this server does not speak shows nothing.
Proof(c) ==
    \/ c.type = "auth" /\ Correct(c.username, c.password)
    \/ /\ c.type = "hello" /\ c.protocol \in {None, 2} /\ c.auth # None
       /\ Correct(c.auth.username, c.auth.password)

Execute(c) ==
    LET outcome == execute(session, c)
    IN  /\ open
        /\ session' = outcome.session
        /\ reply' = outcome.reply
        /\ open' = ~outcome.close
        /\ proved' = (proved \/ Proof(c))

GateNext == \E c \in SessionCommands : Execute(c)

GateSpec == GateInit /\ [][GateNext]_gate_vars

-----------------------------------------------------------------------------
GateTypeOK ==
    /\ session \in SessionType
    /\ proved \in BOOLEAN
    /\ open \in BOOLEAN

\* A session is authenticated exactly when no password is configured or its
\* client has shown the password on it: by AUTH, or by a HELLO that is accepted.
\* In particular a HELLO refused for its version authenticates nobody.
AuthenticatedIffProved == session.authenticated <=> (Password = None \/ proved)

\* A connection that is not authenticated is told nothing but errors, and stays
\* open: not the server's identity, not a name, not the counters of INFO.
OnlyErrorsBeforeProof ==
    [][~session'.authenticated => IsError(reply') /\ open']_gate_vars

\* A command that is refused leaves the session as it was, every option of a
\* HELLO included.
RefusalChangesNothing ==
    [][IsError(reply') => session' = session /\ open']_gate_vars
=============================================================================
