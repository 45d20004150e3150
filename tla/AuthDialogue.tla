---------------------------- MODULE AuthDialogue ----------------------------
(***************************************************************************)
(* The inductive invariant behind NeverRefused: of a connection without a  *)
(* fatal error it says whose turn it is, what is on its way, and that the  *)
(* plugin, the count of the factors and the password are those that the    *)
(* server's side of the dialogue expects.                                  *)
(***************************************************************************)
EXTENDS Auth

Factors == 1 .. Len(setup.account)

\* The plugin of the factor that the server is at.
PluginNow(k) == setup.account[k.server.factor]

Msg(kind, data) == [kind |-> kind, data |-> data]

ToClient ==
    [kind : {"hello", "err", "junk", "ok", "more", "switch", "next"},
     data : Plugins \cup {"", "fast", "full", "key"}]

ServerStates == {"start", "reply", "token", "full", "encrypted", "done"}

ServerRecords ==
    [state : ServerStates, factor : Factors,
     refused : {"no", "password", "protocol"}, switched : BOOLEAN]

PluginRecords ==
    [name : Plugins \cup {"none"}, state : {"initial", "sent", "wait", "final"},
     pw : 0 .. Len(setup.account)]

Typed(k) ==
    /\ k.phase \in {"hello", "tls", "result", "idle"} /\ k.command \in {"login", "change", "none"}
    /\ k.fatal \in BOOLEAN /\ k.plugin \in PluginRecords
    /\ k.password \in Factors /\ k.commandPassword \in Factors
    /\ k.factor \in 0 .. Len(setup.account) + 1
    /\ Len(k.toServer) <= 1
    /\ k.toClient \in Seq(ToClient) /\ Len(k.toClient) <= 2
    /\ k.server \in ServerRecords

\* The right password, or one of the known mistakes.
Fine(k, pw) == pw \in Factors /\ (pw = k.server.factor \/ WrongPasswordKnown(k))

\* A refusal ends its dialogue, and is forgotten with the next one.
Refusals(k) ==
    \/ k.server.refused = "no"
    \/ k.server.refused = "password" /\ WrongPasswordKnown(k) /\ k.server.state = "done"
    \/ k.server.state = "done" /\ k.toServer # <<>>

EventsTold(k) ==
    /\ k.events \in {<<>>, <<"connect">>, <<"error">>, <<"connect", "error">>}
    /\ ~k.fatal => k.events = IF k.command = "login" THEN <<>> ELSE <<"connect">>

\* authenticationFactor, once the client has answered for the server's factor,
\* and while it is asked for it: a switch counts as a factor of its own.
Counted(k) ==
    k.factor = IF ~setup.mfa THEN 0
               ELSE IF k.server.switched THEN k.server.factor + 1 ELSE k.server.factor

AskedCount(k) ==
    IF ~setup.mfa THEN k.factor = 0
    ELSE IF k.server.switched THEN k.factor = k.server.factor
    ELSE k.factor = k.server.factor - 1 /\ k.factor >= 1

\* The plugin is in its state, with a password that it may send.
Holds(k, name, state) ==
    k.plugin.name = name /\ k.plugin.state = state /\ Fine(k, k.plugin.pw) /\ ~setup.legacy

Silent(k) == k.toClient = <<>> /\ k.toServer = <<>> /\ k.pending = {}

-----------------------------------------------------------------------------
\* The turns.

\* Before the reply to the hello.
Opening(k) ==
    /\ k.command = "login" /\ k.pending = {} /\ k.toServer = <<>> /\ k.password = 1
    /\ \/ k.server.state = "start" /\ k.phase = "hello" /\ k.toClient = <<>>
       \/ /\ k.server.state = "reply" /\ k.phase = "hello"
          /\ \E kind \in {"hello", "err", "junk"} : k.toClient = <<Msg(kind, "")>>
       \/ /\ k.server.state = "reply" /\ k.phase = "tls" /\ k.toClient = <<>>
          /\ k.factor = IF setup.mfa THEN 1 ELSE 0

\* The reply, or the ChangeUser, is on its way.
Requested(k) ==
    /\ k.toClient = <<>> /\ k.pending = {}
    /\ k.factor = IF setup.mfa THEN 1 ELSE 0
    /\ \E kind \in {"reply", "change"}, name \in {"native", "sha2", "sha256", "clear"}, pw \in Factors :
          /\ k.toServer = <<[kind |-> kind, plugin |-> name, pw |-> pw]>>
          /\ name = "sha2" => k.plugin = [name |-> name, state |-> "sent", pw |-> pw] /\ ~setup.legacy
          /\ name = "sha256" => Secure

\* The server asks for the plugin of a factor.
Asked(k) ==
    /\ k.server.state = "token" /\ k.toServer = <<>> /\ k.pending = {} /\ AskedCount(k)
    /\ \/ \E kind \in {"switch", "next"} : k.toClient = <<Msg(kind, PluginNow(k))>>
       \/ /\ k.toClient = <<Msg("more", "fast"), Msg("next", PluginNow(k))>>
          /\ k.plugin.name = "sha2" /\ k.plugin.state = "sent" /\ ~setup.legacy

\* The first answer of that plugin is on its way.
Answered(k) ==
    /\ k.server.state = "token" /\ k.toClient = <<>> /\ k.pending = {} /\ Counted(k)
    /\ \E name \in Plugins, pw \in Factors :
          k.toServer = <<[kind |-> First(PluginNow(k)), plugin |-> name, pw |-> pw]>> /\ Fine(k, pw)
    /\ PluginNow(k) = "sha2" => Holds(k, "sha2", "sent")
    /\ PluginNow(k) = "sha256" /\ ~Secure => Holds(k, "sha256", "wait")

\* The user's plugin has yet to answer.
Pending(k) ==
    /\ k.server.state = "token" /\ k.toClient = <<>> /\ k.toServer = <<>> /\ k.pending = {k.command}
    /\ Counted(k) /\ First(PluginNow(k)) = Custom /\ Fine(k, k.password)

\* The server asks for the password itself or sends its key, or has the answer
\* on its way.
More(k) ==
    /\ k.pending = {} /\ Counted(k)
    /\ \/ /\ k.server.state = "full" /\ k.toServer = <<>> /\ k.toClient = <<Msg("more", "full")>>
          /\ Holds(k, "sha2", "sent")
       \/ /\ k.server.state = "encrypted" /\ k.toServer = <<>> /\ k.toClient = <<Msg("more", "key")>>
          /\ \E name \in {"sha2", "sha256"} : Holds(k, name, "wait")
       \/ /\ k.server.state \in {"full", "encrypted"} /\ k.toClient = <<>>
          /\ \E kind \in {"clear", "keyRequest", "encrypted"}, name \in Plugins, pw \in Factors :
                /\ k.toServer = <<[kind |-> kind, plugin |-> name, pw |-> pw]>> /\ Fine(k, pw)
                /\ k.server.state = "encrypted" <=> kind = "encrypted"
                /\ kind = "keyRequest" => Holds(k, "sha2", "wait")

\* The verdict is on its way.
Done(k) ==
    /\ k.server.state = "done" /\ k.toServer = <<>> /\ k.pending = {}
    /\ \/ \E kind \in {"ok", "err"} : k.toClient = <<Msg(kind, "")>>
       \/ /\ k.toClient = <<Msg("more", "fast"), Msg("ok", "")>>
          /\ k.plugin.name = "sha2" /\ k.plugin.state = "sent" /\ ~setup.legacy

\* Nobody has anything to say after the command, or when the user's plugin
\* has failed a ChangeUser.
Turn(k) ==
    \/ Opening(k)
    \/ k.server.state # "start" /\ k.command = "none" /\ k.phase = "idle" /\ Silent(k)
    \/ /\ k.server.state # "start" /\ k.command # "none" /\ k.phase = "result"
       /\ \/ Requested(k) \/ Asked(k) \/ Answered(k) \/ Pending(k) \/ More(k) \/ Done(k)
          \/ k.command = "change" /\ Silent(k)

Consistent(k) == Typed(k) /\ Refusals(k) /\ EventsTold(k)

InDialogue(k) == Consistent(k) /\ (k.fatal \/ Turn(k))

Dialogues == setup \in Setups /\ \A c \in Conns : InDialogue(conn[c])

=============================================================================
