-------------------------------- MODULE Auth --------------------------------
(***************************************************************************)
(* Login and ChangeUser: lib/commands/client_handshake.js, auth_switch.js, *)
(* change_user.js, lib/auth_plugins, startTLS of lib/base/connection.js    *)
(* and lib/tls_session_cache.js.  Connections of one pool share the ssl    *)
(* config and with it the cached TLS session.                              *)
(*                                                                         *)
(* A connection is a record with the client's fields, the two channels     *)
(* and the server's side of the dialogue (external).  The server knows one *)
(* account: a plugin for each authentication factor.  A password is its    *)
(* number: password 1, 2, 3.  The user has configured the right ones, so a *)
(* login must not be refused.                                              *)
(***************************************************************************)
EXTENDS Integers, Sequences, FiniteSets

CONSTANTS
    Conns,          \* connections
    Setups,         \* [account, hello, ssl, serverSSL, verify, cleartext, legacy, mfa]
    MaxMaterial     \* bound: how often the user replaces the ssl config's material

Custom == "custom"          \* the plugin that the user has written (authPlugins)
Plugins == {"native", "sha2", "sha256", "clear", "unknown", Custom}

\* A user's own handler of AuthSwitch (legacy) answers what the plugin of the
\* server expects.
ASSUME ConstantsAssumption ==
    /\ MaxMaterial \in Nat
    /\ Setups \subseteq [account : Seq(Plugins), hello : STRING, ssl : BOOLEAN, serverSSL : BOOLEAN,
                         verify : BOOLEAN, cleartext : BOOLEAN, legacy : BOOLEAN, mfa : BOOLEAN]
    /\ \A s \in Setups :
          /\ Len(s.account) > 0 /\ (s.mfa \/ Len(s.account) = 1)
          /\ s.legacy => \A n \in 1 .. Len(s.account) : s.account[n] \in {"native", "unknown", Custom}

VARIABLES
    setup,          \* the configuration and the account
    conn,           \* the connections
    material,       \* version of ca, cert, key, ... in the ssl config
    cache           \* of tls_session_cache: [material, session], for one peer

vars == <<setup, conn, material, cache>>

NoSession == [issuer |-> "none", good |-> FALSE]
NoPlugin == [name |-> "none", state |-> "initial", pw |-> 0]
NoCache == [material |-> 0, session |-> NoSession]
NoTLS == [material |-> 0, offered |-> NoSession, established |-> FALSE, accepted |-> FALSE,
          good |-> FALSE, issued |-> NoSession]

NewConn ==
    [phase |-> "hello",     \* "hello", "tls", "result" (handshakeResult), "idle"
     command |-> "login",   \* "login", "change" or "none"
     factor |-> 0,          \* authenticationFactor
     password |-> 1,        \* config.password
     commandPassword |-> 1, \* password of the command
     plugin |-> NoPlugin,   \* _authPlugin
     pending |-> {},        \* commands for which a user's plugin has yet to answer
     fatal |-> FALSE,       \* _fatalError
     timer |-> TRUE,        \* connectTimeout
     events |-> <<>>,       \* 'connect' and 'error' of the connection
     waits |-> 0,           \* callbacks of changeUser that are due
     unhandled |-> FALSE,   \* a command emitted 'error', and nobody listens
     tls |-> NoTLS, toClient |-> <<>>, toServer |-> <<>>,
     server |-> [state |-> "start", factor |-> 1, refused |-> "no", switched |-> FALSE]]

Init ==
    /\ setup \in Setups
    /\ conn = [c \in Conns |-> NewConn]
    /\ material = 1 /\ cache = NoCache

Secure == setup.ssl

-----------------------------------------------------------------------------
\* Outcomes.

\* _notifyError for a fatal error, and the 'error' listeners of the handshake.
\* (After an ERR packet in place of the hello only _closing is set: the close
\* of the socket is then ignored as if there had been a fatal error.)
Fail(k) ==
    IF k.fatal THEN k
    ELSE [k EXCEPT !.fatal = TRUE, !.timer = FALSE, !.waits = 0,
                   !.events = IF k.command = "change" THEN @ ELSE Append(@, "error")]

\* The command ends with an error: its callback, or an 'error' event.
CommandError(k) ==
    IF k.command = "change" THEN [k EXCEPT !.waits = 0, !.command = "none", !.phase = "idle"]
    ELSE [Fail(k) EXCEPT !.command = "none", !.phase = "idle"]

\* authSwitchPluginError: only the login listens to its 'error' event.
PluginError(k, command) ==
    IF command = "login" THEN Fail(k) ELSE [k EXCEPT !.unhandled = TRUE]

Send(k, kind, plugin, pw) ==
    IF k.fatal THEN k
    ELSE [k EXCEPT !.toServer = Append(@, [kind |-> kind, plugin |-> plugin, pw |-> pw])]

-----------------------------------------------------------------------------
\* The plugins.  A call is [plugin, out]: its state after, and what it
\* returns: a packet [kind, pw], "nothing", "later" (a promise) or "throw".

Out(plugin, kind) == [plugin |-> plugin, kind |-> kind]

\* Native and clear-text prefer the password of the command.
NewPlugin(k, name) ==
    [name |-> name, state |-> "initial",
     pw |-> IF name \in {"native", "clear"} THEN k.commandPassword ELSE k.password]

caching_sha2_password(p, data) ==
    CASE p.state = "initial" -> Out([p EXCEPT !.state = "sent"], "token")
      [] p.state = "sent" /\ data = "fast" -> Out([p EXCEPT !.state = "final"], "nothing")
      [] p.state = "sent" /\ data = "full" /\ Secure -> Out([p EXCEPT !.state = "final"], "clear")
      [] p.state = "sent" /\ data = "full" /\ ~Secure -> Out([p EXCEPT !.state = "wait"], "keyRequest")
      [] p.state = "wait" -> Out([p EXCEPT !.state = "final"], "encrypted")
      [] OTHER -> Out(p, "throw")

sha256_password(p) ==
    CASE p.state = "initial" /\ Secure -> Out(p, "clear")
      [] p.state = "initial" /\ ~Secure -> Out([p EXCEPT !.state = "wait"], "keyRequest")
      [] p.state = "wait" -> Out([p EXCEPT !.state = "final"], "encrypted")
      [] OTHER -> Out(p, "throw")

CallPlugin(p, data) ==
    CASE p.name = "native" -> Out(p, "token")
      [] p.name = "clear" -> Out(p, "clear")
      [] p.name = "sha2" -> caching_sha2_password(p, data)
      [] p.name = "sha256" -> sha256_password(p)
      [] p.name = Custom -> Out(p, "later")

\* The result of a call goes to the server, now or when the promise resolves.
Answer(k, call) ==
    LET q == [k EXCEPT !.plugin = call.plugin]
    IN  CASE call.kind = "throw" -> CommandError(q)
          [] call.kind = "nothing" -> q
          [] call.kind = "later" -> [q EXCEPT !.pending = @ \cup {k.command}]
          [] OTHER -> Send(q, call.kind, call.plugin.name, call.plugin.pw)

-----------------------------------------------------------------------------
\* ClientHandshake.

canUseDirectAuth(method) ==
    /\ ~setup.legacy
    /\ \/ method \in {"native", "sha2"}
       \/ method = "sha256" /\ Secure
       \/ method = "clear" /\ Secure /\ setup.cleartext

\* Faulty: the plugin of the reply is created, but not called.
sendCredentialsUnprimed(k) ==
    LET method == IF canUseDirectAuth(setup.hello) THEN setup.hello ELSE "native"
        q == [k EXCEPT !.commandPassword = k.password, !.phase = "result"]
    IN  [Send(q, "reply", method, q.password)
         EXCEPT !.plugin = IF method = "native" THEN NoPlugin ELSE NewPlugin(q, method)]

\* The reply carries the first answer of the plugin that is used, and the
\* plugin is called once so that it is where the server believes it to be.
sendCredentials(k) ==
    LET method == IF canUseDirectAuth(setup.hello) THEN setup.hello ELSE "native"
        q == [k EXCEPT !.commandPassword = k.password, !.phase = "result"]
        call == CallPlugin(NewPlugin(q, method), "scramble")
    IN  [Send(q, "reply", method, q.password)
         EXCEPT !.plugin = IF method = "native" THEN NoPlugin ELSE call.plugin]

\* Faulty: the connect timer ends with the hello.
handshakeInitUntimed(k) ==
    LET q == [k EXCEPT !.factor = IF setup.mfa THEN 1 ELSE 0, !.timer = FALSE]
    IN  IF ~setup.ssl THEN sendCredentials(q)
        ELSE IF ~setup.serverSSL THEN CommandError(k)
        ELSE [q EXCEPT !.phase = "tls",
                       !.tls = [NoTLS EXCEPT !.material = material,
                                             !.offered = IF cache.material = material
                                                         THEN cache.session ELSE NoSession]]

handshakeInit(k) ==
    LET q == [k EXCEPT !.factor = IF setup.mfa THEN 1 ELSE 0]
    IN  IF ~setup.ssl THEN sendCredentials(q)
        ELSE IF ~setup.serverSSL THEN CommandError(k)
        ELSE [q EXCEPT !.phase = "tls",
                       !.tls = [NoTLS EXCEPT !.material = material,
                                             !.offered = IF cache.material = material
                                                         THEN cache.session ELSE NoSession]]

\* authSwitchRequestMoreData.
moreData(k, data) ==
    IF setup.legacy THEN [k EXCEPT !.pending = @ \cup {k.command}]
    ELSE IF k.plugin = NoPlugin THEN CommandError(k)
    ELSE Answer(k, CallPlugin(k.plugin, data))

\* AuthSwitchRequest and AuthNextFactor: the password of the factor, then
\* authSwitchRequest.
NextPassword(k) ==
    IF k.factor = 0 THEN k ELSE [k EXCEPT !.password = k.factor, !.factor = @ + 1]

authSwitchRequest(k, name) ==
    LET q == NextPassword(k)
    IN  CASE setup.legacy /\ name # "native" -> [q EXCEPT !.pending = @ \cup {k.command}]
          [] ~setup.legacy /\ name = "clear" /\ ~setup.cleartext -> CommandError(q)
          [] name = "unknown" /\ ~setup.legacy -> CommandError(q)
          [] OTHER -> Answer(q, CallPlugin(NewPlugin(q, name), "scramble"))

\* An OK: the end of the login, or of the ChangeUser.
Succeeded(k) ==
    LET q == [k EXCEPT !.command = "none", !.phase = "idle", !.timer = FALSE, !.waits = 0]
    IN  IF k.command = "login" THEN [q EXCEPT !.events = Append(@, "connect")] ELSE q

\* handlePacket: an ERR packet, or one that is not expected, ends the command;
\* after a fatal error no packet is handled.
Handled(k, packet) ==
    CASE k.fatal \/ k.command = "none" -> k
      [] ~k.fatal /\ k.phase = "hello" /\ packet.kind = "hello" -> handshakeInit(k)
      [] ~k.fatal /\ k.phase = "result" /\ packet.kind = "ok" -> Succeeded(k)
      [] ~k.fatal /\ k.phase = "result" /\ packet.kind = "more" -> moreData(k, packet.data)
      [] ~k.fatal /\ k.phase = "result" /\ packet.kind \in {"switch", "next"} ->
            authSwitchRequest(k, packet.data)
      [] OTHER -> CommandError(k)

HandlePacket(c) ==
    /\ conn[c].toClient # <<>>
    /\ LET k == [conn[c] EXCEPT !.toClient = Tail(@)]
       IN  conn' = [conn EXCEPT ![c] = Handled(k, Head(conn[c].toClient))]
    /\ UNCHANGED <<setup, material, cache>>

\* The promise of a user's plugin, or the callback of the legacy handler.
PluginAnswers(c, command, ok) ==
    /\ command \in conn[c].pending
    /\ LET k == [conn[c] EXCEPT !.pending = @ \ {command}]
       IN  conn' = [conn EXCEPT ![c] = IF ok THEN Send(k, Custom, Custom, k.password)
                                       ELSE PluginError(k, command)]
    /\ UNCHANGED <<setup, material, cache>>

\* changeUser(): with its own passwords, or those of the config as it is now.
ChangeUser(c, explicit) ==
    /\ conn[c].command = "none" /\ ~conn[c].fatal /\ conn[c].events = <<"connect">>
    /\ LET pw == IF explicit THEN 1 ELSE conn[c].password
           k == [conn[c] EXCEPT !.command = "change", !.phase = "result", !.waits = 1,
                                !.password = pw, !.commandPassword = pw,
                                !.factor = IF setup.mfa THEN 1 ELSE 0]
       IN  conn' = [conn EXCEPT ![c] = Send(k, "change", "native", pw)]
    /\ UNCHANGED <<setup, material, cache>>

-----------------------------------------------------------------------------
\* Failures: the connect timer, and a connection that is lost.

Timeout(c) ==
    /\ conn[c].timer
    /\ conn' = [conn EXCEPT ![c] = Fail(@)]
    /\ UNCHANGED <<setup, material, cache>>

\* An error of the socket; in the TLS handshake it is an error of startTLS,
\* which forgets the session.
Lose(c) ==
    /\ ~conn[c].fatal
    /\ cache' = IF conn[c].phase = "tls" /\ ~conn[c].tls.established
                   /\ cache.material = conn[c].tls.material
                THEN [cache EXCEPT !.session = NoSession] ELSE cache
    /\ conn' = [conn EXCEPT ![c] = Fail(@)]
    /\ UNCHANGED <<setup, material>>

-----------------------------------------------------------------------------
\* startTLS and TlsSessionSlot.

\* Faulty: a session is cached whatever became of the material.
setAlways(tls, session) ==
    cache' = [material |-> material, session |-> session]

\* set(): not when the material has been replaced since the slot was made.
set(tls, session) ==
    cache' = IF cache.material = tls.material \/ tls.material = material
             THEN [material |-> tls.material, session |-> session] ELSE cache

\* Faulty: a session counts as soon as it is issued.
sessionEventEarly(c) ==
    LET tls == conn[c].tls  session == [issuer |-> c, good |-> tls.good]
    IN  set(tls, session) /\ UNCHANGED conn

\* The 'session' event, before or after the peer is accepted.
sessionEvent(c) ==
    LET tls == conn[c].tls  session == [issuer |-> c, good |-> tls.good]
    IN  IF tls.accepted THEN set(tls, session) /\ UNCHANGED conn
        ELSE conn' = [conn EXCEPT ![c].tls.issued = session] /\ UNCHANGED cache

\* Which peer it is shows in the handshake, unless a session is resumed.
PeerKnown(c, good) ==
    /\ conn[c].phase = "tls" /\ ~conn[c].tls.established /\ ~conn[c].fatal
    /\ conn' = [conn EXCEPT ![c].tls.good = good]
    /\ UNCHANGED <<setup, material, cache>>

Session(c) ==
    /\ conn[c].tls.material # 0 /\ ~conn[c].fatal /\ conn[c].tls.issued = NoSession
    /\ sessionEvent(c)
    /\ UNCHANGED <<setup, material>>

\* The callback of Tls.connect.  A new session's peer is checked; a resumed
\* one was, when it was new.
SecureConnect(c, reused) ==
    /\ conn[c].phase = "tls" /\ ~conn[c].tls.established /\ ~conn[c].fatal
    /\ reused => conn[c].tls.offered # NoSession
    /\ LET k == [conn[c] EXCEPT !.tls.established = TRUE,
                                !.tls.good = IF reused THEN conn[c].tls.offered.good ELSE @]
       IN  IF setup.verify /\ ~reused /\ ~k.tls.good
           THEN /\ conn' = [conn EXCEPT ![c] = Fail(k)]
                /\ cache' = IF cache.material = k.tls.material
                            THEN [cache EXCEPT !.session = NoSession] ELSE cache
           ELSE /\ conn' = [conn EXCEPT ![c] = sendCredentials([k EXCEPT !.tls.accepted = TRUE])]
                /\ IF k.tls.issued # NoSession
                   THEN set(k.tls, [k.tls.issued EXCEPT !.good = k.tls.good]) ELSE UNCHANGED cache
    /\ UNCHANGED <<setup, material>>

\* The user puts other certificates into the ssl config.
ReplaceMaterial ==
    /\ setup.ssl /\ material <= MaxMaterial
    /\ material' = material + 1
    /\ UNCHANGED <<setup, conn, cache>>

-----------------------------------------------------------------------------
\* The server (external).

Reply(k, kind, data) == [k EXCEPT !.toClient = Append(@, [kind |-> kind, data |-> data])]
Refuse(k, why) == [Reply(k, "err", "") EXCEPT !.server.refused = why, !.server.state = "done"]

\* A factor is passed: the next one, or OK.
Passed(k) ==
    LET n == k.server.factor + 1
    IN  IF n > Len(setup.account) THEN [Reply(k, "ok", "") EXCEPT !.server.state = "done"]
        ELSE [Reply(k, "next", setup.account[n]) EXCEPT !.server.factor = n, !.server.state = "token"]

Check(k, pw) == IF pw = k.server.factor THEN Passed(k) ELSE Refuse(k, "password")

\* In a reply the first answer of the plugin comes with it.
First(plugin) == CASE plugin \in {"native", "sha2"} -> "token"
                   [] plugin \in {"sha256", "clear"} -> IF plugin = "clear" \/ Secure THEN "clear" ELSE "keyRequest"
                   [] OTHER -> Custom

\* What the server makes of m, an answer in the dialogue of plugin p.
Dialogue(k, p, m, fast) ==
    CASE k.server.state = "token" /\ m.kind = First(p) /\ p = "sha2" ->
            IF fast /\ m.pw = k.server.factor THEN Passed(Reply(k, "more", "fast"))
            ELSE [Reply(k, "more", "full") EXCEPT !.server.state = "full"]
      [] k.server.state = "token" /\ m.kind = First(p) /\ p # "sha2" /\ m.kind # "keyRequest" -> Check(k, m.pw)
      [] k.server.state = "full" /\ m.kind = "clear" -> Check(k, m.pw)
      [] \/ k.server.state = "full" /\ m.kind = "keyRequest"
         \/ k.server.state = "token" /\ p = "sha256" /\ m.kind = "keyRequest" ->
            [Reply(k, "more", "key") EXCEPT !.server.state = "encrypted"]
      [] k.server.state = "encrypted" /\ m.kind = "encrypted" -> Check(k, m.pw)
      [] OTHER -> Refuse(k, "protocol")

Received(k, m, fast) ==
    LET p == setup.account[1]
        q == [k EXCEPT !.server.state = "token", !.server.factor = 1, !.server.refused = "no"]
    IN  IF m.kind \notin {"reply", "change"} THEN Dialogue(k, setup.account[k.server.factor], m, fast)
        ELSE IF m.plugin = p
        THEN Dialogue([q EXCEPT !.server.switched = FALSE], p, [m EXCEPT !.kind = First(p)], fast)
        ELSE [Reply(q, "switch", p) EXCEPT !.server.switched = TRUE]

ServerHello(c) ==
    /\ conn[c].server.state = "start" /\ ~conn[c].fatal
    /\ \E kind \in {"hello", "err", "junk"} :
          conn' = [conn EXCEPT ![c] = [Reply(@, kind, "") EXCEPT !.server.state = "reply"]]
    /\ UNCHANGED <<setup, material, cache>>

ServerReceive(c, fast) ==
    /\ conn[c].toServer # <<>> /\ ~conn[c].fatal
    /\ LET m == Head(conn[c].toServer)  k == [conn[c] EXCEPT !.toServer = Tail(@)]
       IN  conn' = [conn EXCEPT ![c] = Received(k, m, fast)]
    /\ UNCHANGED <<setup, material, cache>>

Next ==
    \/ \E c \in Conns :
          \/ HandlePacket(c) \/ Timeout(c) \/ Lose(c) \/ Session(c) \/ ServerHello(c)
          \/ \E command \in {"login", "change"}, ok \in BOOLEAN : PluginAnswers(c, command, ok)
          \/ \E b \in BOOLEAN : \/ ChangeUser(c, b) \/ SecureConnect(c, b)
                                \/ ServerReceive(c, b) \/ PeerKnown(c, b)
    \/ ReplaceMaterial

\* Timers fire.
Spec == Init /\ [][Next]_vars /\ \A c \in Conns : WF_vars(Timeout(c))

-----------------------------------------------------------------------------
\* Properties.

TypeOK ==
    \A c \in Conns :
        LET k == conn[c]
        IN  /\ k.phase \in {"hello", "tls", "result", "idle"} /\ k.command \in {"login", "change", "none"}
            /\ k.factor \in 0 .. Len(setup.account) + 1 /\ k.password \in 1 .. Len(setup.account)
            /\ Len(k.toServer) <= 1 /\ Len(k.toClient) <= 2
            /\ k.events \in {<<>>, <<"connect">>, <<"error">>, <<"connect", "error">>}

\* Where the driver is known to use another password than the one of the
\* factor: a factor after the first when the first came without a switch; a
\* plugin that prefers the password of the command; a changeUser() without
\* passwords after several factors.
WrongPasswordKnown(k) ==
    Len(setup.account) > 1 /\ (~k.server.switched \/ k.commandPassword # 1
        \/ \E n \in 2 .. Len(setup.account) : setup.account[n] \in {"native", "clear"})

\* A server that follows the protocol never finds a packet it does not
\* expect, nor a wrong password, whichever plugins and switches there are.
\* Last: a refusal may still stand while the next ChangeUser is on its way; the
\* connection then has the password of that one, not of the one refused.
NeverRefused ==
    /\ TypeOK
    /\ \A c \in Conns : \/ conn[c].server.refused = "no"
                        \/ conn[c].server.refused = "password" /\ WrongPasswordKnown(conn[c])
                        \/ conn[c].server.state = "done" /\ conn[c].toServer # <<>>

\* A connection goes on only with a peer that was verified, in this handshake
\* or in the one that issued the session it resumes; and only such sessions
\* of the present material are cached.
OnlyVerifiedPeers ==
    setup.verify =>
        /\ \A c \in Conns : conn[c].tls.accepted => conn[c].tls.good
        /\ cache.session # NoSession => cache.session.good

\* A session is offered only with the certificates it was issued for.
SessionOfMaterial ==
    cache.session # NoSession /\ cache.session.issuer \in Conns =>
        conn[cache.session.issuer].tls.material = cache.material

\* Whatever the server, the network and the plugins do, the user hears of
\* each login.
LoginAnswered == \A c \in Conns : <>(conn[c].events # <<>>)

=============================================================================
