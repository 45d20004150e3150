----------------------------- MODULE AuthProofs -----------------------------
(***************************************************************************)
(* For any connections, accounts and configurations: a connection goes on  *)
(* only with a verified peer, a cached TLS session belongs to the material *)
(* it is offered with, and the server never refuses the right password.    *)
(*                                                                         *)
(* Most of the login leaves the TLS part of a connection alone (Keeps):    *)
(* one lemma for each operator says so, and the invariant has to be shown  *)
(* again only for the hello and the events of startTLS.  The dialogue is   *)
(* the rest: a lemma for each operator of the server and of the client     *)
(* takes the turn before it (AuthDialogue) to the turn after it.           *)
(***************************************************************************)
EXTENDS AuthDialogue, SequenceTheorems, TLAPS

Sessions == [issuer : Conns \cup {"none"}, good : BOOLEAN]

TLSRecords ==
    [material : Nat, offered : Sessions, established : BOOLEAN, accepted : BOOLEAN,
     good : BOOLEAN, issued : Sessions]

\* The fields of a connection that matter here exist, and have their types.
ConnLike(k) ==
    {"tls", "phase", "events", "fatal", "timer", "waits", "command", "unhandled", "toServer",
     "toClient", "commandPassword", "password", "plugin", "pending", "factor", "server"} \subseteq DOMAIN k
    /\ k.tls \in TLSRecords

\* A step of the login that does not concern TLS.
Keeps(k, q) ==
    /\ DOMAIN q = DOMAIN k
    /\ q.tls = k.tls
    /\ q.phase = "hello" => k.phase = "hello"

TypeInv ==
    /\ conn = [c \in Conns |-> conn[c]]
    /\ \A c \in Conns : ConnLike(conn[c])
    /\ cache \in [material : Nat, session : Sessions]
    /\ material \in Nat \ {0}

\* Before the hello there is no TLS; what is accepted is established; a
\* session that was issued is the connection's own.
Stages(c, k) ==
    /\ k.phase = "hello" => k.tls.material = 0
    /\ k.tls.accepted => k.tls.established
    /\ k.tls.issued # NoSession => k.tls.issued.issuer = c /\ k.tls.material # 0

CachedSession ==
    cache.session # NoSession /\ cache.session.issuer \in Conns =>
        /\ conn[cache.session.issuer].tls.material = cache.material
        /\ cache.material # 0

Verified(k) ==
    /\ k.tls.accepted => k.tls.good
    /\ k.tls.offered # NoSession => k.tls.offered.good

AuthInv ==
    /\ TypeInv
    /\ \A c \in Conns : Stages(c, conn[c])
    /\ CachedSession
    /\ setup.verify => /\ \A c \in Conns : Verified(conn[c])
                       /\ cache.session # NoSession => cache.session.good

-----------------------------------------------------------------------------
\* The operators of the login.

LEMMA KeepsTrans ==
    ASSUME NEW k, NEW q, NEW r, Keeps(k, q), Keeps(q, r) PROVE Keeps(k, r)
BY DEF Keeps

LEMMA KeepsConnLike ==
    ASSUME NEW k, NEW q, ConnLike(k), Keeps(k, q) PROVE ConnLike(q)
BY DEF Keeps, ConnLike

LEMMA FailKeeps == ASSUME NEW k, ConnLike(k) PROVE Keeps(k, Fail(k))
BY DEF Keeps, ConnLike, Fail

LEMMA CommandErrorKeeps == ASSUME NEW k, ConnLike(k) PROVE Keeps(k, CommandError(k))
<1>1. Keeps(k, Fail(k))
  BY FailKeeps
<1> QED
  BY <1>1 DEF Keeps, ConnLike, CommandError

LEMMA PluginErrorKeeps ==
    ASSUME NEW k, NEW command, ConnLike(k) PROVE Keeps(k, PluginError(k, command))
BY FailKeeps DEF Keeps, ConnLike, PluginError

LEMMA SendKeeps ==
    ASSUME NEW k, NEW kind, NEW plugin, NEW pw, ConnLike(k)
    PROVE  Keeps(k, Send(k, kind, plugin, pw))
BY DEF Keeps, ConnLike, Send

LEMMA AnswerKeeps == ASSUME NEW k, NEW call, ConnLike(k) PROVE Keeps(k, Answer(k, call))
<1> DEFINE q == [k EXCEPT !.plugin = call.plugin]
<1>1. Keeps(k, q) /\ ConnLike(q)
  BY DEF Keeps, ConnLike
<1>2. Keeps(q, CommandError(q))
  BY <1>1, CommandErrorKeeps
<1>3. Keeps(q, q) /\ Keeps(q, [q EXCEPT !.pending = @ \cup {k.command}])
  BY <1>1 DEF Keeps, ConnLike
<1>4. Keeps(q, Send(q, call.kind, call.plugin.name, call.plugin.pw))
  BY <1>1, SendKeeps
<1>5. Keeps(q, Answer(k, call))
  BY <1>2, <1>3, <1>4 DEF Answer
<1> QED
  BY <1>1, <1>5, KeepsTrans

LEMMA sendCredentialsKeeps ==
    ASSUME NEW k, ConnLike(k) PROVE Keeps(k, sendCredentials(k))
<1> DEFINE method == IF canUseDirectAuth(setup.hello) THEN setup.hello ELSE "native"
           q == [k EXCEPT !.commandPassword = k.password, !.phase = "result"]
           call == CallPlugin(NewPlugin(q, method), "scramble")
           r == Send(q, "reply", method, q.password)
<1>1. Keeps(k, q) /\ ConnLike(q)
  BY DEF Keeps, ConnLike
<1>2. Keeps(q, r)
  BY <1>1, SendKeeps
<1>3. ConnLike(r)
  BY <1>1, <1>2, KeepsConnLike
<1>4. sendCredentials(k) = [r EXCEPT !.plugin = IF method = "native" THEN NoPlugin ELSE call.plugin]
  BY DEF sendCredentials
<1>5. Keeps(r, sendCredentials(k))
  BY <1>3, <1>4 DEF Keeps, ConnLike
<1> QED
  BY <1>1, <1>2, <1>5, KeepsTrans

LEMMA moreDataKeeps == ASSUME NEW k, NEW data, ConnLike(k) PROVE Keeps(k, moreData(k, data))
<1>1. Keeps(k, [k EXCEPT !.pending = @ \cup {k.command}])
  BY DEF Keeps, ConnLike
<1>2. Keeps(k, CommandError(k))
  BY CommandErrorKeeps
<1>3. Keeps(k, Answer(k, CallPlugin(k.plugin, data)))
  BY AnswerKeeps
<1> QED
  BY <1>1, <1>2, <1>3 DEF moreData

LEMMA authSwitchRequestKeeps ==
    ASSUME NEW k, NEW name, ConnLike(k) PROVE Keeps(k, authSwitchRequest(k, name))
<1> DEFINE q == NextPassword(k)
<1>1. Keeps(k, q)
  BY DEF Keeps, ConnLike, NextPassword
<1>2. ConnLike(q)
  BY <1>1, KeepsConnLike
<1>3. Keeps(q, [q EXCEPT !.pending = @ \cup {k.command}])
  BY <1>2 DEF Keeps, ConnLike
<1>4. Keeps(q, CommandError(q))
  BY <1>2, CommandErrorKeeps
<1>5. Keeps(q, Answer(q, CallPlugin(NewPlugin(q, name), "scramble")))
  BY <1>2, AnswerKeeps
<1>6. Keeps(q, authSwitchRequest(k, name))
  BY <1>3, <1>4, <1>5 DEF authSwitchRequest
<1> QED
  BY <1>1, <1>6, KeepsTrans

LEMMA SucceededKeeps == ASSUME NEW k, ConnLike(k) PROVE Keeps(k, Succeeded(k))
BY DEF Keeps, ConnLike, Succeeded

LEMMA NewTLS ==
    AuthInv => [NoTLS EXCEPT !.material = material,
                             !.offered = IF cache.material = material
                                         THEN cache.session ELSE NoSession] \in TLSRecords
BY DEF AuthInv, TypeInv, NoTLS, NoSession, TLSRecords, Sessions

\* The hello keeps the TLS part, or starts it.
LEMMA handshakeInitTLS ==
    ASSUME NEW k, ConnLike(k), AuthInv
    PROVE  \/ Keeps(k, handshakeInit(k))
           \/ /\ DOMAIN handshakeInit(k) = DOMAIN k
              /\ handshakeInit(k).phase = "tls"
              /\ handshakeInit(k).tls = [NoTLS EXCEPT !.material = material,
                                                      !.offered = IF cache.material = material
                                                                  THEN cache.session ELSE NoSession]
<1> DEFINE q == [k EXCEPT !.factor = IF setup.mfa THEN 1 ELSE 0]
<1>1. Keeps(k, q) /\ ConnLike(q)
  BY DEF Keeps, ConnLike
<1>2. CASE ~setup.ssl
  <2>1. Keeps(q, sendCredentials(q))
    BY <1>1, sendCredentialsKeeps
  <2> QED
    BY <1>1, <1>2, <2>1, KeepsTrans DEF handshakeInit
<1>3. CASE setup.ssl /\ ~setup.serverSSL
  BY <1>3, CommandErrorKeeps DEF handshakeInit
<1>4. CASE setup.ssl /\ setup.serverSSL
  BY <1>1, <1>4 DEF handshakeInit, ConnLike
<1> QED
  BY <1>2, <1>3, <1>4

\* The server's side of the dialogue.
LEMMA ReplyKeeps ==
    ASSUME NEW k, NEW kind, NEW data, ConnLike(k) PROVE Keeps(k, Reply(k, kind, data))
BY DEF Keeps, ConnLike, Reply

\* A change of the server's state only.
LEMMA ServerKeeps ==
    ASSUME NEW k, NEW server, ConnLike(k) PROVE Keeps(k, [k EXCEPT !.server = server])
BY DEF Keeps, ConnLike

LEMMA RefuseKeeps == ASSUME NEW k, NEW why, ConnLike(k) PROVE Keeps(k, Refuse(k, why))
<1> DEFINE q == Reply(k, "err", "")
<1>1. Keeps(k, q) /\ ConnLike(q)
  BY ReplyKeeps, KeepsConnLike
<1>2. Keeps(q, Refuse(k, why))
  BY <1>1 DEF Refuse, Keeps, ConnLike
<1> QED
  BY <1>1, <1>2, KeepsTrans

LEMMA PassedKeeps == ASSUME NEW k, ConnLike(k) PROVE Keeps(k, Passed(k))
<1> DEFINE ok == Reply(k, "ok", "")
<1>1. Keeps(k, ok) /\ ConnLike(ok)
  BY ReplyKeeps, KeepsConnLike
<1>2. Keeps(k, [ok EXCEPT !.server.state = "done"])
  <2> HIDE DEF ok
  <2> QED
    BY <1>1 DEF Keeps, ConnLike
<1>3. ASSUME NEW n
      PROVE  Keeps(k, [Reply(k, "next", setup.account[n])
                         EXCEPT !.server.factor = n, !.server.state = "token"])
  <2> DEFINE nx == Reply(k, "next", setup.account[n])
  <2>1. Keeps(k, nx) /\ ConnLike(nx)
    BY ReplyKeeps, KeepsConnLike
  <2> HIDE DEF nx
  <2>2. Keeps(k, [nx EXCEPT !.server.factor = n, !.server.state = "token"])
    BY <2>1 DEF Keeps, ConnLike
  <2> QED
    BY <2>2 DEF nx
<1>4. Keeps(k, [Reply(k, "next", setup.account[k.server.factor + 1])
                  EXCEPT !.server.factor = k.server.factor + 1, !.server.state = "token"])
  BY <1>3
<1> QED
  BY <1>2, <1>4 DEF Passed

LEMMA CheckKeeps == ASSUME NEW k, NEW pw, ConnLike(k) PROVE Keeps(k, Check(k, pw))
BY PassedKeeps, RefuseKeeps DEF Check

LEMMA DialogueKeeps ==
    ASSUME NEW k, NEW p, NEW m, NEW fast, ConnLike(k) PROVE Keeps(k, Dialogue(k, p, m, fast))
<1>1. ASSUME NEW data, NEW state
      PROVE  Keeps(k, [Reply(k, "more", data) EXCEPT !.server.state = state])
  <2> DEFINE q == Reply(k, "more", data)
  <2>1. Keeps(k, q) /\ ConnLike(q)
    BY ReplyKeeps, KeepsConnLike
  <2>2. Keeps(q, [q EXCEPT !.server.state = state])
    BY <2>1 DEF Keeps, ConnLike
  <2> HIDE DEF q
  <2>3. Keeps(k, [q EXCEPT !.server.state = state])
    BY <2>1, <2>2, KeepsTrans
  <2> QED
    BY <2>3 DEF q
<1>2. Keeps(k, Passed(Reply(k, "more", "fast")))
  <2>1. Keeps(k, Reply(k, "more", "fast")) /\ ConnLike(Reply(k, "more", "fast"))
    BY ReplyKeeps, KeepsConnLike
  <2> QED
    BY <2>1, PassedKeeps, KeepsTrans
<1>3. Keeps(k, Check(k, m.pw)) /\ Keeps(k, Refuse(k, "protocol"))
  BY CheckKeeps, RefuseKeeps
<1>4. /\ Keeps(k, [Reply(k, "more", "full") EXCEPT !.server.state = "full"])
      /\ Keeps(k, [Reply(k, "more", "key") EXCEPT !.server.state = "encrypted"])
  BY <1>1
<1> QED
  BY <1>2, <1>3, <1>4 DEF Dialogue

LEMMA ReceivedKeeps ==
    ASSUME NEW k, NEW m, NEW fast, ConnLike(k) PROVE Keeps(k, Received(k, m, fast))
<1> DEFINE p == setup.account[1]
           q == [k EXCEPT !.server.state = "token", !.server.factor = 1, !.server.refused = "no"]
           r == [q EXCEPT !.server.switched = FALSE]
           s == Reply(q, "switch", p)
<1>1. Keeps(k, q) /\ ConnLike(q)
  BY DEF Keeps, ConnLike
<1>2. Keeps(q, r) /\ ConnLike(r)
  BY <1>1 DEF Keeps, ConnLike
<1>3. Keeps(r, Dialogue(r, p, [m EXCEPT !.kind = First(p)], fast))
  BY <1>2, DialogueKeeps
<1>4. Keeps(q, s) /\ ConnLike(s)
  BY <1>1, ReplyKeeps, KeepsConnLike
<1>5. Keeps(k, r) /\ Keeps(k, s)
  BY <1>1, <1>2, <1>4, KeepsTrans
<1>6. \/ Received(k, m, fast) = Dialogue(k, setup.account[k.server.factor], m, fast)
      \/ Received(k, m, fast) = Dialogue(r, p, [m EXCEPT !.kind = First(p)], fast)
      \/ Received(k, m, fast) = [s EXCEPT !.server.switched = TRUE]
  BY DEF Received
<1>7. Keeps(k, Dialogue(k, setup.account[k.server.factor], m, fast))
  BY DialogueKeeps
<1> HIDE DEF p, q, r, s
<1>8. Keeps(k, Dialogue(r, p, [m EXCEPT !.kind = First(p)], fast))
  BY <1>3, <1>5, KeepsTrans
<1>9. Keeps(k, [s EXCEPT !.server.switched = TRUE])
  BY <1>4, <1>5 DEF Keeps, ConnLike
<1> QED
  BY <1>6, <1>7, <1>8, <1>9

-----------------------------------------------------------------------------
\* The actions.

LEMMA InitInv == Init => AuthInv
<1> SUFFICES ASSUME Init PROVE AuthInv
  OBVIOUS
<1>1. NoTLS \in TLSRecords /\ NoSession \in Sessions
  BY DEF NoTLS, NoSession, TLSRecords, Sessions
<1>2. NewConn.tls = NoTLS /\ ConnLike(NewConn)
  BY <1>1 DEF NewConn, ConnLike
<1>3. conn = [c \in Conns |-> NewConn] /\ cache = [material |-> 0, session |-> NoSession] /\ material = 1
  BY DEF Init, NoCache
<1>4. TypeInv
  BY <1>1, <1>2, <1>3 DEF TypeInv
<1>5. \A c \in Conns : Stages(c, conn[c]) /\ Verified(conn[c])
  BY <1>2, <1>3 DEF Stages, Verified, NoTLS
<1> QED
  BY <1>3, <1>4, <1>5 DEF AuthInv, CachedSession

\* What the slot of the cache may become in a step of c: the same, empty, or a
\* session of c with the material of c.
SlotAfter(c, q) ==
    \/ cache' = cache
    \/ cache' = [cache EXCEPT !.session = NoSession]
    \/ /\ cache'.session \in Sessions
       /\ cache' = [material |-> q.tls.material, session |-> cache'.session]
       /\ cache'.session.issuer = c
       /\ q.tls.material # 0
       /\ setup.verify => cache'.session.good

LEMMA ConnStep ==
    ASSUME AuthInv, NEW c \in Conns, NEW q,
           ConnLike(q), Stages(c, q), setup.verify => Verified(q),
           q.tls.material = conn[c].tls.material \/ conn[c].tls.material = 0,
           conn' = [conn EXCEPT ![c] = q],
           SlotAfter(c, q),
           setup' = setup, material' = material
    PROVE  AuthInv'
<1>1. \A x \in Conns : x # c => conn'[x] = conn[x]
  BY DEF AuthInv, TypeInv
<1>2. conn'[c] = q
  BY DEF AuthInv, TypeInv
<1>3. cache \in [material : Nat, session : Sessions] /\ NoSession \in Sessions
  BY DEF AuthInv, TypeInv, NoSession, Sessions
<1>4. q.tls.material \in Nat
  BY DEF ConnLike, TLSRecords
<1>5. cache' \in [material : Nat, session : Sessions]
  BY <1>3, <1>4 DEF SlotAfter
<1>6. TypeInv'
  BY <1>1, <1>2, <1>5 DEF AuthInv, TypeInv
<1>7. (\A x \in Conns : Stages(x, conn[x]))'
  BY <1>1, <1>2 DEF AuthInv, Stages
<1>8. CachedSession'
  <2>1. CASE cache' = cache
    <3>1. cache.session # NoSession /\ cache.session.issuer = c => q.tls.material = cache.material
      BY DEF AuthInv, CachedSession
    <3> QED
      BY <1>1, <1>2, <2>1, <3>1 DEF AuthInv, CachedSession
  <2>2. CASE cache' = [cache EXCEPT !.session = NoSession]
    BY <1>3, <2>2 DEF CachedSession
  <2>3. CASE /\ cache' = [material |-> q.tls.material, session |-> cache'.session]
             /\ cache'.session.issuer = c /\ q.tls.material # 0
    BY <1>2, <2>3 DEF CachedSession
  <2> QED
    BY <2>1, <2>2, <2>3 DEF SlotAfter
<1>9. (setup.verify => /\ \A x \in Conns : Verified(conn[x])
                       /\ cache.session # NoSession => cache.session.good)'
  <2> SUFFICES ASSUME setup.verify
               PROVE  /\ \A x \in Conns : Verified(conn[x])'
                      /\ (cache.session # NoSession => cache.session.good)'
    OBVIOUS
  <2>1. \A x \in Conns : Verified(conn[x])'
    BY <1>1, <1>2 DEF AuthInv, Verified
  <2>2. cache.session # NoSession => cache.session.good
    BY DEF AuthInv
  <2>3. (cache.session # NoSession => cache.session.good)'
    BY <1>3, <2>2 DEF SlotAfter
  <2> QED
    BY <2>1, <2>3
<1> QED
  BY <1>6, <1>7, <1>8, <1>9 DEF AuthInv

\* One connection changes, and not its TLS part.
LEMMA KeepingStep ==
    ASSUME AuthInv, NEW c \in Conns, NEW q, Keeps(conn[c], q),
           conn' = [conn EXCEPT ![c] = q],
           cache' = cache \/ cache' = [cache EXCEPT !.session = NoSession],
           setup' = setup, material' = material
    PROVE  AuthInv'
<1>1. ConnLike(q)
  BY KeepsConnLike DEF AuthInv, TypeInv
<1>2. Stages(c, q) /\ (setup.verify => Verified(q))
  BY DEF AuthInv, Stages, Verified, Keeps
<1>3. SlotAfter(c, q)
  BY DEF SlotAfter
<1> QED
  BY <1>1, <1>2, <1>3, ConnStep DEF Keeps

LEMMA HandlePacketStep ==
    ASSUME AuthInv, NEW c \in Conns, HandlePacket(c) PROVE AuthInv'
<1> DEFINE k == [conn[c] EXCEPT !.toClient = Tail(@)]
           packet == Head(conn[c].toClient)
           q == Handled(k, packet)
<1>1. Keeps(conn[c], k) /\ ConnLike(k)
  BY DEF AuthInv, TypeInv, Keeps, ConnLike
<1>2. conn' = [conn EXCEPT ![c] = q] /\ cache' = cache /\ setup' = setup /\ material' = material
  BY DEF HandlePacket
<1> HIDE DEF k, packet
<1>3. \/ q = handshakeInit(k) /\ k.phase = "hello"
      \/ Keeps(k, q)
  <2>1. Keeps(k, k)
    BY DEF Keeps
  <2> QED
    BY <1>1, <2>1, SucceededKeeps, moreDataKeeps, authSwitchRequestKeeps, CommandErrorKeeps DEF Handled
<1>4. CASE Keeps(k, q)
  <2>1. Keeps(conn[c], q)
    BY <1>1, <1>4, KeepsTrans
  <2> HIDE DEF q
  <2> QED
    BY <1>2, <2>1, KeepingStep
<1>5. CASE /\ k.phase = "hello" /\ DOMAIN q = DOMAIN k /\ q.phase = "tls"
           /\ q.tls = [NoTLS EXCEPT !.material = material,
                                    !.offered = IF cache.material = material
                                                THEN cache.session ELSE NoSession]
  <2> HIDE DEF q
  <2>1. ConnLike(q)
    BY <1>1, <1>5, NewTLS DEF ConnLike
  <2>2. /\ q.tls.offered = NoSession \/ q.tls.offered = cache.session
        /\ ~q.tls.accepted /\ q.tls.issued = NoSession
    BY <1>5 DEF NoTLS
  <2>3. Stages(c, q) /\ (setup.verify => Verified(q))
    BY <1>5, <2>2 DEF Stages, Verified, AuthInv
  <2>4. conn[c].tls.material = 0
    BY <1>1, <1>5 DEF AuthInv, Stages, Keeps
  <2>5. SlotAfter(c, q)
    BY <1>2 DEF SlotAfter
  <2> QED
    BY <1>2, <2>1, <2>3, <2>4, <2>5, ConnStep
<1> QED
  BY <1>1, <1>3, <1>4, <1>5, handshakeInitTLS

LEMMA PluginAnswersStep ==
    ASSUME AuthInv, NEW c \in Conns, NEW command, NEW ok, PluginAnswers(c, command, ok) PROVE AuthInv'
<1> DEFINE k == [conn[c] EXCEPT !.pending = @ \ {command}]
           q == IF ok THEN Send(k, Custom, Custom, k.password) ELSE PluginError(k, command)
<1>1. Keeps(conn[c], k) /\ ConnLike(k)
  BY DEF AuthInv, TypeInv, Keeps, ConnLike
<1>2. conn' = [conn EXCEPT ![c] = q] /\ cache' = cache /\ setup' = setup /\ material' = material
  BY DEF PluginAnswers
<1> HIDE DEF k
<1>3. Keeps(k, q)
  BY <1>1, SendKeeps, PluginErrorKeeps
<1> HIDE DEF q
<1> QED
  BY <1>1, <1>2, <1>3, KeepsTrans, KeepingStep

LEMMA ChangeUserStep ==
    ASSUME AuthInv, NEW c \in Conns, NEW explicit, ChangeUser(c, explicit) PROVE AuthInv'
<1> DEFINE pw == IF explicit THEN 1 ELSE conn[c].password
           k == [conn[c] EXCEPT !.command = "change", !.phase = "result", !.waits = 1,
                                !.password = pw, !.commandPassword = pw,
                                !.factor = IF setup.mfa THEN 1 ELSE 0]
           q == Send(k, "change", "native", pw)
<1>1. Keeps(conn[c], k) /\ ConnLike(k)
  <2> HIDE DEF pw
  <2> QED
    BY DEF AuthInv, TypeInv, Keeps, ConnLike
<1>2. conn' = [conn EXCEPT ![c] = q] /\ cache' = cache /\ setup' = setup /\ material' = material
  BY DEF ChangeUser
<1> HIDE DEF k
<1>3. Keeps(k, q)
  BY <1>1, SendKeeps
<1> HIDE DEF q
<1> QED
  BY <1>1, <1>2, <1>3, KeepsTrans, KeepingStep

\* The connect timer, and a connection that is lost.
LEMMA FailStep ==
    ASSUME AuthInv, NEW c \in Conns, Timeout(c) \/ Lose(c) PROVE AuthInv'
<1>1. Keeps(conn[c], Fail(conn[c]))
  BY FailKeeps DEF AuthInv, TypeInv
<1>2. conn' = [conn EXCEPT ![c] = Fail(conn[c])]
  BY DEF Timeout, Lose
<1>3. cache' = cache \/ cache' = [cache EXCEPT !.session = NoSession]
  BY DEF Timeout, Lose
<1>4. setup' = setup /\ material' = material
  BY DEF Timeout, Lose
<1> QED
  BY <1>1, <1>2, <1>3, <1>4, KeepingStep

LEMMA ServerStep ==
    ASSUME AuthInv, NEW c \in Conns, ServerHello(c) \/ \E fast \in BOOLEAN : ServerReceive(c, fast)
    PROVE  AuthInv'
<1>0. ConnLike(conn[c])
  BY DEF AuthInv, TypeInv
<1>1. ASSUME NEW kind, conn' = [conn EXCEPT ![c] = [Reply(@, kind, "") EXCEPT !.server.state = "reply"]],
             UNCHANGED <<setup, material, cache>>
      PROVE  AuthInv'
  <2> DEFINE r == Reply(conn[c], kind, "")
             q == [r EXCEPT !.server.state = "reply"]
  <2>1. Keeps(conn[c], r) /\ ConnLike(r)
    BY <1>0, ReplyKeeps, KeepsConnLike
  <2>2. conn' = [conn EXCEPT ![c] = q]
    BY <1>1
  <2> HIDE DEF r
  <2>3. Keeps(conn[c], q)
    BY <2>1 DEF Keeps, ConnLike
  <2> HIDE DEF q
  <2> QED
    BY <1>1, <2>2, <2>3, KeepingStep
<1>2. ASSUME NEW fast \in BOOLEAN, ServerReceive(c, fast) PROVE AuthInv'
  <2> DEFINE k == [conn[c] EXCEPT !.toServer = Tail(@)]
             q == Received(k, Head(conn[c].toServer), fast)
  <2>1. Keeps(conn[c], k) /\ ConnLike(k)
    BY <1>0 DEF Keeps, ConnLike
  <2>2. conn' = [conn EXCEPT ![c] = q] /\ cache' = cache /\ setup' = setup /\ material' = material
    BY <1>2 DEF ServerReceive
  <2> HIDE DEF k
  <2>3. Keeps(k, q)
    BY <2>1, ReceivedKeeps
  <2> HIDE DEF q
  <2> QED
    BY <2>1, <2>2, <2>3, KeepsTrans, KeepingStep
<1> QED
  BY <1>1, <1>2 DEF ServerHello

\* The events of startTLS.
LEMMA PeerKnownStep ==
    ASSUME AuthInv, NEW c \in Conns, NEW good \in BOOLEAN, PeerKnown(c, good) PROVE AuthInv'
<1> DEFINE q == [conn[c] EXCEPT !.tls.good = good]
<1>1. ConnLike(conn[c]) /\ Stages(c, conn[c]) /\ (setup.verify => Verified(conn[c]))
  BY DEF AuthInv, TypeInv
<1>2. conn' = [conn EXCEPT ![c] = q] /\ cache' = cache /\ setup' = setup /\ material' = material
  BY DEF PeerKnown
<1>3. ~conn[c].tls.accepted
  BY <1>1 DEF PeerKnown, Stages
<1>4. /\ DOMAIN q = DOMAIN conn[c] /\ q.phase = conn[c].phase
      /\ q.tls = [conn[c].tls EXCEPT !.good = good]
  BY <1>1 DEF ConnLike
<1> HIDE DEF q
<1>5. ConnLike(q)
  BY <1>1, <1>4 DEF ConnLike, TLSRecords
<1>6. /\ q.tls.material = conn[c].tls.material /\ q.tls.accepted = conn[c].tls.accepted
      /\ q.tls.established = conn[c].tls.established /\ q.tls.issued = conn[c].tls.issued
      /\ q.tls.offered = conn[c].tls.offered
  BY <1>1, <1>4 DEF ConnLike, TLSRecords
<1>7. Stages(c, q) /\ (setup.verify => Verified(q))
  BY <1>1, <1>3, <1>4, <1>6 DEF Stages, Verified
<1>8. SlotAfter(c, q)
  BY <1>2 DEF SlotAfter
<1> QED
  BY <1>2, <1>5, <1>6, <1>7, <1>8, ConnStep

\* set() writes a session of the connection, or nothing.
LEMMA SetSlot ==
    ASSUME NEW c, NEW q, q.tls.material # 0, NEW session \in Sessions, session.issuer = c,
           setup.verify => session.good, set(q.tls, session)
    PROVE  SlotAfter(c, q)
BY DEF set, SlotAfter

LEMMA SessionStep ==
    ASSUME AuthInv, NEW c \in Conns, Session(c) PROVE AuthInv'
<1> DEFINE session == [issuer |-> c, good |-> conn[c].tls.good]
<1>1. ConnLike(conn[c]) /\ Stages(c, conn[c]) /\ (setup.verify => Verified(conn[c]))
  BY DEF AuthInv, TypeInv
<1>2. session \in Sessions
  BY <1>1 DEF ConnLike, TLSRecords, Sessions
<1>3. conn[c].tls.material # 0 /\ setup' = setup /\ material' = material
  BY DEF Session
<1>4. CASE conn[c].tls.accepted
  <2>1. set(conn[c].tls, session) /\ conn' = conn
    BY <1>4 DEF Session, sessionEvent
  <2>2. conn' = [conn EXCEPT ![c] = conn[c]]
    BY <2>1 DEF AuthInv, TypeInv
  <2>3. setup.verify => session.good
    BY <1>1, <1>4 DEF Verified
  <2>4. session.issuer = c
    OBVIOUS
  <2> HIDE DEF session
  <2>5. SlotAfter(c, conn[c])
    BY <1>2, <1>3, <2>1, <2>3, <2>4, SetSlot
  <2> QED
    BY <1>1, <1>3, <2>2, <2>5, ConnStep
<1>5. CASE ~conn[c].tls.accepted
  <2> DEFINE q == [conn[c] EXCEPT !.tls.issued = session]
  <2>1. conn' = [conn EXCEPT ![c] = q] /\ cache' = cache
    BY <1>5 DEF Session, sessionEvent
  <2>2. session.issuer = c
    OBVIOUS
  <2> HIDE DEF session
  <2>3. /\ DOMAIN q = DOMAIN conn[c] /\ q.phase = conn[c].phase
        /\ q.tls = [conn[c].tls EXCEPT !.issued = session]
    BY <1>1 DEF ConnLike
  <2> HIDE DEF q
  <2>4. ConnLike(q)
    BY <1>1, <1>2, <2>3 DEF ConnLike, TLSRecords
  <2>5. /\ q.tls.material = conn[c].tls.material /\ q.tls.accepted = conn[c].tls.accepted
        /\ q.tls.established = conn[c].tls.established /\ q.tls.issued = session
        /\ q.tls.offered = conn[c].tls.offered
    BY <1>1, <2>3 DEF ConnLike, TLSRecords
  <2>6. Stages(c, q) /\ (setup.verify => Verified(q))
    BY <1>1, <1>3, <1>5, <2>2, <2>3, <2>5 DEF Stages, Verified
  <2>7. SlotAfter(c, q)
    BY <2>1 DEF SlotAfter
  <2> QED
    BY <1>3, <2>1, <2>4, <2>5, <2>6, <2>7, ConnStep
<1> QED
  BY <1>4, <1>5

LEMMA SecureConnectStep ==
    ASSUME AuthInv, NEW c \in Conns, NEW reused \in BOOLEAN, SecureConnect(c, reused) PROVE AuthInv'
<1> DEFINE k == [conn[c] EXCEPT !.tls.established = TRUE,
                                !.tls.good = IF reused THEN conn[c].tls.offered.good ELSE @]
           refused == setup.verify /\ ~reused /\ ~k.tls.good
<1>1. ConnLike(conn[c]) /\ Stages(c, conn[c]) /\ (setup.verify => Verified(conn[c]))
  BY DEF AuthInv, TypeInv
<1>2. /\ conn[c].phase = "tls" /\ ~conn[c].tls.established
      /\ reused => conn[c].tls.offered # NoSession
      /\ setup' = setup /\ material' = material
  BY DEF SecureConnect
<1>3. /\ DOMAIN k = DOMAIN conn[c] /\ k.phase = "tls"
      /\ k.tls = [conn[c].tls EXCEPT !.established = TRUE,
                                     !.good = IF reused THEN conn[c].tls.offered.good ELSE @]
  BY <1>1, <1>2 DEF ConnLike
<1>4. \/ /\ setup.verify /\ ~reused /\ ~k.tls.good
         /\ conn' = [conn EXCEPT ![c] = Fail(k)]
         /\ cache' = cache \/ cache' = [cache EXCEPT !.session = NoSession]
      \/ /\ ~(setup.verify /\ ~reused /\ ~k.tls.good)
         /\ conn' = [conn EXCEPT ![c] = sendCredentials([k EXCEPT !.tls.accepted = TRUE])]
         /\ IF k.tls.issued # NoSession
            THEN set(k.tls, [k.tls.issued EXCEPT !.good = k.tls.good]) ELSE UNCHANGED cache
  BY DEF SecureConnect
<1> HIDE DEF k
<1>5. ConnLike(k)
  BY <1>1, <1>3 DEF ConnLike, TLSRecords, Sessions
<1>6. /\ k.tls.material = conn[c].tls.material /\ k.tls.accepted = conn[c].tls.accepted
      /\ k.tls.established /\ k.tls.issued = conn[c].tls.issued
      /\ k.tls.offered = conn[c].tls.offered
      /\ k.tls.good = IF reused THEN conn[c].tls.offered.good ELSE conn[c].tls.good
  BY <1>1, <1>3 DEF ConnLike, TLSRecords
<1>7. ~conn[c].tls.accepted
  BY <1>1, <1>2 DEF Stages
<1>8. Stages(c, k)
  BY <1>1, <1>3, <1>6, <1>7 DEF Stages
<1>9. ASSUME setup.verify /\ ~reused /\ ~k.tls.good, conn' = [conn EXCEPT ![c] = Fail(k)],
             cache' = cache \/ cache' = [cache EXCEPT !.session = NoSession]
      PROVE  AuthInv'
  <2>1. Keeps(k, Fail(k)) /\ ConnLike(Fail(k))
    BY <1>5, FailKeeps, KeepsConnLike
  <2>2. Stages(c, Fail(k)) /\ (setup.verify => Verified(Fail(k)))
    BY <1>1, <1>6, <1>7, <1>8, <2>1 DEF Stages, Verified, Keeps
  <2>3. SlotAfter(c, Fail(k)) /\ Fail(k).tls.material = conn[c].tls.material
    BY <1>6, <1>9, <2>1 DEF SlotAfter, Keeps
  <2> QED
    BY <1>2, <1>9, <2>1, <2>2, <2>3, ConnStep
<1>10. ASSUME ~(setup.verify /\ ~reused /\ ~k.tls.good),
              conn' = [conn EXCEPT ![c] = sendCredentials([k EXCEPT !.tls.accepted = TRUE])],
              IF k.tls.issued # NoSession
              THEN set(k.tls, [k.tls.issued EXCEPT !.good = k.tls.good]) ELSE UNCHANGED cache
       PROVE  AuthInv'
  <2> DEFINE a == [k EXCEPT !.tls.accepted = TRUE]
             q == sendCredentials(a)
  <2>1. /\ DOMAIN a = DOMAIN k /\ a.phase = "tls"
        /\ a.tls = [k.tls EXCEPT !.accepted = TRUE]
    BY <1>3, <1>5 DEF ConnLike
  <2>2. conn' = [conn EXCEPT ![c] = q]
    BY <1>10
  <2> HIDE DEF a
  <2>3. ConnLike(a)
    BY <1>5, <2>1 DEF ConnLike, TLSRecords
  <2>4. Keeps(a, q) /\ ConnLike(q)
    BY <2>3, sendCredentialsKeeps, KeepsConnLike
  <2> HIDE DEF q
  <2>5. /\ a.tls.material = k.tls.material /\ a.tls.established /\ a.tls.issued = k.tls.issued
        /\ a.tls.offered = k.tls.offered /\ a.tls.good = k.tls.good
    BY <1>5, <1>6, <2>1 DEF ConnLike, TLSRecords
  <2>6. Stages(c, a)
    BY <1>3, <1>8, <2>1, <2>5 DEF Stages
  <2>7. Stages(c, q)
    BY <2>1, <2>4, <2>6 DEF Stages, Keeps
  <2>8. setup.verify => k.tls.good
    BY <1>1, <1>2, <1>6, <1>10 DEF Verified
  <2>9. setup.verify => Verified(q)
    BY <1>1, <1>6, <2>4, <2>5, <2>8 DEF Verified, Keeps
  <2>10. q.tls.material = k.tls.material
    BY <2>4, <2>5 DEF Keeps
  <2>11. SlotAfter(c, q)
    <3>1. CASE k.tls.issued = NoSession
      BY <1>10, <3>1 DEF SlotAfter
    <3>2. CASE k.tls.issued # NoSession
      <4> DEFINE session == [k.tls.issued EXCEPT !.good = k.tls.good]
      <4>1. k.tls.issued.issuer = c /\ k.tls.material # 0
        BY <1>8, <3>2 DEF Stages
      <4>2. k.tls.issued \in Sessions /\ k.tls.good \in BOOLEAN
        BY <1>5 DEF ConnLike, TLSRecords
      <4>3. session \in Sessions /\ session.issuer = c /\ session.good = k.tls.good
        BY <4>1, <4>2 DEF Sessions
      <4>4. set(k.tls, session)
        BY <1>10, <3>2
      <4> HIDE DEF session
      <4>5. SlotAfter(c, k)
        BY <2>8, <4>1, <4>3, <4>4, SetSlot
      <4> QED
        BY <2>10, <4>5 DEF SlotAfter
    <3> QED
      BY <3>1, <3>2
  <2> QED
    BY <1>2, <1>6, <2>2, <2>4, <2>7, <2>9, <2>10, <2>11, ConnStep
<1> QED
  BY <1>4, <1>9, <1>10

LEMMA ReplaceMaterialStep == AuthInv /\ ReplaceMaterial => AuthInv'
<1> SUFFICES ASSUME AuthInv, ReplaceMaterial PROVE AuthInv'
  OBVIOUS
<1>1. UNCHANGED <<setup, conn, cache>> /\ material' \in Nat \ {0}
  BY DEF ReplaceMaterial, AuthInv, TypeInv
<1> QED
  BY <1>1 DEF AuthInv, TypeInv, CachedSession, Verified, Stages

-----------------------------------------------------------------------------
\* The dialogue.  First the server's side: what it does to a connection that is
\* in one of the turns of AuthDialogue leaves it in one.

SameClient(k, q) ==
    /\ q.phase = k.phase /\ q.command = k.command /\ q.factor = k.factor
    /\ q.password = k.password /\ q.commandPassword = k.commandPassword
    /\ q.plugin = k.plugin /\ q.pending = k.pending
    /\ q.fatal = k.fatal /\ q.events = k.events

\* Only the server's side, and what it sends, differ.
ServerStepTo(k, q, toClient, server) ==
    /\ ConnLike(q) /\ SameClient(k, q) /\ q.toServer = k.toServer
    /\ q.toClient = toClient /\ q.server = server

LEMMA SetupFacts ==
    ASSUME setup \in Setups
    PROVE  /\ setup.account \in Seq(Plugins) /\ Len(setup.account) \in Nat \ {0}
           /\ setup.mfa \/ Len(setup.account) = 1
           /\ setup.mfa \in BOOLEAN /\ setup.legacy \in BOOLEAN /\ setup.cleartext \in BOOLEAN
           /\ setup.ssl \in BOOLEAN
           /\ setup.legacy => \A n \in 1 .. Len(setup.account) :
                                 setup.account[n] \in {"native", "unknown", Custom}
BY ConstantsAssumption

LEMMA ReplyEffect ==
    ASSUME NEW k, NEW kind, NEW data, ConnLike(k)
    PROVE  ServerStepTo(k, Reply(k, kind, data), Append(k.toClient, Msg(kind, data)), k.server)
BY DEF Reply, ConnLike, ServerStepTo, SameClient, Msg

LEMMA ServerEffect ==
    ASSUME NEW k, NEW server, ConnLike(k)
    PROVE  ServerStepTo(k, [k EXCEPT !.server = server], k.toClient, server)
BY DEF ConnLike, ServerStepTo, SameClient

LEMMA RefuseEffect ==
    ASSUME NEW k, NEW why, ConnLike(k)
    PROVE  ServerStepTo(k, Refuse(k, why), Append(k.toClient, Msg("err", "")),
                        [[k.server EXCEPT !.refused = why] EXCEPT !.state = "done"])
<1> DEFINE r == Reply(k, "err", "")
           s == [[k.server EXCEPT !.refused = why] EXCEPT !.state = "done"]
<1>1. ServerStepTo(k, r, Append(k.toClient, Msg("err", "")), k.server)
  BY ReplyEffect
<1>2. ConnLike(r) /\ r.server = k.server
  BY <1>1 DEF ServerStepTo
<1>3. Refuse(k, why) = [[r EXCEPT !.server = [r.server EXCEPT !.refused = why]]
                          EXCEPT !.server = [@ EXCEPT !.state = "done"]]
  BY DEF Refuse
<1> HIDE DEF r
<1>4. Refuse(k, why) = [r EXCEPT !.server = s]
  BY <1>2, <1>3 DEF ConnLike
<1> HIDE DEF s
<1>5. ServerStepTo(r, [r EXCEPT !.server = s], r.toClient, s)
  BY <1>2, ServerEffect
<1>6. r.toClient = Append(k.toClient, Msg("err", ""))
  BY <1>1 DEF ServerStepTo
<1>7. ServerStepTo(k, [r EXCEPT !.server = s], r.toClient, s)
  BY <1>1, <1>5 DEF ServerStepTo, SameClient
<1>8. ServerStepTo(k, Refuse(k, why), Append(k.toClient, Msg("err", "")), s)
  BY <1>4, <1>6, <1>7
<1> QED
  BY <1>8 DEF s

\* A reply that changes the server's state.
LEMMA ReplyStateEffect ==
    ASSUME NEW k, NEW kind, NEW data, NEW server, ConnLike(k)
    PROVE  ServerStepTo(k, [Reply(k, kind, data) EXCEPT !.server = server],
                        Append(k.toClient, Msg(kind, data)), server)
<1> DEFINE r == Reply(k, kind, data)
<1>1. ServerStepTo(k, r, Append(k.toClient, Msg(kind, data)), k.server)
  BY ReplyEffect
<1> HIDE DEF r
<1>2. ServerStepTo(r, [r EXCEPT !.server = server], r.toClient, server)
  BY <1>1, ServerEffect DEF ServerStepTo
<1>3. r.toClient = Append(k.toClient, Msg(kind, data))
  BY <1>1 DEF ServerStepTo
<1> QED
  BY <1>1, <1>2, <1>3 DEF r, ServerStepTo, SameClient

LEMMA PassedLastEffect ==
    ASSUME NEW k, ConnLike(k), k.server.factor + 1 > Len(setup.account)
    PROVE  ServerStepTo(k, Passed(k), Append(k.toClient, Msg("ok", "")),
                        [k.server EXCEPT !.state = "done"])
<1> DEFINE r == Reply(k, "ok", "")
           s == [k.server EXCEPT !.state = "done"]
           t == Append(k.toClient, Msg("ok", ""))
<1>1. r.server = k.server
  BY ReplyEffect DEF ServerStepTo
<1>2. Passed(k) = [r EXCEPT !.server = [r.server EXCEPT !.state = "done"]]
  BY DEF Passed
<1>3. Passed(k) = [r EXCEPT !.server = s]
  BY <1>1, <1>2
<1> HIDE DEF s
<1>4. ServerStepTo(k, [Reply(k, "ok", "") EXCEPT !.server = s], t, s)
  BY ReplyStateEffect
<1> HIDE DEF t
<1>5. ServerStepTo(k, Passed(k), t, s)
  BY <1>3, <1>4
<1> QED
  BY <1>5 DEF s, t

LEMMA PassedNextEffect ==
    ASSUME NEW k, ConnLike(k), ~(k.server.factor + 1 > Len(setup.account))
    PROVE  ServerStepTo(k, Passed(k), Append(k.toClient, Msg("next", setup.account[k.server.factor + 1])),
                        [[k.server EXCEPT !.factor = k.server.factor + 1] EXCEPT !.state = "token"])
<1> DEFINE n == k.server.factor + 1
           r == Reply(k, "next", setup.account[n])
           s == [[k.server EXCEPT !.factor = n] EXCEPT !.state = "token"]
           t == Append(k.toClient, Msg("next", setup.account[n]))
<1>1. r.server = k.server /\ ConnLike(r)
  BY ReplyEffect DEF ServerStepTo
<1>2. Passed(k) = [[r EXCEPT !.server = [r.server EXCEPT !.factor = n]]
                     EXCEPT !.server = [@ EXCEPT !.state = "token"]]
  BY DEF Passed
<1> HIDE DEF r
<1>3. Passed(k) = [r EXCEPT !.server = s]
  BY <1>1, <1>2 DEF ConnLike
<1> HIDE DEF s
<1>4. ServerStepTo(k, [r EXCEPT !.server = s], t, s)
  BY ReplyStateEffect DEF r
<1> HIDE DEF t
<1>5. ServerStepTo(k, Passed(k), t, s)
  BY <1>3, <1>4
<1> QED
  BY <1>5 DEF s, t

\* The server is about to answer, and has answered nothing yet in this dialogue
\* that is a refusal.
Serving(k) ==
    /\ ConnLike(k) /\ Typed(k) /\ EventsTold(k) /\ ~k.fatal
    /\ k.command # "none" /\ k.phase = "result" /\ k.pending = {} /\ k.toServer = <<>>
    /\ k.server.refused = "no" /\ Counted(k)

HasSentToken(k) == k.plugin.name = "sha2" /\ k.plugin.state = "sent" /\ ~setup.legacy

LEMMA AppendPair == ASSUME NEW x, NEW y PROVE Append(<<x>>, y) = <<x, y>>
<1> DEFINE S == {x, y}
           a == Append(<<x>>, y)
           b == <<x, y>>
<1>1. <<x>> \in Seq(S) /\ y \in S /\ Len(<<x>>) = 1 /\ <<x>>[1] = x
  OBVIOUS
<1>2. a \in Seq(S) /\ Len(a) = 2 /\ a[1] = x /\ a[2] = y
  BY <1>1, AppendProperties
<1>3. b \in Seq(S) /\ Len(b) = 2 /\ b[1] = x /\ b[2] = y
  OBVIOUS
<1> HIDE DEF a, b
<1>4. \A i \in 1 .. 2 : a[i] = b[i]
  BY <1>2, <1>3
<1>5. a = b
  BY <1>2, <1>3, <1>4, SeqEqual
<1> QED
  BY <1>5 DEF a, b

LEMMA Tuples ==
    ASSUME NEW x, NEW y
    PROVE  /\ Append(<<>>, x) = <<x>> /\ Append(<<x>>, y) = <<x, y>>
           /\ Head(<<x>>) = x /\ Tail(<<x>>) = <<>> /\ Len(<<x>>) = 1 /\ <<x>> # <<>>
           /\ Head(<<x, y>>) = x /\ Tail(<<x, y>>) = <<y>> /\ Len(<<x, y>>) = 2 /\ <<x, y>> # <<>>
           /\ Len(<<>>) = 0
<1>1. Append(<<>>, x) = <<x>>
  OBVIOUS
<1>2. Head(<<x, y>>) = x /\ Head(<<x>>) = x
  OBVIOUS
<1>3. Tail(<<x>>) = <<>>
  OBVIOUS
<1>4. Tail(<<x, y>>) = <<y>>
  OBVIOUS
<1>5. Len(<<x>>) = 1 /\ <<x>> # <<>> /\ Len(<<x, y>>) = 2 /\ <<x, y>> # <<>> /\ Len(<<>>) = 0
  OBVIOUS
<1> QED
  BY <1>1, <1>2, <1>3, <1>4, <1>5, AppendPair

LEMMA ToClientSeqs ==
    ASSUME NEW x \in ToClient, NEW y \in ToClient
    PROVE  /\ <<x>> \in Seq(ToClient) /\ Len(<<x>>) <= 2
           /\ <<x, y>> \in Seq(ToClient) /\ Len(<<x, y>>) <= 2
<1>1. <<x>> \in Seq(ToClient) /\ <<x, y>> \in Seq(ToClient)
  OBVIOUS
<1> QED
  BY <1>1, Tuples

LEMMA Messages ==
    ASSUME NEW kind \in {"hello", "err", "junk", "ok", "more", "switch", "next"},
           NEW data \in Plugins \cup {"", "fast", "full", "key"}
    PROVE  Msg(kind, data) \in ToClient
BY DEF Msg, ToClient

LEMMA ConsistentAfter ==
    ASSUME NEW k, NEW q, NEW t, NEW s, Typed(k), EventsTold(k), ServerStepTo(k, q, t, s),
           s \in ServerRecords, t \in Seq(ToClient), Len(t) <= 2,
           \/ s.refused = "no"
           \/ s.refused = "password" /\ s.state = "done" /\ WrongPasswordKnown(q)
    PROVE  Consistent(q)
<1>1. Typed(q)
  BY DEF Typed, ServerStepTo, SameClient
<1>2. EventsTold(q)
  BY DEF EventsTold, ServerStepTo, SameClient
<1>3. Refusals(q)
  BY DEF Refusals, ServerStepTo
<1> QED
  BY <1>1, <1>2, <1>3 DEF Consistent

LEMMA PassedTurn ==
    ASSUME NEW k, setup \in Setups, Serving(k),
           \/ k.toClient = <<>>
           \/ k.toClient = <<Msg("more", "fast")>> /\ HasSentToken(k)
    PROVE  InDialogue(Passed(k)) /\ ConnLike(Passed(k))
<1>1. CASE k.server.factor + 1 > Len(setup.account)
  <2> DEFINE s == [k.server EXCEPT !.state = "done"]
             t == Append(k.toClient, Msg("ok", ""))
             q == Passed(k)
  <2>1. ServerStepTo(k, q, t, s)
    BY <1>1, PassedLastEffect DEF Serving
  <2>2. s \in ServerRecords /\ s.refused = "no" /\ s.state = "done"
    BY DEF Serving, Typed, ServerRecords, ServerStates
  <2>3. \/ t = <<Msg("ok", "")>>
        \/ t = <<Msg("more", "fast"), Msg("ok", "")>> /\ HasSentToken(k)
    BY Tuples
  <2>4. t \in Seq(ToClient) /\ Len(t) <= 2
    BY <2>3, ToClientSeqs, Messages
  <2> HIDE DEF s, t, q
  <2>5. Consistent(q)
    <3>1. Typed(k) /\ EventsTold(k)
      BY DEF Serving
    <3> QED
      BY <2>1, <2>2, <2>4, <3>1, ConsistentAfter
  <2>6. Done(q)
    BY <2>1, <2>2, <2>3 DEF Done, ServerStepTo, SameClient, Serving, HasSentToken
  <2>7. Turn(q) /\ ConnLike(q)
    BY <2>1, <2>2, <2>6 DEF Turn, ServerStepTo, SameClient, Serving
  <2> QED
    BY <2>5, <2>7 DEF InDialogue, q
<1>2. CASE ~(k.server.factor + 1 > Len(setup.account))
  <2> DEFINE n == k.server.factor + 1
             s == [[k.server EXCEPT !.factor = n] EXCEPT !.state = "token"]
             t == Append(k.toClient, Msg("next", setup.account[n]))
             q == Passed(k)
  <2>1. ServerStepTo(k, q, t, s)
    BY <1>2, PassedNextEffect DEF Serving
  <2>2. n \in Factors /\ setup.account[n] \in Plugins
    BY <1>2, SetupFacts DEF Serving, Typed, ServerRecords, ServerStates, Factors
  <2>3. /\ s \in ServerRecords /\ s.refused = "no" /\ s.state = "token" /\ s.factor = n
        /\ s.switched = k.server.switched
    BY <2>2 DEF Serving, Typed, ServerRecords, ServerStates
  <2>4. \/ t = <<Msg("next", setup.account[n])>>
        \/ t = <<Msg("more", "fast"), Msg("next", setup.account[n])>> /\ HasSentToken(k)
    BY Tuples
  <2>5. t \in Seq(ToClient) /\ Len(t) <= 2
    BY <2>2, <2>4, ToClientSeqs, Messages
  <2>6. setup.mfa
    <3>1. k.server.factor \in 1 .. Len(setup.account)
      BY DEF Serving, Typed, ServerRecords, Factors
    <3>2. Len(setup.account) \in Nat /\ (setup.mfa \/ Len(setup.account) = 1)
      BY SetupFacts
    <3> DEFINE L == Len(setup.account)
               f == k.server.factor
    <3>3. L \in Nat /\ f \in 1 .. L /\ ~(f + 1 > L)
      BY <1>2, <3>1, <3>2
    <3> HIDE DEF L, f
    <3>4. L # 1
      BY <3>3
    <3> QED
      BY <3>2, <3>4 DEF L
  <2>7. IF k.server.switched THEN k.factor = n ELSE k.factor = n - 1 /\ k.factor >= 1
    BY <2>6, SetupFacts DEF Serving, Counted, Typed, ServerRecords, Factors
  <2> HIDE DEF s, t, q, n
  <2>8. Consistent(q)
    <3>1. Typed(k) /\ EventsTold(k)
      BY DEF Serving
    <3> QED
      BY <2>1, <2>3, <2>5, <3>1, ConsistentAfter
  <2>9. Asked(q)
    BY <2>1, <2>3, <2>4, <2>6, <2>7
       DEF Asked, AskedCount, PluginNow, ServerStepTo, SameClient, Serving, HasSentToken
  <2>10. Turn(q) /\ ConnLike(q)
    BY <2>1, <2>3, <2>9 DEF Turn, ServerStepTo, SameClient, Serving
  <2> QED
    BY <2>8, <2>10 DEF InDialogue, q
<1> QED
  BY <1>1, <1>2

LEMMA CheckTurn ==
    ASSUME NEW k, NEW pw, setup \in Setups, Serving(k), k.toClient = <<>>, Fine(k, pw)
    PROVE  InDialogue(Check(k, pw)) /\ ConnLike(Check(k, pw))
<1>1. CASE pw = k.server.factor
  <2>1. Check(k, pw) = Passed(k)
    BY <1>1 DEF Check
  <2> QED
    BY <2>1, PassedTurn
<1>2. CASE pw # k.server.factor
  <2> DEFINE s == [[k.server EXCEPT !.refused = "password"] EXCEPT !.state = "done"]
             t == Append(k.toClient, Msg("err", ""))
             q == Refuse(k, "password")
  <2>1. ServerStepTo(k, q, t, s)
    BY RefuseEffect DEF Serving
  <2>2. /\ s \in ServerRecords /\ s.refused = "password" /\ s.state = "done"
        /\ s.switched = k.server.switched
    BY DEF Serving, Typed, ServerRecords, ServerStates
  <2>3. t = <<Msg("err", "")>>
    BY Tuples
  <2>4. t \in Seq(ToClient) /\ Len(t) <= 2
    BY <2>3, ToClientSeqs, Messages
  <2> HIDE DEF s, t, q
  <2>5. WrongPasswordKnown(q)
    BY <1>2, <2>1, <2>2 DEF Fine, WrongPasswordKnown, ServerStepTo, SameClient
  <2>6. Consistent(q)
    BY <2>1, <2>2, <2>4, <2>5, ConsistentAfter DEF Serving
  <2>7. Done(q)
    BY <2>1, <2>2, <2>3 DEF Done, ServerStepTo, SameClient, Serving
  <2>8. Turn(q) /\ ConnLike(q)
    BY <2>1, <2>2, <2>7 DEF Turn, ServerStepTo, SameClient, Serving
  <2> QED
    BY <1>2, <2>6, <2>8 DEF InDialogue, Check, q
<1> QED
  BY <1>1, <1>2

\* The server asks for more, and the plugin is where it can give it.
LEMMA MoreTurn ==
    ASSUME NEW k, NEW data, NEW state, NEW q, setup \in Setups, Serving(k), k.toClient = <<>>,
           \/ data = "full" /\ state = "full" /\ Holds(k, "sha2", "sent")
           \/ data = "key" /\ state = "encrypted" /\ (Holds(k, "sha2", "wait") \/ Holds(k, "sha256", "wait")),
           q = [Reply(k, "more", data) EXCEPT !.server.state = state]
    PROVE  InDialogue(q) /\ ConnLike(q)
<1> DEFINE s == [k.server EXCEPT !.state = state]
           t == Append(k.toClient, Msg("more", data))
           r == Reply(k, "more", data)
<1>1. r.server = k.server
  BY ReplyEffect DEF ServerStepTo, Serving
<1>2. q = [r EXCEPT !.server = s]
  BY <1>1
<1> HIDE DEF s
<1>3. ServerStepTo(k, [Reply(k, "more", data) EXCEPT !.server = s], t, s)
  BY ReplyStateEffect DEF Serving
<1> HIDE DEF t
<1>4. ServerStepTo(k, q, t, s)
  BY <1>2, <1>3
<1> HIDE DEF r
<1>5. /\ s \in ServerRecords /\ s.refused = "no" /\ s.state = state
      /\ s.switched = k.server.switched /\ s.factor = k.server.factor
  BY DEF Serving, Typed, ServerRecords, ServerStates, s
<1>6. t = <<Msg("more", data)>>
  BY Tuples DEF t
<1>7. t \in Seq(ToClient) /\ Len(t) <= 2
  BY <1>6, ToClientSeqs, Messages
<1>8. Consistent(q)
  <2>1. Typed(k) /\ EventsTold(k)
    BY DEF Serving
  <2> QED
    BY <1>4, <1>5, <1>7, <2>1, ConsistentAfter
<1>9. Counted(q) /\ \A name, st : Holds(k, name, st) => Holds(q, name, st)
  BY <1>4, <1>5 DEF Counted, Holds, Fine, WrongPasswordKnown, ServerStepTo, SameClient, Serving
<1>10. More(q)
  BY <1>4, <1>5, <1>6, <1>9 DEF More, ServerStepTo, SameClient, Serving
<1>11. Turn(q) /\ ConnLike(q)
  BY <1>4, <1>5, <1>10 DEF Turn, ServerStepTo, SameClient, Serving
<1> QED
  BY <1>8, <1>11 DEF InDialogue

LEMMA DialogueTurn ==
    ASSUME NEW k, NEW p, NEW m, NEW fast, setup \in Setups, Serving(k), k.toClient = <<>>,
           k.server.state = "token", p = PluginNow(k), m.kind = First(p), Fine(k, m.pw),
           p = "sha2" => Holds(k, "sha2", "sent"),
           p = "sha256" /\ ~Secure => Holds(k, "sha256", "wait")
    PROVE  InDialogue(Dialogue(k, p, m, fast)) /\ ConnLike(Dialogue(k, p, m, fast))
<1>1. CASE p = "sha2" /\ fast /\ m.pw = k.server.factor
  <2> DEFINE r == Reply(k, "more", "fast")
  <2>1. Dialogue(k, p, m, fast) = Passed(r)
    BY <1>1 DEF Dialogue, First
  <2>2. ServerStepTo(k, r, Append(k.toClient, Msg("more", "fast")), k.server)
    BY ReplyEffect DEF Serving
  <2>3. Append(k.toClient, Msg("more", "fast")) = <<Msg("more", "fast")>>
    BY Tuples
  <2>4. <<Msg("more", "fast")>> \in Seq(ToClient) /\ Len(<<Msg("more", "fast")>>) <= 2
    BY ToClientSeqs, Messages
  <2> HIDE DEF r
  <2>5. r.toClient = <<Msg("more", "fast")>> /\ HasSentToken(r)
    BY <1>1, <2>2, <2>3 DEF ServerStepTo, SameClient, HasSentToken, Holds
  <2>6. Typed(r)
    BY <2>2, <2>4, <2>5 DEF Typed, ServerStepTo, SameClient, Serving
  <2>7. EventsTold(r) /\ Counted(r)
    BY <2>2 DEF EventsTold, Counted, ServerStepTo, SameClient, Serving
  <2>8. Serving(r)
    BY <2>2, <2>6, <2>7 DEF ServerStepTo, SameClient, Serving
  <2> QED
    BY <2>1, <2>5, <2>8, PassedTurn
<1>2. CASE p = "sha2" /\ ~(fast /\ m.pw = k.server.factor)
  <2>1. Dialogue(k, p, m, fast) = [Reply(k, "more", "full") EXCEPT !.server.state = "full"]
    BY <1>2 DEF Dialogue, First
  <2> QED
    BY <1>2, <2>1, MoreTurn
<1>3. CASE p # "sha2" /\ First(p) # "keyRequest"
  <2>1. Dialogue(k, p, m, fast) = Check(k, m.pw)
    BY <1>3 DEF Dialogue
  <2> QED
    BY <2>1, CheckTurn
<1>4. CASE p # "sha2" /\ First(p) = "keyRequest"
  <2>1. p = "sha256" /\ ~Secure
    BY <1>4 DEF First, Custom
  <2>2. Dialogue(k, p, m, fast) = [Reply(k, "more", "key") EXCEPT !.server.state = "encrypted"]
    BY <1>4, <2>1 DEF Dialogue
  <2> QED
    BY <2>1, <2>2, MoreTurn
<1> QED
  BY <1>1, <1>2, <1>3, <1>4

\* The same, after the server has asked for the password itself, or for the
\* password under its key.
LEMMA ContinuedTurn ==
    ASSUME NEW k, NEW p, NEW m, NEW fast, setup \in Setups, Serving(k), k.toClient = <<>>,
           k.server.state \in {"full", "encrypted"}, m.kind \in {"clear", "keyRequest", "encrypted"},
           k.server.state = "encrypted" <=> m.kind = "encrypted", Fine(k, m.pw),
           m.kind = "keyRequest" => Holds(k, "sha2", "wait")
    PROVE  InDialogue(Dialogue(k, p, m, fast)) /\ ConnLike(Dialogue(k, p, m, fast))
<1>1. CASE m.kind \in {"clear", "encrypted"}
  <2>1. Dialogue(k, p, m, fast) = Check(k, m.pw)
    BY <1>1 DEF Dialogue
  <2> QED
    BY <2>1, CheckTurn
<1>2. CASE m.kind = "keyRequest"
  <2>1. Dialogue(k, p, m, fast) = [Reply(k, "more", "key") EXCEPT !.server.state = "encrypted"]
    BY <1>2 DEF Dialogue
  <2> QED
    BY <1>2, <2>1, MoreTurn
<1> QED
  BY <1>1, <1>2

\* What the server takes a message from, or the client a packet.
LEMMA TakeMessage ==
    ASSUME NEW k, NEW q, ConnLike(k), q = [k EXCEPT !.toServer = Tail(@)]
    PROVE  /\ ConnLike(q) /\ SameClient(k, q) /\ q.server = k.server /\ q.toClient = k.toClient
           /\ q.toServer = Tail(k.toServer)
BY DEF ConnLike, SameClient

LEMMA RequestTurn ==
    ASSUME NEW o, NEW k, NEW m, NEW fast, setup \in Setups, ConnLike(o), Consistent(o), Requested(o),
           ~o.fatal, o.command # "none", o.phase = "result",
           k = [o EXCEPT !.toServer = Tail(@)], m = Head(o.toServer)
    PROVE  InDialogue(Received(k, m, fast)) /\ ConnLike(Received(k, m, fast))
<1>1. PICK kind \in {"reply", "change"}, name \in {"native", "sha2", "sha256", "clear"}, pw \in Factors :
         /\ o.toServer = <<[kind |-> kind, plugin |-> name, pw |-> pw]>>
         /\ name = "sha2" => o.plugin = [name |-> name, state |-> "sent", pw |-> pw] /\ ~setup.legacy
         /\ name = "sha256" => Secure
  BY DEF Requested
<1>2. m = [kind |-> kind, plugin |-> name, pw |-> pw] /\ Tail(o.toServer) = <<>>
  BY <1>1, Tuples
<1>3. /\ ConnLike(k) /\ SameClient(o, k) /\ k.server = o.server /\ k.toClient = <<>> /\ k.toServer = <<>>
      /\ k.factor = (IF setup.mfa THEN 1 ELSE 0) /\ k.pending = {}
  <2>1. /\ ConnLike(k) /\ SameClient(o, k) /\ k.server = o.server
        /\ k.toClient = o.toClient /\ k.toServer = <<>>
    BY <1>2, TakeMessage
  <2> QED
    BY <2>1 DEF Requested, SameClient
<1>4. /\ Len(setup.account) \in Nat \ {0} /\ (setup.mfa \/ Len(setup.account) = 1)
      /\ \A n \in 1 .. Len(setup.account) : setup.account[n] \in Plugins
  BY SetupFacts
<1> DEFINE p == setup.account[1]
           s == [[[k.server EXCEPT !.state = "token"] EXCEPT !.factor = 1] EXCEPT !.refused = "no"]
           q == [k EXCEPT !.server = s]
<1>5. Received(k, m, fast) =
         IF name = p THEN Dialogue([q EXCEPT !.server = [@ EXCEPT !.switched = FALSE]], p,
                                   [m EXCEPT !.kind = First(p)], fast)
         ELSE [Reply(q, "switch", p) EXCEPT !.server = [@ EXCEPT !.switched = TRUE]]
  <2>1. m.kind \in {"reply", "change"} /\ m.plugin = name
    BY <1>2
  <2>2. q = [k EXCEPT !.server.state = "token", !.server.factor = 1, !.server.refused = "no"]
    BY <1>3 DEF ConnLike
  <2> DEFINE w == [k EXCEPT !.server.state = "token", !.server.factor = 1, !.server.refused = "no"]
  <2>3. name = p => Received(k, m, fast) = Dialogue([w EXCEPT !.server.switched = FALSE], p,
                                                    [m EXCEPT !.kind = First(p)], fast)
    BY <2>1 DEF Received
  <2>4. name # p => Received(k, m, fast) = [Reply(w, "switch", p) EXCEPT !.server.switched = TRUE]
    BY <2>1 DEF Received
  <2>5. w = q
    BY <2>2
  <2> HIDE DEF w, q, p
  <2> QED
    BY <2>3, <2>4, <2>5
<1>6. /\ s \in ServerRecords /\ s.state = "token" /\ s.factor = 1 /\ s.refused = "no"
      /\ s.switched = k.server.switched
  <2>1. k.server \in ServerRecords /\ 1 \in Factors
    BY <1>3, <1>4 DEF Consistent, Typed, Factors
  <2> QED
    BY <2>1 DEF ServerRecords, ServerStates
<1> HIDE DEF s
<1>7. ServerStepTo(k, q, <<>>, s)
  BY <1>3, ServerEffect
<1>8. ConnLike(q) /\ q.server = s /\ q.toClient = <<>>
  BY <1>7 DEF ServerStepTo
<1>9. Typed(k) /\ EventsTold(k)
  BY <1>3, Tuples DEF Consistent, Typed, EventsTold, SameClient
<1> HIDE DEF q
<1>10. CASE name = p
  <2> DEFINE z == [s EXCEPT !.switched = FALSE]
             r == [q EXCEPT !.server = z]
             n == [m EXCEPT !.kind = First(p)]
  <2>1. Received(k, m, fast) = Dialogue(r, p, n, fast)
    BY <1>5, <1>8, <1>10 DEF ConnLike
  <2>2. n.kind = First(p) /\ n.pw = pw
    BY <1>2
  <2>3. /\ z \in ServerRecords /\ z.state = "token" /\ z.factor = 1 /\ z.refused = "no"
        /\ z.switched = FALSE
    BY <1>6 DEF ServerRecords
  <2> HIDE DEF z, n
  <2>4. ServerStepTo(q, r, <<>>, z)
    BY <1>8, ServerEffect
  <2>5. ServerStepTo(k, r, <<>>, z)
    BY <1>7, <2>4 DEF ServerStepTo, SameClient
  <2> HIDE DEF r
  <2>6. Typed(r) /\ EventsTold(r)
    <3>1. <<>> \in Seq(ToClient) /\ Len(<<>>) <= 2
      BY Tuples
    <3> QED
      BY <1>9, <2>3, <2>5, <3>1, ConsistentAfter DEF Consistent
  <2>7. Counted(r)
    BY <1>3, <2>3, <2>5 DEF Counted, ServerStepTo, SameClient
  <2>8. Serving(r) /\ r.toClient = <<>> /\ r.server.state = "token"
    BY <1>3, <2>3, <2>5, <2>6, <2>7 DEF Serving, ServerStepTo, SameClient
  <2>9. Fine(r, pw)
    BY <1>4, <2>3, <2>5 DEF Fine, WrongPasswordKnown, ServerStepTo, Factors
  <2>10. p = PluginNow(r)
    BY <2>3, <2>5 DEF PluginNow, ServerStepTo
  <2>11. p = "sha2" => Holds(r, "sha2", "sent")
    BY <1>1, <1>3, <1>10, <2>5, <2>9 DEF Holds, ServerStepTo, SameClient
  <2>12. p = "sha256" => Secure
    BY <1>1, <1>10
  <2> HIDE DEF p
  <2> QED
    BY <2>1, <2>2, <2>8, <2>9, <2>10, <2>11, <2>12, DialogueTurn
<1>11. CASE name # p
  <2> DEFINE z == [s EXCEPT !.switched = TRUE]
             t == <<Msg("switch", p)>>
             a == Reply(q, "switch", p)
             r == [a EXCEPT !.server = z]
  <2>1. a.server = s /\ ConnLike(a)
    BY <1>8, ReplyEffect DEF ServerStepTo
  <2>2. Received(k, m, fast) = r
    BY <1>5, <1>11, <2>1 DEF ConnLike
  <2>3. /\ z \in ServerRecords /\ z.state = "token" /\ z.factor = 1 /\ z.refused = "no"
        /\ z.switched = TRUE
    BY <1>6 DEF ServerRecords
  <2>4. Append(q.toClient, Msg("switch", p)) = t
    BY <1>8, Tuples
  <2>5. t \in Seq(ToClient) /\ Len(t) <= 2
    <3>1. p \in Plugins
      BY <1>4
    <3> HIDE DEF p
    <3> QED
      BY <3>1, ToClientSeqs, Messages
  <2> HIDE DEF z, t
  <2>6. ServerStepTo(q, r, t, z)
    BY <1>8, <2>4, ReplyStateEffect
  <2>7. ServerStepTo(k, r, t, z)
    BY <1>7, <2>6 DEF ServerStepTo, SameClient
  <2> HIDE DEF a, r
  <2>8. Consistent(r)
    BY <1>9, <2>3, <2>5, <2>7, ConsistentAfter
  <2>9. PluginNow(r) = p
    BY <2>3, <2>7 DEF PluginNow, ServerStepTo
  <2>10. AskedCount(r)
    BY <1>3, <2>3, <2>7 DEF AskedCount, ServerStepTo, SameClient
  <2>11. Asked(r)
    BY <1>3, <2>3, <2>7, <2>9, <2>10 DEF Asked, ServerStepTo, SameClient, t
  <2>12. Turn(r) /\ ConnLike(r)
    BY <1>3, <2>3, <2>7, <2>11 DEF Turn, ServerStepTo, SameClient
  <2> QED
    BY <2>2, <2>8, <2>12 DEF InDialogue
<1> QED
  BY <1>10, <1>11

LEMMA ServerReceiveTurn ==
    ASSUME NEW o, NEW k, NEW m, NEW fast, setup \in Setups, ConnLike(o), InDialogue(o),
           ~o.fatal, o.toServer # <<>>, k = [o EXCEPT !.toServer = Tail(@)], m = Head(o.toServer)
    PROVE  InDialogue(Received(k, m, fast)) /\ ConnLike(Received(k, m, fast))
<1>1. /\ o.command # "none" /\ o.phase = "result" /\ Consistent(o)
      /\ Requested(o) \/ Answered(o) \/ More(o)
  BY DEF InDialogue, Turn, Opening, Silent, Asked, Pending, Done
<1>2. CASE Requested(o)
  BY <1>1, <1>2, RequestTurn
<1>3. ASSUME o.server.state # "done", o.pending = {}, Counted(o), o.toClient = <<>>, Len(o.toServer) = 1,
             Tail(o.toServer) = <<>>
      PROVE  /\ Serving(k) /\ k.toClient = <<>> /\ SameClient(o, k) /\ k.server = o.server
             /\ \A pw : Fine(o, pw) => Fine(k, pw)
             /\ \A name, state : Holds(o, name, state) => Holds(k, name, state)
  <2>1. /\ ConnLike(k) /\ SameClient(o, k) /\ k.server = o.server /\ k.toClient = <<>> /\ k.toServer = <<>>
    BY <1>3, TakeMessage
  <2>2. Typed(k) /\ EventsTold(k) /\ k.server.refused = "no" /\ Counted(k)
    <3>1. Typed(k)
      BY <1>1, <2>1, Tuples DEF Consistent, Typed, SameClient
    <3>2. EventsTold(k) /\ Counted(k)
      BY <1>1, <1>3, <2>1 DEF Consistent, EventsTold, Counted, SameClient
    <3>3. k.server.refused = "no"
      BY <1>1, <1>3, <2>1 DEF Consistent, Refusals
    <3> QED
      BY <3>1, <3>2, <3>3
  <2>3. Serving(k)
    BY <1>1, <1>3, <2>1, <2>2 DEF Serving, SameClient
  <2>4. \A pw : Fine(o, pw) => Fine(k, pw)
    BY <2>1 DEF Fine, WrongPasswordKnown, SameClient
  <2>5. \A name, state : Holds(o, name, state) => Holds(k, name, state)
    BY <2>1, <2>4 DEF Holds, SameClient
  <2> QED
    BY <2>1, <2>3, <2>4, <2>5
<1>4. CASE Answered(o)
  <2>1. PICK name \in Plugins, pw \in Factors :
           /\ o.toServer = <<[kind |-> First(PluginNow(o)), plugin |-> name, pw |-> pw]>>
           /\ Fine(o, pw)
    BY <1>4 DEF Answered
  <2>2. /\ m = [kind |-> First(PluginNow(o)), plugin |-> name, pw |-> pw]
        /\ Tail(o.toServer) = <<>> /\ Len(o.toServer) = 1
    BY <2>1, Tuples
  <2>3. m.kind = First(PluginNow(o)) /\ m.pw = pw
    BY <2>2
  <2>4. o.server.state = "token" /\ o.pending = {} /\ Counted(o) /\ o.toClient = <<>>
    BY <1>4 DEF Answered
  <2>5. /\ Serving(k) /\ k.toClient = <<>> /\ k.server = o.server /\ Fine(k, pw)
        /\ \A nm, st : Holds(o, nm, st) => Holds(k, nm, st)
    BY <1>3, <2>1, <2>2, <2>4
  <2> DEFINE p == PluginNow(k)
  <2>6. p = PluginNow(o)
    BY <2>5 DEF PluginNow
  <2>7. /\ p = "sha2" => Holds(k, "sha2", "sent")
        /\ p = "sha256" /\ ~Secure => Holds(k, "sha256", "wait")
    BY <1>4, <2>5, <2>6 DEF Answered
  <2>8. m.kind \notin {"reply", "change"}
    BY <2>3 DEF First, Custom
  <2>9. Received(k, m, fast) = Dialogue(k, p, m, fast)
    BY <2>8 DEF Received, PluginNow
  <2> HIDE DEF p
  <2> QED
    BY <2>3, <2>4, <2>5, <2>6, <2>7, <2>9, DialogueTurn DEF p
<1>5. CASE More(o)
  <2>1. PICK kind \in {"clear", "keyRequest", "encrypted"}, name \in Plugins, pw \in Factors :
           /\ o.toServer = <<[kind |-> kind, plugin |-> name, pw |-> pw]>> /\ Fine(o, pw)
           /\ o.server.state \in {"full", "encrypted"} /\ o.toClient = <<>>
           /\ o.server.state = "encrypted" <=> kind = "encrypted"
           /\ kind = "keyRequest" => Holds(o, "sha2", "wait")
    BY <1>5 DEF More
  <2>2. m = [kind |-> kind, plugin |-> name, pw |-> pw] /\ Tail(o.toServer) = <<>> /\ Len(o.toServer) = 1
    BY <2>1, Tuples
  <2>3. m.kind = kind /\ m.pw = pw
    BY <2>2
  <2>4. o.pending = {} /\ Counted(o) /\ o.server.state # "done"
    BY <1>5, <2>1 DEF More
  <2>5. /\ Serving(k) /\ k.toClient = <<>> /\ k.server = o.server /\ Fine(k, pw)
        /\ \A nm, st : Holds(o, nm, st) => Holds(k, nm, st)
    BY <1>3, <2>1, <2>2, <2>4
  <2>6. kind = "keyRequest" => Holds(k, "sha2", "wait")
    BY <2>1, <2>5
  <2>7. Received(k, m, fast) = Dialogue(k, setup.account[k.server.factor], m, fast)
    BY <2>1, <2>3 DEF Received
  <2> QED
    BY <2>1, <2>3, <2>5, <2>6, <2>7, ContinuedTurn
<1> QED
  BY <1>1, <1>2, <1>4, <1>5

-----------------------------------------------------------------------------
\* The client's side.

LEMMA FailEffect ==
    ASSUME NEW k, ConnLike(k), ~k.fatal
    PROVE  /\ ConnLike(Fail(k)) /\ Fail(k).fatal = TRUE
           /\ Fail(k).events = IF k.command = "change" THEN k.events ELSE Append(k.events, "error")
           /\ Fail(k).server = k.server /\ Fail(k).toClient = k.toClient /\ Fail(k).toServer = k.toServer
           /\ Fail(k).phase = k.phase /\ Fail(k).command = k.command /\ Fail(k).factor = k.factor
           /\ Fail(k).password = k.password /\ Fail(k).commandPassword = k.commandPassword
           /\ Fail(k).plugin = k.plugin
BY DEF Fail, ConnLike

\* What is left to say of a connection with a fatal error.
LEMMA FatalConsistent ==
    ASSUME NEW k, NEW q, Consistent(k), q.fatal = TRUE,
           q.events \in {<<>>, <<"connect">>, <<"error">>, <<"connect", "error">>},
           q.server = k.server, q.toClient = k.toClient, q.toServer = k.toServer,
           q.phase \in {"hello", "tls", "result", "idle"}, q.command \in {"login", "change", "none"},
           q.factor = k.factor, q.password = k.password, q.commandPassword = k.commandPassword,
           q.plugin = k.plugin
    PROVE  InDialogue(q)
<1>1. Typed(q)
  BY DEF Typed, Consistent
<1>2. EventsTold(q)
  BY DEF EventsTold
<1>3. Refusals(q)
  BY DEF Refusals, Consistent, WrongPasswordKnown
<1> QED
  BY <1>1, <1>2, <1>3 DEF InDialogue, Consistent

LEMMA FailTurn ==
    ASSUME NEW k, ConnLike(k), Consistent(k) PROVE InDialogue(Fail(k)) /\ ConnLike(Fail(k))
<1>1. CASE k.fatal
  <2>1. Fail(k) = k
    BY <1>1 DEF Fail
  <2> QED
    BY <1>1, <2>1 DEF InDialogue
<1>2. CASE ~k.fatal
  <2> DEFINE q == Fail(k)
  <2>1. /\ ConnLike(q) /\ q.fatal = TRUE
        /\ q.events = IF k.command = "change" THEN k.events ELSE Append(k.events, "error")
        /\ q.server = k.server /\ q.toClient = k.toClient /\ q.toServer = k.toServer
        /\ q.phase = k.phase /\ q.command = k.command /\ q.factor = k.factor
        /\ q.password = k.password /\ q.commandPassword = k.commandPassword
        /\ q.plugin = k.plugin
    BY <1>2, FailEffect
  <2> HIDE DEF q
  <2>2. k.events = IF k.command = "login" THEN <<>> ELSE <<"connect">>
    BY <1>2 DEF Consistent, EventsTold
  <2>3. Append(<<>>, "error") = <<"error">> /\ Append(<<"connect">>, "error") = <<"connect", "error">>
    BY Tuples
  <2>4. q.events \in {<<>>, <<"connect">>, <<"error">>, <<"connect", "error">>}
    <3>1. CASE k.command = "change"
      BY <2>1, <2>2, <3>1
    <3>2. CASE k.command = "login"
      BY <2>1, <2>2, <2>3, <3>2
    <3>3. CASE k.command \notin {"change", "login"}
      BY <2>1, <2>2, <2>3, <3>3
    <3> QED
      BY <3>1, <3>2, <3>3
  <2>5. q.phase \in {"hello", "tls", "result", "idle"} /\ q.command \in {"login", "change", "none"}
    BY <2>1 DEF Consistent, Typed
  <2>6. InDialogue(q)
    BY <2>1, <2>4, <2>5, FatalConsistent
  <2> QED
    BY <2>1, <2>6 DEF q
<1> QED
  BY <1>1, <1>2

LEMMA CommandErrorTurn ==
    ASSUME NEW k, ConnLike(k), Consistent(k),
           \/ k.fatal \/ k.command = "login"
           \/ k.command = "change" /\ Silent(k) /\ k.server.state # "start"
    PROVE  InDialogue(CommandError(k)) /\ ConnLike(CommandError(k))
<1>1. CASE k.command = "change"
  <2> DEFINE q == CommandError(k)
  <2>1. /\ ConnLike(q) /\ q.command = "none" /\ q.phase = "idle" /\ q.fatal = k.fatal
        /\ q.events = k.events /\ q.server = k.server
        /\ q.toClient = k.toClient /\ q.toServer = k.toServer /\ q.factor = k.factor
        /\ q.password = k.password /\ q.commandPassword = k.commandPassword
        /\ q.plugin = k.plugin /\ q.pending = k.pending
    BY <1>1 DEF CommandError, ConnLike
  <2> HIDE DEF q
  <2>2. Typed(q)
    BY <2>1 DEF Typed, Consistent
  <2>3. EventsTold(q)
    BY <1>1, <2>1 DEF EventsTold, Consistent
  <2>4. Refusals(q)
    BY <2>1 DEF Refusals, Consistent, WrongPasswordKnown
  <2>5. q.fatal \/ Turn(q)
    BY <1>1, <2>1 DEF Turn, Silent
  <2> QED
    BY <2>1, <2>2, <2>3, <2>4, <2>5 DEF InDialogue, Consistent, q
<1>2. CASE k.command # "change"
  <2> DEFINE f == Fail(k)
             q == [f EXCEPT !.command = "none", !.phase = "idle"]
  <2>1. CommandError(k) = q
    BY <1>2 DEF CommandError
  <2>2. InDialogue(f) /\ ConnLike(f)
    BY FailTurn
  <2>3. f.fatal
    BY FailEffect DEF Fail
  <2> HIDE DEF f
  <2>4. /\ ConnLike(q) /\ q.command = "none" /\ q.phase = "idle" /\ q.fatal = f.fatal
        /\ q.events = f.events /\ q.server = f.server
        /\ q.toClient = f.toClient /\ q.toServer = f.toServer /\ q.factor = f.factor
        /\ q.password = f.password /\ q.commandPassword = f.commandPassword
        /\ q.plugin = f.plugin
    BY <2>2 DEF ConnLike
  <2> HIDE DEF q
  <2>5. Consistent(f) /\ f.events \in {<<>>, <<"connect">>, <<"error">>, <<"connect", "error">>}
        /\ f.fatal \in BOOLEAN
    BY <2>2 DEF InDialogue, Consistent, EventsTold, Typed
  <2>6. InDialogue(q)
    BY <2>3, <2>4, <2>5, FatalConsistent
  <2> QED
    BY <2>1, <2>4, <2>6
<1> QED
  BY <1>1, <1>2

\* Only the plugin, what is sent and what is awaited of the user's plugin differ.
ClientStepTo(k, q, plugin, toServer, pending) ==
    /\ ConnLike(q)
    /\ q.phase = k.phase /\ q.command = k.command /\ q.factor = k.factor
    /\ q.password = k.password /\ q.commandPassword = k.commandPassword
    /\ q.fatal = k.fatal /\ q.events = k.events /\ q.server = k.server /\ q.toClient = k.toClient
    /\ q.plugin = plugin /\ q.toServer = toServer /\ q.pending = pending

LEMMA SendEffect ==
    ASSUME NEW k, NEW kind, NEW plugin, NEW pw, ConnLike(k), ~k.fatal, k.toServer = <<>>
    PROVE  ClientStepTo(k, Send(k, kind, plugin, pw), k.plugin,
                        <<[kind |-> kind, plugin |-> plugin, pw |-> pw]>>, k.pending)
<1> DEFINE m == [kind |-> kind, plugin |-> plugin, pw |-> pw]
<1>1. Send(k, kind, plugin, pw) = [k EXCEPT !.toServer = Append(k.toServer, m)]
  BY DEF Send
<1>2. Append(k.toServer, m) = <<m>>
  BY Tuples
<1> HIDE DEF m
<1>3. Send(k, kind, plugin, pw) = [k EXCEPT !.toServer = <<m>>]
  BY <1>1, <1>2
<1>4. ClientStepTo(k, Send(k, kind, plugin, pw), k.plugin, <<m>>, k.pending)
  BY <1>3 DEF ClientStepTo, ConnLike
<1> QED
  BY <1>4 DEF m

LEMMA PluginEffect ==
    ASSUME NEW k, NEW plugin, ConnLike(k)
    PROVE  ClientStepTo(k, [k EXCEPT !.plugin = plugin], plugin, k.toServer, k.pending)
BY DEF ClientStepTo, ConnLike

LEMMA PendingEffect ==
    ASSUME NEW k, NEW pending, ConnLike(k)
    PROVE  ClientStepTo(k, [k EXCEPT !.pending = pending], k.plugin, k.toServer, pending)
BY DEF ClientStepTo, ConnLike

LEMMA ConsistentClient ==
    ASSUME NEW k, NEW q, NEW plugin, NEW toServer, NEW pending,
           Consistent(k), ClientStepTo(k, q, plugin, toServer, pending), plugin \in PluginRecords,
           Len(toServer) <= 1, k.server.refused = "no"
    PROVE  Consistent(q)
<1>1. Typed(q)
  BY DEF Typed, Consistent, ClientStepTo
<1>2. EventsTold(q)
  BY DEF EventsTold, Consistent, ClientStepTo
<1>3. Refusals(q)
  BY DEF Refusals, ClientStepTo
<1> QED
  BY <1>1, <1>2, <1>3 DEF Consistent

\* The client has the floor: it has taken the packet that it handles.
Listening(k) ==
    /\ ConnLike(k) /\ Consistent(k) /\ ~k.fatal
    /\ k.command # "none" /\ k.phase = "result" /\ Silent(k)
    /\ k.server.refused = "no"

\* It answers in the dialogue of the plugin that the server has asked for.
LEMMA AnsweredTurn ==
    ASSUME NEW k, NEW q, NEW pl, NEW kind, Listening(k), Counted(k), k.server.state = "token",
           pl \in PluginRecords, pl.name \in Plugins, kind = First(PluginNow(k)), Fine(k, pl.pw),
           ClientStepTo(k, q, pl, <<[kind |-> kind, plugin |-> pl.name, pw |-> pl.pw]>>, {}),
           PluginNow(k) = "sha2" => pl.name = "sha2" /\ pl.state = "sent" /\ ~setup.legacy,
           PluginNow(k) = "sha256" /\ ~Secure => pl.name = "sha256" /\ pl.state = "wait" /\ ~setup.legacy
    PROVE  InDialogue(q) /\ ConnLike(q)
<1> DEFINE t == <<[kind |-> kind, plugin |-> pl.name, pw |-> pl.pw]>>
<1>1. Len(t) <= 1
  BY Tuples
<1>2. pl.pw \in Factors
  BY DEF Fine
<1>3. t = <<[kind |-> First(PluginNow(k)), plugin |-> pl.name, pw |-> pl.pw]>>
  OBVIOUS
<1> HIDE DEF t
<1>4. ClientStepTo(k, q, pl, t, {})
  BY DEF t
<1>5. Consistent(q)
  BY <1>1, <1>4, ConsistentClient DEF Listening
<1>6. PluginNow(q) = PluginNow(k) /\ Counted(q) /\ Fine(q, pl.pw)
  BY <1>4 DEF PluginNow, Counted, Fine, WrongPasswordKnown, ClientStepTo
<1>7. q.toServer = <<[kind |-> First(PluginNow(q)), plugin |-> pl.name, pw |-> pl.pw]>>
  BY <1>3, <1>4, <1>6 DEF ClientStepTo
<1>8. /\ PluginNow(q) = "sha2" => Holds(q, "sha2", "sent")
      /\ PluginNow(q) = "sha256" /\ ~Secure => Holds(q, "sha256", "wait")
  BY <1>4, <1>6 DEF Holds, ClientStepTo
<1>9. q.server.state = "token" /\ q.toClient = <<>> /\ q.pending = {}
  BY <1>4 DEF ClientStepTo, Listening, Silent
<1>10. Answered(q)
  BY <1>2, <1>6, <1>7, <1>8, <1>9 DEF Answered
<1>11. Turn(q) /\ ConnLike(q)
  BY <1>4, <1>9, <1>10 DEF Turn, ClientStepTo, Listening
<1> QED
  BY <1>5, <1>11 DEF InDialogue

\* It leaves the answer to the user's plugin, or to the legacy handler.
LEMMA PendingTurn ==
    ASSUME NEW k, NEW q, NEW pl, Listening(k), Counted(k), k.server.state = "token",
           pl \in PluginRecords, First(PluginNow(k)) = Custom, Fine(k, k.password),
           ClientStepTo(k, q, pl, <<>>, {k.command})
    PROVE  InDialogue(q) /\ ConnLike(q)
<1>1. Len(<<>>) <= 1
  BY Tuples
<1>2. Consistent(q)
  BY <1>1, ConsistentClient DEF Listening
<1>3. PluginNow(q) = PluginNow(k) /\ Counted(q) /\ Fine(q, q.password)
  BY DEF PluginNow, Counted, Fine, WrongPasswordKnown, ClientStepTo
<1>4. Pending(q)
  BY <1>3 DEF Pending, ClientStepTo, Listening, Silent
<1>5. Turn(q) /\ ConnLike(q)
  BY <1>4 DEF Turn, ClientStepTo, Listening
<1> QED
  BY <1>2, <1>5 DEF InDialogue

\* It answers a request for the password itself, for the server's key, or
\* the key.
LEMMA MoreAnsweredTurn ==
    ASSUME NEW k, NEW q, NEW pl, NEW kind, Listening(k), Counted(k),
           k.server.state \in {"full", "encrypted"}, kind \in {"clear", "keyRequest", "encrypted"},
           k.server.state = "encrypted" <=> kind = "encrypted",
           pl \in PluginRecords, pl.name \in Plugins, Fine(k, pl.pw),
           kind = "keyRequest" => pl.name = "sha2" /\ pl.state = "wait" /\ ~setup.legacy,
           ClientStepTo(k, q, pl, <<[kind |-> kind, plugin |-> pl.name, pw |-> pl.pw]>>, {})
    PROVE  InDialogue(q) /\ ConnLike(q)
<1> DEFINE t == <<[kind |-> kind, plugin |-> pl.name, pw |-> pl.pw]>>
<1>1. Len(t) <= 1
  BY Tuples
<1>2. pl.pw \in Factors
  BY DEF Fine
<1> HIDE DEF t
<1>3. ClientStepTo(k, q, pl, t, {})
  BY DEF t
<1>4. Consistent(q)
  BY <1>1, <1>3, ConsistentClient DEF Listening
<1>5. Counted(q) /\ Fine(q, pl.pw)
  BY <1>3 DEF Counted, Fine, WrongPasswordKnown, ClientStepTo
<1>6. kind = "keyRequest" => Holds(q, "sha2", "wait")
  BY <1>3, <1>5 DEF Holds, ClientStepTo
<1>7. /\ q.server.state = k.server.state /\ q.toClient = <<>> /\ q.pending = {}
      /\ q.toServer = <<[kind |-> kind, plugin |-> pl.name, pw |-> pl.pw]>>
  BY <1>3 DEF ClientStepTo, Listening, Silent, t
<1>8. More(q)
  BY <1>2, <1>5, <1>6, <1>7 DEF More
<1>9. Turn(q) /\ ConnLike(q)
  BY <1>3, <1>7, <1>8 DEF Turn, ClientStepTo, Listening
<1> QED
  BY <1>4, <1>9 DEF InDialogue

\* An answer of the plugin: it is sent, with the password that the plugin has.
LEMMA AnswerSent ==
    ASSUME NEW k, NEW pl, NEW kind, ConnLike(k), ~k.fatal, Silent(k),
           kind \notin {"throw", "nothing", "later"}
    PROVE  ClientStepTo(k, Answer(k, Out(pl, kind)), pl,
                        <<[kind |-> kind, plugin |-> pl.name, pw |-> pl.pw]>>, {})
<1> DEFINE q == [k EXCEPT !.plugin = pl]
           t == <<[kind |-> kind, plugin |-> pl.name, pw |-> pl.pw]>>
<1>1. Answer(k, Out(pl, kind)) = Send(q, kind, pl.name, pl.pw)
  BY DEF Answer, Out
<1>2. ClientStepTo(k, q, pl, <<>>, {})
  BY PluginEffect DEF Silent
<1> HIDE DEF q
<1>3. ClientStepTo(q, Send(q, kind, pl.name, pl.pw), q.plugin, t, q.pending)
  BY <1>2, SendEffect DEF ClientStepTo
<1> HIDE DEF t
<1>4. ClientStepTo(k, Send(q, kind, pl.name, pl.pw), pl, t, {})
  BY <1>2, <1>3 DEF ClientStepTo
<1> QED
  BY <1>1, <1>4 DEF t

LEMMA AnswerLater ==
    ASSUME NEW k, NEW pl, ConnLike(k), Silent(k)
    PROVE  ClientStepTo(k, Answer(k, Out(pl, "later")), pl, <<>>, {k.command})
<1> DEFINE q == [k EXCEPT !.plugin = pl]
<1>1. Answer(k, Out(pl, "later")) = [q EXCEPT !.pending = q.pending \cup {k.command}]
  BY DEF Answer, Out
<1>2. ClientStepTo(k, q, pl, <<>>, {})
  BY PluginEffect DEF Silent
<1> HIDE DEF q
<1>3. q.pending \cup {k.command} = {k.command} /\ ConnLike(q)
  BY <1>2 DEF ClientStepTo
<1>4. Answer(k, Out(pl, "later")) = [q EXCEPT !.pending = {k.command}]
  BY <1>1, <1>3
<1>5. ClientStepTo(q, [q EXCEPT !.pending = {k.command}], q.plugin, q.toServer, {k.command})
  BY <1>3, PendingEffect
<1> QED
  BY <1>2, <1>4, <1>5 DEF ClientStepTo

-----------------------------------------------------------------------------
\* The operators of the client.

\* The password of a factor that the driver takes: the right one, or one of
\* the known mistakes.
LEMMA NextPasswordTurn ==
    ASSUME NEW k, setup \in Setups, Listening(k), AskedCount(k), k.server.state = "token"
    PROVE  LET q == NextPassword(k)
               pl == NewPlugin(q, PluginNow(k))
           IN  /\ Listening(q) /\ Counted(q) /\ q.server = k.server /\ q.command = k.command
               /\ PluginNow(q) = PluginNow(k) /\ PluginNow(k) \in Plugins
               /\ q.plugin = k.plugin
               /\ Fine(q, q.password)
               /\ pl \in PluginRecords /\ pl.name = PluginNow(k) /\ pl.state = "initial" /\ Fine(q, pl.pw)
<1> DEFINE q == NextPassword(k)
           pl == NewPlugin(q, PluginNow(k))
           L == Len(setup.account)
<1>1. /\ L \in Nat \ {0} /\ (setup.mfa \/ L = 1) /\ setup.account \in Seq(Plugins)
      /\ k.server.factor \in 1 .. L /\ k.password \in 1 .. L /\ k.commandPassword \in 1 .. L
      /\ k.plugin \in PluginRecords
  BY SetupFacts DEF Listening, Consistent, Typed, ServerRecords, Factors
<1>2. PluginNow(k) \in Plugins
  BY <1>1 DEF PluginNow
<1>3. /\ ConnLike(q) /\ q.phase = k.phase /\ q.command = k.command /\ q.commandPassword = k.commandPassword
      /\ q.fatal = k.fatal /\ q.events = k.events /\ q.server = k.server /\ q.toClient = k.toClient
      /\ q.plugin = k.plugin /\ q.toServer = k.toServer /\ q.pending = k.pending
      /\ q.password = (IF k.factor = 0 THEN k.password ELSE k.factor)
      /\ q.factor = (IF k.factor = 0 THEN k.factor ELSE k.factor + 1)
  BY DEF NextPassword, ConnLike, Listening
<1> HIDE DEF q
<1>4. /\ Counted(q) /\ q.factor \in 0 .. L + 1 /\ q.password \in 1 .. L
      /\ q.password = q.server.factor \/ (L > 1 /\ ~q.server.switched) \/ L = 1
  <2>1. k.server.switched \in BOOLEAN
    BY DEF Listening, Consistent, Typed, ServerRecords
  <2>2. CASE ~setup.mfa
    BY <1>1, <1>3, <2>2 DEF AskedCount, Counted
  <2>3. CASE setup.mfa /\ k.server.switched
    BY <1>1, <1>3, <2>3 DEF AskedCount, Counted
  <2>4. CASE setup.mfa /\ ~k.server.switched
    BY <1>1, <1>3, <2>4 DEF AskedCount, Counted
  <2> QED
    BY <2>1, <2>2, <2>3, <2>4
<1>5. Consistent(q)
  <2>1. Typed(q)
    BY <1>3, <1>4 DEF Typed, Listening, Consistent, Factors
  <2>2. EventsTold(q)
    BY <1>3 DEF EventsTold, Listening, Consistent
  <2>3. Refusals(q)
    BY <1>3 DEF Refusals, Listening
  <2> QED
    BY <2>1, <2>2, <2>3 DEF Consistent
<1>6. Listening(q)
  BY <1>3, <1>5 DEF Listening, Silent
<1>7. PluginNow(q) = PluginNow(k)
  BY <1>3 DEF PluginNow
<1>8. Fine(q, q.password)
  BY <1>1, <1>3, <1>4 DEF Fine, WrongPasswordKnown, Factors
<1>9. /\ pl.name = PluginNow(k) /\ pl.state = "initial"
      /\ pl.pw = (IF PluginNow(k) \in {"native", "clear"} THEN q.commandPassword ELSE q.password)
      /\ pl = [name |-> PluginNow(k), state |-> "initial",
               pw |-> IF PluginNow(k) \in {"native", "clear"} THEN q.commandPassword ELSE q.password]
  BY DEF NewPlugin
<1> HIDE DEF pl
<1>10. pl.pw \in 1 .. L
  BY <1>1, <1>3, <1>4, <1>9
<1>11. pl \in PluginRecords
  BY <1>1, <1>2, <1>9, <1>10 DEF PluginRecords
<1>12. Fine(q, pl.pw)
  <2>1. CASE PluginNow(k) \notin {"native", "clear"}
    BY <1>8, <1>9, <2>1
  <2>2. CASE PluginNow(k) \in {"native", "clear"} /\ L = 1
    BY <1>1, <1>3, <1>10, <2>2 DEF Fine, Factors
  <2>3. CASE PluginNow(k) \in {"native", "clear"} /\ L # 1 /\ k.server.factor = 1
    <3>1. (pl.pw = q.commandPassword /\ q.commandPassword = 1) \/ WrongPasswordKnown(q)
      BY <1>1, <1>3, <1>9, <2>3 DEF WrongPasswordKnown
    <3> QED
      BY <1>3, <1>10, <2>3, <3>1 DEF Fine, Factors
  <2>4. CASE PluginNow(k) \in {"native", "clear"} /\ L # 1 /\ k.server.factor # 1
    <3>1. k.server.factor \in 2 .. L /\ setup.account[k.server.factor] \in {"native", "clear"} /\ L > 1
      BY <1>1, <2>4 DEF PluginNow
    <3>2. WrongPasswordKnown(q)
      BY <3>1 DEF WrongPasswordKnown
    <3> QED
      BY <1>10, <3>2 DEF Fine, Factors
  <2> QED
    BY <2>1, <2>2, <2>3, <2>4
<1> QED
  BY <1>2, <1>3, <1>4, <1>6, <1>7, <1>8, <1>9, <1>11, <1>12 DEF q, pl

LEMMA authSwitchRequestTurn ==
    ASSUME NEW k, setup \in Setups, Listening(k), AskedCount(k), k.server.state = "token"
    PROVE  /\ InDialogue(authSwitchRequest(k, PluginNow(k)))
           /\ ConnLike(authSwitchRequest(k, PluginNow(k)))
<1> DEFINE name == PluginNow(k)
           q == NextPassword(k)
           pl == NewPlugin(q, name)
           a == authSwitchRequest(k, name)
<1>1. /\ Listening(q) /\ Counted(q) /\ q.server = k.server /\ q.command = k.command
      /\ PluginNow(q) = name /\ name \in Plugins /\ q.plugin = k.plugin /\ Fine(q, q.password)
      /\ pl \in PluginRecords /\ pl.name = name /\ pl.state = "initial" /\ Fine(q, pl.pw)
  BY NextPasswordTurn
<1>2. setup.legacy => name \in {"native", "unknown", Custom}
  BY SetupFacts DEF PluginNow, Listening, Consistent, Typed, ServerRecords, Factors
<1>3. /\ ConnLike(q) /\ Consistent(q) /\ ~q.fatal /\ Silent(q) /\ q.command \in {"login", "change"}
      /\ q.server.state = "token" /\ q.plugin \in PluginRecords
  BY <1>1 DEF Listening, Consistent, Typed
<1> HIDE DEF q, name
<1>4. /\ setup.legacy /\ name # "native" => a = [q EXCEPT !.pending = q.pending \cup {k.command}]
      /\ ~setup.legacy /\ ((name = "clear" /\ ~setup.cleartext) \/ name = "unknown") => a = CommandError(q)
      /\ /\ ~(setup.legacy /\ name # "native")
         /\ ~(~setup.legacy /\ ((name = "clear" /\ ~setup.cleartext) \/ name = "unknown"))
         => a = Answer(q, CallPlugin(pl, "scramble"))
  <2>1. setup.legacy /\ name # "native" => a = [q EXCEPT !.pending = q.pending \cup {k.command}]
    BY DEF authSwitchRequest, q
  <2>2. ~setup.legacy /\ ((name = "clear" /\ ~setup.cleartext) \/ name = "unknown") => a = CommandError(q)
    BY DEF authSwitchRequest, q
  <2>3. /\ ~(setup.legacy /\ name # "native")
        /\ ~(~setup.legacy /\ ((name = "clear" /\ ~setup.cleartext) \/ name = "unknown"))
        => a = Answer(q, CallPlugin(pl, "scramble"))
    BY DEF authSwitchRequest, q
  <2> QED
    BY <2>1, <2>2, <2>3
<1> HIDE DEF a, pl
<1>5. CASE setup.legacy /\ name # "native"
  <2>1. q.pending \cup {k.command} = {q.command}
    BY <1>1, <1>3 DEF Silent
  <2>2. a = [q EXCEPT !.pending = {q.command}]
    BY <1>4, <1>5, <2>1
  <2>3. ClientStepTo(q, a, q.plugin, <<>>, {q.command})
    BY <1>3, <2>2, PendingEffect DEF Silent
  <2>4. First(PluginNow(q)) = Custom
    BY <1>1, <1>2, <1>5 DEF First, Custom
  <2>5. InDialogue(a) /\ ConnLike(a)
    BY <1>1, <1>3, <2>3, <2>4, PendingTurn
  <2> QED
    BY <2>5 DEF a, name
<1>6. CASE ~setup.legacy /\ ((name = "clear" /\ ~setup.cleartext) \/ name = "unknown")
  <2>1. a = CommandError(q)
    BY <1>4, <1>6
  <2>2. InDialogue(a) /\ ConnLike(a)
    BY <1>3, <2>1, CommandErrorTurn
  <2> QED
    BY <2>2 DEF a, name
<1>7. CASE /\ ~(setup.legacy /\ name # "native")
           /\ ~(~setup.legacy /\ ((name = "clear" /\ ~setup.cleartext) \/ name = "unknown"))
  <2>1. a = Answer(q, CallPlugin(pl, "scramble"))
    BY <1>4, <1>7
  <2>2. name \in {"native", "clear", "sha2", "sha256", Custom} /\ (name # "native" => ~setup.legacy)
    BY <1>1, <1>7 DEF Plugins
  <2>3. CASE name = Custom
    <3>1. a = Answer(q, Out(pl, "later"))
      BY <1>1, <2>1, <2>3 DEF CallPlugin, Custom
    <3>2. ClientStepTo(q, a, pl, <<>>, {q.command})
      BY <1>3, <3>1, AnswerLater
    <3>3. First(PluginNow(q)) = Custom
      BY <1>1, <2>3 DEF First, Custom
    <3>4. InDialogue(a) /\ ConnLike(a)
      BY <1>1, <1>3, <3>2, <3>3, PendingTurn
    <3> QED
      BY <3>4 DEF a, name
  <2>4. CASE name # Custom
    <3> DEFINE kind == First(name)
               pn == CASE name = "sha2" -> [pl EXCEPT !.state = "sent"]
                       [] name = "sha256" /\ ~Secure -> [pl EXCEPT !.state = "wait"]
                       [] OTHER -> pl
    <3>1. CallPlugin(pl, "scramble") = Out(pn, kind)
      <4>1. CASE name = "native"
        <5>1. CallPlugin(pl, "scramble") = Out(pl, "token")
          BY <1>1, <4>1 DEF CallPlugin, Custom
        <5>2. pn = pl /\ kind = "token"
          BY <4>1 DEF First
        <5> HIDE DEF pn, kind
        <5> QED
          BY <5>1, <5>2
      <4>2. CASE name = "clear"
        <5>1. CallPlugin(pl, "scramble") = Out(pl, "clear")
          BY <1>1, <4>2 DEF CallPlugin, Custom
        <5>2. pn = pl /\ kind = "clear"
          BY <4>2 DEF First
        <5> HIDE DEF pn, kind
        <5> QED
          BY <5>1, <5>2
      <4>3. CASE name = "sha2"
        <5>1. CallPlugin(pl, "scramble") = Out([pl EXCEPT !.state = "sent"], "token")
          BY <1>1, <4>3 DEF CallPlugin, Custom, caching_sha2_password
        <5>2. pn = [pl EXCEPT !.state = "sent"] /\ kind = "token"
          BY <4>3 DEF First
        <5> HIDE DEF pn, kind
        <5> QED
          BY <5>1, <5>2
      <4>4. CASE name = "sha256" /\ Secure
        <5>1. CallPlugin(pl, "scramble") = Out(pl, "clear")
          BY <1>1, <4>4 DEF CallPlugin, Custom, sha256_password
        <5>2. pn = pl /\ kind = "clear"
          BY <4>4 DEF First
        <5> HIDE DEF pn, kind
        <5> QED
          BY <5>1, <5>2
      <4>5. CASE name = "sha256" /\ ~Secure
        <5>1. CallPlugin(pl, "scramble") = Out([pl EXCEPT !.state = "wait"], "keyRequest")
          BY <1>1, <4>5 DEF CallPlugin, Custom, sha256_password
        <5>2. pn = [pl EXCEPT !.state = "wait"] /\ kind = "keyRequest"
          BY <4>5 DEF First
        <5> HIDE DEF pn, kind
        <5> QED
          BY <5>1, <5>2
      <4> QED
        BY <2>2, <2>4, <4>1, <4>2, <4>3, <4>4, <4>5
    <3>2. kind \notin {"throw", "nothing", "later"}
      BY DEF First, Custom
    <3>3. /\ pn \in PluginRecords /\ pn.name = name /\ pn.pw = pl.pw
          /\ name = "sha2" => pn.state = "sent"
          /\ name = "sha256" /\ ~Secure => pn.state = "wait"
      BY <1>1 DEF PluginRecords
    <3> HIDE DEF pn, kind
    <3>4. ClientStepTo(q, Answer(q, Out(pn, kind)), pn,
                       <<[kind |-> kind, plugin |-> pn.name, pw |-> pn.pw]>>, {})
      BY <1>3, <3>2, AnswerSent
    <3>5. a = Answer(q, Out(pn, kind))
      BY <2>1, <3>1
    <3>6. ClientStepTo(q, a, pn, <<[kind |-> kind, plugin |-> pn.name, pw |-> pn.pw]>>, {})
      BY <3>4, <3>5
    <3>7. kind = First(PluginNow(q)) /\ Fine(q, pn.pw) /\ pn.name \in Plugins
      BY <1>1, <3>3 DEF kind
    <3>8. /\ PluginNow(q) = "sha2" => pn.name = "sha2" /\ pn.state = "sent" /\ ~setup.legacy
          /\ PluginNow(q) = "sha256" /\ ~Secure => pn.name = "sha256" /\ pn.state = "wait" /\ ~setup.legacy
      BY <1>1, <2>2, <3>3
    <3>9. InDialogue(a) /\ ConnLike(a)
      BY <1>1, <1>3, <3>3, <3>6, <3>7, <3>8, AnsweredTurn
    <3> QED
      BY <3>9 DEF a, name
  <2> QED
    BY <2>3, <2>4
<1> QED
  BY <1>5, <1>6, <1>7

\* What comes after the news that the server knew the password.
NextIsThere(k) ==
    \/ /\ k.server.state = "token" /\ AskedCount(k)
       /\ k.toClient = <<Msg("next", PluginNow(k))>>
    \/ k.server.state = "done" /\ k.toClient = <<Msg("ok", "")>>

\* The plugin sha2 hears that the server knew the password; the packet of the
\* server that comes next is there already.
LEMMA FastTurn ==
    ASSUME NEW k, setup \in Setups, ConnLike(k), Consistent(k), ~k.fatal, k.command # "none",
           k.phase = "result", k.toServer = <<>>, k.pending = {}, HasSentToken(k), NextIsThere(k)
    PROVE  InDialogue(moreData(k, "fast")) /\ ConnLike(moreData(k, "fast"))
<1> DEFINE pl == [k.plugin EXCEPT !.state = "final"]
           q == moreData(k, "fast")
<1>1. k.plugin \in PluginRecords /\ k.plugin.name = "sha2" /\ k.plugin.state = "sent" /\ ~setup.legacy
  BY DEF Consistent, Typed, HasSentToken
<1>2. k.plugin # NoPlugin
  BY <1>1 DEF NoPlugin
<1>3. CallPlugin(k.plugin, "fast") = Out(pl, "nothing")
  BY <1>1 DEF CallPlugin, caching_sha2_password, Custom
<1>4. pl \in PluginRecords
  BY <1>1 DEF PluginRecords
<1> HIDE DEF pl
<1>5. q = [k EXCEPT !.plugin = pl]
  BY <1>1, <1>2, <1>3 DEF moreData, Answer, Out
<1> HIDE DEF q
<1>6. ClientStepTo(k, q, pl, <<>>, {})
  BY <1>5, PluginEffect
<1>7. Typed(q) /\ EventsTold(q)
  BY <1>4, <1>6 DEF Typed, EventsTold, Consistent, ClientStepTo
<1>8. Consistent(q)
  <2>1. Refusals(q)
    BY <1>6 DEF Refusals, Consistent, WrongPasswordKnown, ClientStepTo
  <2> QED
    BY <1>7, <2>1 DEF Consistent
<1>9. PluginNow(q) = PluginNow(k) /\ (AskedCount(k) => AskedCount(q))
  BY <1>6 DEF PluginNow, AskedCount, ClientStepTo
<1>10. Asked(q) \/ Done(q)
  BY <1>6, <1>9 DEF NextIsThere, Asked, Done, ClientStepTo
<1>11. Turn(q) /\ ConnLike(q)
  <2>1. q.server.state # "start"
    BY <1>10 DEF Asked, Done
  <2> QED
    BY <1>6, <1>10, <2>1 DEF Turn, ClientStepTo
<1> QED
  BY <1>8, <1>11 DEF InDialogue, q

\* The packets of the server that ask for more.
LEMMA moreDataTurn ==
    ASSUME NEW k, NEW data, setup \in Setups, Listening(k), Counted(k),
           \/ data = "full" /\ k.server.state = "full" /\ Holds(k, "sha2", "sent")
           \/ data = "key" /\ k.server.state = "encrypted" /\ (Holds(k, "sha2", "wait") \/ Holds(k, "sha256", "wait"))
    PROVE  InDialogue(moreData(k, data)) /\ ConnLike(moreData(k, data))
<1> DEFINE q == moreData(k, data)
<1>1. /\ k.plugin \in PluginRecords /\ k.plugin.name \in {"sha2", "sha256"} /\ ~setup.legacy
      /\ Fine(k, k.plugin.pw) /\ ConnLike(k) /\ ~k.fatal /\ Silent(k)
  BY DEF Listening, Consistent, Typed, Holds
<1>2. k.plugin # NoPlugin
  BY <1>1 DEF NoPlugin
<1>3. q = Answer(k, CallPlugin(k.plugin, data))
  BY <1>1, <1>2 DEF moreData
<1>4. ASSUME NEW pl \in PluginRecords, NEW kind \in {"clear", "keyRequest", "encrypted"},
             pl.name = k.plugin.name, pl.pw = k.plugin.pw,
             CallPlugin(k.plugin, data) = Out(pl, kind),
             k.server.state = "encrypted" <=> kind = "encrypted",
             kind = "keyRequest" => pl.name = "sha2" /\ pl.state = "wait"
      PROVE  InDialogue(q) /\ ConnLike(q)
  <2> HIDE DEF q
  <2>1. ClientStepTo(k, Answer(k, Out(pl, kind)), pl,
                     <<[kind |-> kind, plugin |-> pl.name, pw |-> pl.pw]>>, {})
    BY <1>1, AnswerSent
  <2>2. ClientStepTo(k, q, pl, <<[kind |-> kind, plugin |-> pl.name, pw |-> pl.pw]>>, {})
    BY <1>3, <1>4, <2>1
  <2>3. pl.name \in Plugins /\ Fine(k, pl.pw) /\ k.server.state \in {"full", "encrypted"}
    BY <1>1, <1>4 DEF Plugins
  <2> QED
    BY <1>1, <1>4, <2>2, <2>3, MoreAnsweredTurn
<1> DEFINE final == [k.plugin EXCEPT !.state = "final"]
           wait == [k.plugin EXCEPT !.state = "wait"]
<1>5. /\ final \in PluginRecords /\ final.name = k.plugin.name /\ final.pw = k.plugin.pw
      /\ wait \in PluginRecords /\ wait.name = k.plugin.name /\ wait.pw = k.plugin.pw /\ wait.state = "wait"
  BY <1>1 DEF PluginRecords
<1>6. CASE data = "full" /\ Secure
  <2>1. k.plugin.name = "sha2" /\ k.plugin.state = "sent" /\ k.server.state = "full"
    BY <1>6 DEF Holds
  <2>2. CallPlugin(k.plugin, data) = Out(final, "clear")
    BY <1>6, <2>1 DEF CallPlugin, caching_sha2_password, Custom
  <2> HIDE DEF q, final
  <2> QED
    BY <1>4, <1>5, <2>1, <2>2 DEF q
<1>7. CASE data = "full" /\ ~Secure
  <2>1. k.plugin.name = "sha2" /\ k.plugin.state = "sent" /\ k.server.state = "full"
    BY <1>7 DEF Holds
  <2>2. CallPlugin(k.plugin, data) = Out(wait, "keyRequest")
    BY <1>7, <2>1 DEF CallPlugin, caching_sha2_password, Custom
  <2> HIDE DEF q, wait
  <2> QED
    BY <1>4, <1>5, <2>1, <2>2 DEF q
<1>8. CASE data = "key"
  <2>1. k.plugin.state = "wait" /\ k.server.state = "encrypted"
    BY <1>8 DEF Holds
  <2>2. CASE k.plugin.name = "sha2"
    <3>1. CallPlugin(k.plugin, data) = Out(final, "encrypted")
      BY <1>8, <2>1, <2>2 DEF CallPlugin, caching_sha2_password, Custom
    <3> HIDE DEF q, final
    <3> QED
      BY <1>4, <1>5, <2>1, <3>1 DEF q
  <2>3. CASE k.plugin.name = "sha256"
    <3>1. CallPlugin(k.plugin, data) = Out(final, "encrypted")
      BY <1>8, <2>1, <2>3 DEF CallPlugin, sha256_password, Custom
    <3> HIDE DEF q, final
    <3> QED
      BY <1>4, <1>5, <2>1, <3>1 DEF q
  <2> QED
    BY <1>1, <2>2, <2>3
<1> QED
  BY <1>6, <1>7, <1>8

\* The reply to the hello: a plugin that was called once for it.
LEMMA sendCredentialsTurn ==
    ASSUME NEW k, setup \in Setups, ConnLike(k), Consistent(k), ~k.fatal, k.command = "login", Silent(k),
           k.factor = IF setup.mfa THEN 1 ELSE 0, k.server.state = "reply"
    PROVE  InDialogue(sendCredentials(k)) /\ ConnLike(sendCredentials(k))
<1> DEFINE method == IF canUseDirectAuth(setup.hello) THEN setup.hello ELSE "native"
           p == [k EXCEPT !.commandPassword = k.password, !.phase = "result"]
           np == NewPlugin(p, method)
           call == CallPlugin(np, "scramble")
           pl == IF method = "native" THEN NoPlugin ELSE call.plugin
           r == Send(p, "reply", method, p.password)
           q == sendCredentials(k)
<1>1. q = [r EXCEPT !.plugin = pl]
  BY DEF sendCredentials
<1>2. /\ method \in {"native", "sha2", "sha256", "clear"}
      /\ method = "sha2" => ~setup.legacy
      /\ method = "sha256" => Secure
  BY DEF canUseDirectAuth
<1>3. /\ ConnLike(p) /\ p.phase = "result" /\ p.command = k.command /\ p.factor = k.factor
      /\ p.password = k.password /\ p.commandPassword = k.password /\ p.plugin = k.plugin
      /\ p.pending = k.pending /\ p.fatal = k.fatal /\ p.events = k.events /\ p.server = k.server
      /\ p.toClient = k.toClient /\ p.toServer = k.toServer
  BY DEF ConnLike
<1>4. np = [name |-> method, state |-> "initial", pw |-> k.password]
  BY <1>3 DEF NewPlugin
<1>5. k.password \in 1 .. Len(setup.account) /\ k.server.refused = "no" /\ Len(setup.account) \in Nat
  BY SetupFacts DEF Consistent, Typed, Refusals, Factors, Silent
<1> HIDE DEF method, p, np
<1>6. pl \in PluginRecords /\ (method = "sha2" => pl = [name |-> method, state |-> "sent", pw |-> k.password])
  <2>1. CASE method = "native"
    BY <1>5, <2>1 DEF NoPlugin, PluginRecords
  <2>2. CASE method = "clear"
    <3>1. call = Out(np, "clear")
      BY <1>4, <2>2 DEF CallPlugin, Custom
    <3>2. pl = np
      BY <2>2, <3>1 DEF Out
    <3> QED
      BY <1>4, <1>5, <2>2, <3>2 DEF PluginRecords, Plugins
  <2>3. CASE method = "sha2"
    <3>1. call = Out([np EXCEPT !.state = "sent"], "token")
      BY <1>4, <2>3 DEF CallPlugin, Custom, caching_sha2_password
    <3>2. pl = [np EXCEPT !.state = "sent"]
      BY <2>3, <3>1 DEF Out
    <3>3. pl = [name |-> method, state |-> "sent", pw |-> k.password]
      BY <1>4, <3>2
    <3> QED
      BY <1>5, <2>3, <3>3 DEF PluginRecords, Plugins
  <2>4. CASE method = "sha256"
    <3>1. call = Out(np, "clear")
      BY <1>2, <1>4, <2>4 DEF CallPlugin, Custom, sha256_password
    <3>2. pl = np
      BY <2>4, <3>1 DEF Out
    <3> QED
      BY <1>4, <1>5, <2>4, <3>2 DEF PluginRecords, Plugins
  <2> QED
    BY <1>2, <2>1, <2>2, <2>3, <2>4
<1> DEFINE t == <<[kind |-> "reply", plugin |-> method, pw |-> k.password]>>
<1>7. ClientStepTo(p, r, p.plugin, t, p.pending)
  BY <1>3, SendEffect DEF Silent
<1> HIDE DEF r, pl
<1>8. ClientStepTo(p, q, pl, t, {})
  <2>1. ClientStepTo(r, q, pl, r.toServer, r.pending)
    BY <1>1, <1>7, PluginEffect DEF ClientStepTo
  <2> QED
    BY <1>3, <1>7, <2>1 DEF ClientStepTo, Silent
<1> HIDE DEF q
<1>9. Len(t) <= 1
  BY Tuples
<1>10. Consistent(p)
  <2>1. Typed(p)
    BY <1>3 DEF Typed, Consistent
  <2>2. EventsTold(p)
    BY <1>3 DEF EventsTold, Consistent
  <2>3. Refusals(p)
    BY <1>3, <1>5 DEF Refusals
  <2> QED
    BY <2>1, <2>2, <2>3 DEF Consistent
<1>11. Consistent(q)
  <2> HIDE DEF t
  <2> QED
    BY <1>3, <1>5, <1>6, <1>8, <1>9, <1>10, ConsistentClient
<1>12. Requested(q)
  <2>1. /\ q.toClient = <<>> /\ q.pending = {} /\ q.factor = (IF setup.mfa THEN 1 ELSE 0)
        /\ q.toServer = <<[kind |-> "reply", plugin |-> method, pw |-> k.password]>>
        /\ method = "sha2" => q.plugin = [name |-> method, state |-> "sent", pw |-> k.password] /\ ~setup.legacy
        /\ method = "sha256" => Secure
        /\ k.password \in Factors
    BY <1>2, <1>3, <1>5, <1>6, <1>8 DEF ClientStepTo, Silent, Factors
  <2> QED
    BY <1>2, <2>1 DEF Requested
<1>13. Turn(q) /\ ConnLike(q)
  BY <1>3, <1>8, <1>12 DEF Turn, ClientStepTo
<1> QED
  BY <1>11, <1>13 DEF InDialogue, q

-----------------------------------------------------------------------------
\* Packets.

LEMMA TakePacket ==
    ASSUME NEW o, NEW k, ConnLike(o), k = [o EXCEPT !.toClient = Tail(@)]
    PROVE  /\ ConnLike(k) /\ SameClient(o, k) /\ k.server = o.server /\ k.toServer = o.toServer
           /\ k.toClient = Tail(o.toClient)
BY DEF ConnLike, SameClient

LEMMA TakePacketConsistent ==
    ASSUME NEW o, NEW k, ConnLike(o), Consistent(o), o.toClient # <<>>, k = [o EXCEPT !.toClient = Tail(@)]
    PROVE  Consistent(k)
<1>1. /\ SameClient(o, k) /\ k.server = o.server /\ k.toServer = o.toServer
      /\ k.toClient = Tail(o.toClient)
  BY TakePacket
<1>2. o.toClient \in Seq(ToClient) /\ Len(o.toClient) <= 2
  BY DEF Consistent, Typed
<1>3. k.toClient \in Seq(ToClient) /\ Len(k.toClient) <= 2
  BY <1>1, <1>2, HeadTailProperties, LenProperties
<1>4. Typed(k)
  BY <1>1, <1>3 DEF Consistent, Typed, SameClient
<1>5. EventsTold(k) /\ Refusals(k)
  BY <1>1 DEF Consistent, EventsTold, Refusals, WrongPasswordKnown, SameClient
<1> QED
  BY <1>4, <1>5 DEF Consistent

LEMMA SucceededTurn ==
    ASSUME NEW k, ConnLike(k), Consistent(k), ~k.fatal, k.command # "none", Silent(k),
           k.server.state # "start"
    PROVE  InDialogue(Succeeded(k)) /\ ConnLike(Succeeded(k))
<1> DEFINE q == Succeeded(k)
<1>1. /\ ConnLike(q) /\ q.command = "none" /\ q.phase = "idle" /\ q.fatal = k.fatal
      /\ q.events = (IF k.command = "login" THEN Append(k.events, "connect") ELSE k.events)
      /\ q.server = k.server /\ q.toClient = k.toClient /\ q.toServer = k.toServer /\ q.factor = k.factor
      /\ q.password = k.password /\ q.commandPassword = k.commandPassword
      /\ q.plugin = k.plugin /\ q.pending = k.pending
  <2> DEFINE z == [k EXCEPT !.command = "none", !.phase = "idle", !.timer = FALSE, !.waits = 0]
  <2>1. /\ ConnLike(z) /\ z.command = "none" /\ z.phase = "idle" /\ z.fatal = k.fatal
        /\ z.events = k.events
        /\ z.server = k.server /\ z.toClient = k.toClient /\ z.toServer = k.toServer /\ z.factor = k.factor
        /\ z.password = k.password /\ z.commandPassword = k.commandPassword
        /\ z.plugin = k.plugin /\ z.pending = k.pending
    BY DEF ConnLike
  <2>2. q = IF k.command = "login" THEN [z EXCEPT !.events = Append(z.events, "connect")] ELSE z
    BY DEF Succeeded
  <2> HIDE DEF z, q
  <2>3. CASE k.command = "login"
    BY <2>1, <2>2, <2>3 DEF ConnLike
  <2>4. CASE k.command # "login"
    BY <2>1, <2>2, <2>4
  <2> QED
    BY <2>3, <2>4
<1> HIDE DEF q
<1>2. k.events = IF k.command = "login" THEN <<>> ELSE <<"connect">>
  BY DEF Consistent, EventsTold
<1>3. q.events = <<"connect">>
  BY <1>1, <1>2, Tuples
<1>4. Typed(q)
  BY <1>1 DEF Typed, Consistent
<1>5. EventsTold(q)
  BY <1>1, <1>3 DEF EventsTold
<1>6. Refusals(q)
  BY <1>1 DEF Refusals, Consistent, WrongPasswordKnown
<1>7. Turn(q)
  BY <1>1 DEF Turn, Silent
<1> QED
  BY <1>1, <1>4, <1>5, <1>6, <1>7 DEF InDialogue, Consistent, q

LEMMA handshakeInitTurn ==
    ASSUME NEW k, setup \in Setups, ConnLike(k), Consistent(k), ~k.fatal, k.command = "login", Silent(k),
           k.server.state = "reply", k.password = 1
    PROVE  InDialogue(handshakeInit(k))
<1> DEFINE q == [k EXCEPT !.factor = IF setup.mfa THEN 1 ELSE 0]
           h == handshakeInit(k)
<1>1. /\ ConnLike(q) /\ q.factor = (IF setup.mfa THEN 1 ELSE 0) /\ q.phase = k.phase
      /\ q.command = k.command /\ q.password = k.password /\ q.commandPassword = k.commandPassword
      /\ q.plugin = k.plugin /\ q.pending = k.pending /\ q.fatal = k.fatal /\ q.events = k.events
      /\ q.server = k.server /\ q.toClient = k.toClient /\ q.toServer = k.toServer
  BY DEF ConnLike
<1>2. Consistent(q)
  <2>1. q.factor \in 0 .. Len(setup.account) + 1
    BY <1>1, SetupFacts
  <2>2. Typed(q)
    BY <1>1, <2>1 DEF Typed, Consistent
  <2>3. EventsTold(q) /\ Refusals(q)
    BY <1>1 DEF EventsTold, Refusals, Consistent, WrongPasswordKnown
  <2> QED
    BY <2>2, <2>3 DEF Consistent
<1>3. CASE ~setup.ssl
  <2>1. h = sendCredentials(q)
    BY <1>3 DEF handshakeInit
  <2> HIDE DEF q
  <2>2. Silent(q)
    BY <1>1 DEF Silent
  <2> QED
    BY <1>1, <1>2, <2>1, <2>2, sendCredentialsTurn
<1>4. CASE setup.ssl /\ ~setup.serverSSL
  <2>1. h = CommandError(k)
    BY <1>4 DEF handshakeInit
  <2> QED
    BY <2>1, CommandErrorTurn
<1>5. CASE setup.ssl /\ setup.serverSSL
  <2>1. PICK tls : h = [q EXCEPT !.phase = "tls", !.tls = tls]
    BY <1>5 DEF handshakeInit
  <2> HIDE DEF q, h
  <2>2. /\ h.phase = "tls" /\ h.factor = q.factor
        /\ h.command = q.command /\ h.password = q.password /\ h.commandPassword = q.commandPassword
        /\ h.plugin = q.plugin /\ h.pending = q.pending /\ h.fatal = q.fatal /\ h.events = q.events
        /\ h.server = q.server /\ h.toClient = q.toClient /\ h.toServer = q.toServer
    BY <1>1, <2>1 DEF ConnLike
  <2>3. Typed(h)
    BY <1>2, <2>2 DEF Typed, Consistent
  <2>4. EventsTold(h) /\ Refusals(h)
    BY <1>2, <2>2 DEF EventsTold, Refusals, Consistent, WrongPasswordKnown
  <2>5. Turn(h)
    BY <1>1, <2>2 DEF Turn, Opening, Silent
  <2> QED
    BY <2>3, <2>4, <2>5 DEF InDialogue, Consistent, h
<1> QED
  BY <1>3, <1>4, <1>5

LEMMA TakenFrom ==
    ASSUME NEW o, Asked(o) \/ More(o) \/ Done(o), o.toClient # <<>>
    PROVE  o.toServer = <<>> /\ o.pending = {}
BY DEF Asked, More, Done

LEMMA HandledTurn ==
    ASSUME NEW o, NEW k, NEW packet, setup \in Setups, ConnLike(o), InDialogue(o), o.toClient # <<>>,
           k = [o EXCEPT !.toClient = Tail(@)], packet = Head(o.toClient)
    PROVE  InDialogue(Handled(k, packet))
<1>1. /\ ConnLike(k) /\ SameClient(o, k) /\ k.server = o.server /\ k.toServer = o.toServer
      /\ k.toClient = Tail(o.toClient) /\ Consistent(k) /\ Consistent(o)
  BY TakePacket, TakePacketConsistent DEF InDialogue
<1>2. CASE o.fatal
  <2>1. k.fatal /\ Handled(k, packet) = k
    BY <1>1, <1>2 DEF Handled, SameClient
  <2> QED
    BY <1>1, <2>1 DEF InDialogue
<1>3. CASE ~o.fatal /\ Opening(o)
  <2>1. /\ k.command = "login" /\ k.pending = {} /\ k.toServer = <<>> /\ k.password = 1 /\ ~k.fatal
        /\ k.server.state = "reply" /\ k.phase = "hello"
    BY <1>1, <1>3 DEF Opening, SameClient
  <2>2. PICK kind \in {"hello", "err", "junk"} : o.toClient = <<Msg(kind, "")>>
    BY <1>3 DEF Opening
  <2>3. packet.kind = kind /\ k.toClient = <<>>
    <3> DEFINE m == Msg(kind, "")
    <3>1. m.kind = kind /\ o.toClient = <<m>>
      BY <2>2 DEF Msg
    <3> HIDE DEF m
    <3> QED
      BY <1>1, <3>1, Tuples
  <2>4. Silent(k)
    BY <2>1, <2>3 DEF Silent
  <2>5. CASE kind = "hello"
    <3>1. Handled(k, packet) = handshakeInit(k)
      BY <2>1, <2>3, <2>5 DEF Handled
    <3> QED
      BY <1>1, <2>1, <2>4, <3>1, handshakeInitTurn
  <2>6. CASE kind # "hello"
    <3>1. Handled(k, packet) = CommandError(k)
      BY <2>1, <2>3, <2>6 DEF Handled
    <3> QED
      BY <1>1, <2>1, <3>1, CommandErrorTurn
  <2> QED
    BY <2>5, <2>6
<1>4. CASE ~o.fatal /\ ~Opening(o)
  <2>1. /\ o.command # "none" /\ o.phase = "result" /\ o.server.state # "start"
        /\ Asked(o) \/ More(o) \/ Done(o)
    BY <1>4 DEF InDialogue, Turn, Requested, Answered, Pending, Silent
  <2>2. /\ k.command # "none" /\ k.phase = "result" /\ ~k.fatal /\ k.server.state # "start"
        /\ k.toServer = <<>> /\ k.pending = {}
    BY <1>1, <1>4, <2>1, TakenFrom DEF SameClient
  <2>3. ASSUME NEW x, o.toClient = <<x>>, o.server.state # "done"
        PROVE  packet = x /\ Listening(k)
    <3>1. packet = x /\ k.toClient = <<>>
      BY <1>1, <2>3, Tuples
    <3>2. k.server.refused = "no"
      BY <1>1, <2>3 DEF Consistent, Refusals
    <3> QED
      BY <1>1, <2>2, <3>1, <3>2 DEF Listening, Silent
  <2>4. /\ AskedCount(o) => AskedCount(k)
        /\ Counted(o) => Counted(k)
        /\ PluginNow(o) = PluginNow(k)
        /\ \A name, state : Holds(o, name, state) => Holds(k, name, state)
        /\ o.plugin = k.plugin
    BY <1>1 DEF AskedCount, Counted, PluginNow, Holds, Fine, WrongPasswordKnown, SameClient
  <2>5. ASSUME NEW kind \in {"switch", "next"}, o.toClient = <<Msg(kind, PluginNow(o))>>,
               o.server.state = "token", AskedCount(o)
        PROVE  InDialogue(Handled(k, packet))
    <3>1. packet = Msg(kind, PluginNow(o)) /\ Listening(k)
      BY <2>3, <2>5
    <3>2. packet.kind = kind /\ packet.data = PluginNow(k)
      BY <2>4, <3>1 DEF Msg
    <3>3. Handled(k, packet) = authSwitchRequest(k, PluginNow(k))
      BY <2>2, <3>2 DEF Handled
    <3> QED
      BY <1>1, <2>4, <2>5, <3>1, <3>3, authSwitchRequestTurn
  <2>6. ASSUME NEW data \in {"full", "key"}, o.toClient = <<Msg("more", data)>>, Counted(o),
               \/ data = "full" /\ o.server.state = "full" /\ Holds(o, "sha2", "sent")
               \/ data = "key" /\ o.server.state = "encrypted" /\ (Holds(o, "sha2", "wait") \/ Holds(o, "sha256", "wait"))
        PROVE  InDialogue(Handled(k, packet))
    <3>1. packet = Msg("more", data) /\ Listening(k)
      BY <2>3, <2>6
    <3>2. packet.kind = "more" /\ packet.data = data
      BY <3>1 DEF Msg
    <3>3. Handled(k, packet) = moreData(k, data)
      BY <2>2, <3>2 DEF Handled
    <3> QED
      BY <1>1, <2>4, <2>6, <3>1, <3>3, moreDataTurn
  <2>7. ASSUME NEW x, o.toClient = <<Msg("more", "fast"), x>>, HasSentToken(o),
               \/ x = Msg("next", PluginNow(o)) /\ o.server.state = "token" /\ AskedCount(o)
               \/ x = Msg("ok", "") /\ o.server.state = "done"
        PROVE  InDialogue(Handled(k, packet))
    <3>1. packet = Msg("more", "fast") /\ k.toClient = <<x>>
      <4> DEFINE m == Msg("more", "fast")
      <4>1. Head(<<m, x>>) = m /\ Tail(<<m, x>>) = <<x>>
        BY Tuples
      <4>2. o.toClient = <<m, x>>
        BY <2>7
      <4> HIDE DEF m
      <4>3. packet = m /\ k.toClient = <<x>>
        BY <1>1, <4>1, <4>2
      <4> QED
        BY <4>3 DEF m
    <3>2. packet.kind = "more" /\ packet.data = "fast"
      BY <3>1 DEF Msg
    <3>3. Handled(k, packet) = moreData(k, "fast")
      BY <2>2, <3>2 DEF Handled
    <3>4. HasSentToken(k) /\ NextIsThere(k)
      BY <1>1, <2>4, <2>7, <3>1 DEF HasSentToken, NextIsThere
    <3> QED
      BY <1>1, <2>2, <3>3, <3>4, FastTurn
  <2>8. ASSUME NEW kind \in {"ok", "err"}, o.toClient = <<Msg(kind, "")>>
        PROVE  InDialogue(Handled(k, packet))
    <3> DEFINE m == Msg(kind, "")
    <3>1. m.kind = kind
      BY DEF Msg
    <3>2. packet.kind = kind /\ Silent(k)
      <4>1. o.toClient = <<m>>
        BY <2>8
      <4> HIDE DEF m
      <4>2. packet = m /\ k.toClient = <<>>
        BY <1>1, <4>1, Tuples
      <4> QED
        BY <2>2, <3>1, <4>2 DEF Silent
    <3>3. CASE kind = "ok"
      <4>1. Handled(k, packet) = Succeeded(k)
        BY <2>2, <3>2, <3>3 DEF Handled
      <4> QED
        BY <1>1, <2>2, <3>2, <4>1, SucceededTurn
    <3>4. CASE kind = "err"
      <4>1. Handled(k, packet) = CommandError(k)
        BY <2>2, <3>2, <3>4 DEF Handled
      <4>2. k.command \in {"login", "change"}
        BY <1>1, <2>2 DEF Consistent, Typed
      <4> QED
        BY <1>1, <2>2, <3>2, <4>1, <4>2, CommandErrorTurn
    <3> QED
      BY <3>3, <3>4
  <2>9. CASE Asked(o)
    BY <2>5, <2>7, <2>9 DEF Asked, HasSentToken
  <2>10. CASE More(o)
    BY <1>4, <2>6, <2>10 DEF More
  <2>11. CASE Done(o)
    BY <2>7, <2>8, <2>11 DEF Done, HasSentToken
  <2> QED
    BY <2>1, <2>9, <2>10, <2>11
<1> QED
  BY <1>2, <1>3, <1>4

-----------------------------------------------------------------------------
\* The actions.

\* The configuration does not change: what is said of a value of the
\* connection now is said of it after the step that gives it.
LEMMA DialogueSame ==
    ASSUME NEW c, NEW q, conn[c]' = q, setup' = setup, InDialogue(q)
    PROVE  InDialogue(conn[c])'
<1>1. /\ Typed(conn[c])' <=> Typed(q)
      /\ Refusals(conn[c])' <=> Refusals(q)
      /\ EventsTold(conn[c])' <=> EventsTold(q)
  BY DEF Typed, Refusals, EventsTold, WrongPasswordKnown, ServerRecords, PluginRecords, Factors
<1>2. Opening(q) => Opening(conn[c])'
  BY DEF Opening
<1>3. Requested(q) => Requested(conn[c])'
  BY DEF Requested, Factors, Secure
<1>4. Asked(q) => Asked(conn[c])'
  BY DEF Asked, AskedCount, PluginNow
<1>5. Answered(q) => Answered(conn[c])'
  BY DEF Answered, Fine, WrongPasswordKnown, Counted, Holds, PluginNow, Factors, First, Secure
<1>6. Pending(q) => Pending(conn[c])'
  BY DEF Pending, Fine, WrongPasswordKnown, Counted, PluginNow, Factors, First, Secure
<1>7. More(q) => More(conn[c])'
  BY DEF More, Fine, WrongPasswordKnown, Counted, Holds, Factors
<1>8. Done(q) => Done(conn[c])'
  BY DEF Done
<1>9. Turn(q) => Turn(conn[c])'
  BY <1>2, <1>3, <1>4, <1>5, <1>6, <1>7, <1>8 DEF Turn, Silent
<1>10. q.fatal => conn[c].fatal'
  OBVIOUS
<1> QED
  BY <1>1, <1>9, <1>10 DEF InDialogue, Consistent

LEMMA DialogueStep ==
    ASSUME AuthInv, Dialogues, NEW c \in Conns, NEW q, InDialogue(q),
           conn' = [conn EXCEPT ![c] = q], setup' = setup
    PROVE  Dialogues'
<1>1. conn = [d \in Conns |-> conn[d]]
  BY DEF AuthInv, TypeInv
<1>2. ASSUME NEW d \in Conns PROVE InDialogue(conn[d])'
  <2>1. PICK r : r = IF d = c THEN q ELSE conn[d]
    OBVIOUS
  <2>2. conn[d]' = r
    BY <1>1, <2>1
  <2>3. InDialogue(r)
    BY <2>1 DEF Dialogues
  <2> QED
    BY <2>2, <2>3, DialogueSame
<1>3. (setup \in Setups)'
  BY DEF Dialogues
<1> QED
  BY <1>2, <1>3 DEF Dialogues

LEMMA SameDialogues ==
    ASSUME Dialogues, conn' = conn, setup' = setup PROVE Dialogues'
<1>1. ASSUME NEW d \in Conns PROVE InDialogue(conn[d])'
  <2>1. PICK r : r = conn[d]
    OBVIOUS
  <2>2. conn[d]' = r /\ InDialogue(r)
    BY <2>1 DEF Dialogues
  <2> QED
    BY <2>2, DialogueSame
<1>2. (setup \in Setups)'
  BY DEF Dialogues
<1> QED
  BY <1>1, <1>2 DEF Dialogues

\* Of a connection of which only the TLS part changes there is nothing to show.
LEMMA OutsideTLS ==
    ASSUME NEW k, NEW q, InDialogue(k), SameClient(k, q), q.server = k.server,
           q.toClient = k.toClient, q.toServer = k.toServer
    PROVE  InDialogue(q)
<1>1. Typed(q) /\ EventsTold(q)
  BY DEF Typed, EventsTold, InDialogue, Consistent, SameClient
<1>2. Refusals(q)
  BY DEF Refusals, InDialogue, Consistent, SameClient, WrongPasswordKnown
<1>3. /\ Counted(k) => Counted(q)
      /\ AskedCount(k) => AskedCount(q)
      /\ PluginNow(k) = PluginNow(q)
      /\ \A pw : Fine(k, pw) => Fine(q, pw)
      /\ \A name, state : Holds(k, name, state) => Holds(q, name, state)
  BY DEF AskedCount, Counted, PluginNow, Holds, Fine, WrongPasswordKnown, SameClient
<1>4. Opening(k) => Opening(q)
  BY DEF Opening, SameClient
<1>5. Requested(k) => Requested(q)
  BY DEF Requested, SameClient
<1>6. Asked(k) => Asked(q)
  BY <1>3 DEF Asked, SameClient
<1>7. Answered(k) => Answered(q)
  BY <1>3 DEF Answered, SameClient
<1>8. Pending(k) => Pending(q)
  BY <1>3 DEF Pending, SameClient
<1>9. More(k) => More(q)
  BY <1>3 DEF More, SameClient
<1>10. Done(k) => Done(q)
  BY DEF Done, SameClient
<1>11. Turn(k) => Turn(q)
  BY <1>4, <1>5, <1>6, <1>7, <1>8, <1>9, <1>10 DEF Turn, Silent, SameClient
<1> QED
  BY <1>1, <1>2, <1>11 DEF InDialogue, Consistent, SameClient

LEMMA InitDialogues == Init => Dialogues
<1> SUFFICES ASSUME Init, NEW c \in Conns PROVE InDialogue(conn[c])
  BY DEF Init, Dialogues
<1>1. conn[c] = NewConn /\ setup \in Setups
  BY DEF Init
<1> DEFINE k == NewConn
<1>2. /\ Len(setup.account) \in Nat \ {0} /\ 1 \in Factors
  BY <1>1, SetupFacts DEF Factors
<1>3. Typed(k)
  <2>1. k.plugin \in PluginRecords /\ k.server \in ServerRecords
    BY <1>2 DEF NewConn, NoPlugin, PluginRecords, ServerRecords, ServerStates
  <2>2. k.toClient = <<>> /\ k.toServer = <<>> /\ <<>> \in Seq(ToClient) /\ Len(<<>>) = 0
    BY Tuples DEF NewConn
  <2> QED
    BY <1>2, <2>1, <2>2 DEF Typed, NewConn
<1>4. Refusals(k) /\ EventsTold(k)
  BY DEF Refusals, EventsTold, NewConn
<1>5. Turn(k)
  BY DEF Turn, Opening, NewConn
<1> QED
  BY <1>1, <1>3, <1>4, <1>5 DEF InDialogue, Consistent

LEMMA HandlePacketDialogues ==
    ASSUME AuthInv, Dialogues, NEW c \in Conns, HandlePacket(c) PROVE Dialogues'
<1> DEFINE o == conn[c]
           k == [o EXCEPT !.toClient = Tail(@)]
           q == Handled(k, Head(o.toClient))
<1>1. /\ o.toClient # <<>> /\ conn' = [conn EXCEPT ![c] = q] /\ setup' = setup
  BY DEF HandlePacket
<1>2. ConnLike(o) /\ InDialogue(o) /\ setup \in Setups
  BY DEF AuthInv, TypeInv, Dialogues
<1>3. InDialogue(q)
  <2> HIDE DEF o
  <2> QED
    BY <1>1, <1>2, HandledTurn
<1> HIDE DEF q
<1> QED
  BY <1>1, <1>3, DialogueStep

LEMMA FailDialogues ==
    ASSUME AuthInv, Dialogues, NEW c \in Conns, Timeout(c) \/ Lose(c) PROVE Dialogues'
<1>1. conn' = [conn EXCEPT ![c] = Fail(conn[c])] /\ setup' = setup
  BY DEF Timeout, Lose
<1>2. InDialogue(Fail(conn[c]))
  BY FailTurn DEF AuthInv, TypeInv, Dialogues, InDialogue
<1> QED
  BY <1>1, <1>2, DialogueStep

LEMMA TLSDialogues ==
    ASSUME AuthInv, Dialogues, NEW c \in Conns,
           Session(c) \/ \E good \in BOOLEAN : PeerKnown(c, good)
    PROVE  Dialogues'
<1>1. ConnLike(conn[c]) /\ InDialogue(conn[c]) /\ setup \in Setups /\ conn = [d \in Conns |-> conn[d]]
  BY DEF AuthInv, TypeInv, Dialogues
<1>2. setup' = setup /\ (conn' = conn \/ \E tls : conn' = [conn EXCEPT ![c] = [conn[c] EXCEPT !.tls = tls]])
  BY DEF Session, sessionEvent, PeerKnown
<1>3. SUFFICES ASSUME NEW tls, conn' = [conn EXCEPT ![c] = [conn[c] EXCEPT !.tls = tls]] PROVE Dialogues'
  BY <1>2, SameDialogues
<1> DEFINE k == conn[c]
           q == [k EXCEPT !.tls = tls]
<1>4. conn' = [conn EXCEPT ![c] = q]
  BY <1>3
<1> HIDE DEF k
<1>5. SameClient(k, q) /\ q.server = k.server /\ q.toClient = k.toClient /\ q.toServer = k.toServer
  BY <1>1 DEF k, ConnLike, SameClient
<1>6. InDialogue(q)
  <2> HIDE DEF q
  <2> QED
    BY <1>1, <1>5, OutsideTLS DEF k
<1> HIDE DEF q
<1> QED
  BY <1>2, <1>4, <1>6, DialogueStep

LEMMA ServerHelloDialogues ==
    ASSUME AuthInv, Dialogues, NEW c \in Conns, ServerHello(c) PROVE Dialogues'
<1> DEFINE k == conn[c]
<1>1. ConnLike(k) /\ InDialogue(k) /\ setup \in Setups
  BY DEF AuthInv, TypeInv, Dialogues
<1>2. PICK kind \in {"hello", "err", "junk"} :
         conn' = [conn EXCEPT ![c] = [Reply(k, kind, "") EXCEPT !.server.state = "reply"]]
  BY DEF ServerHello
<1>3. k.server.state = "start" /\ ~k.fatal /\ setup' = setup
  BY DEF ServerHello
<1> HIDE DEF k
<1>4. /\ Opening(k) /\ Consistent(k) /\ k.phase = "hello" /\ k.toClient = <<>>
      /\ k.command = "login" /\ k.pending = {} /\ k.toServer = <<>> /\ k.password = 1
  BY <1>1, <1>3 DEF InDialogue, Turn, Opening
<1> DEFINE s == [k.server EXCEPT !.state = "reply"]
           t == <<Msg(kind, "")>>
           r == Reply(k, kind, "")
           q == [r EXCEPT !.server = s]
<1>5. r.server = k.server
  BY <1>1, ReplyEffect DEF ServerStepTo
<1>6. conn' = [conn EXCEPT ![c] = q]
  BY <1>2, <1>5
<1>7. s \in ServerRecords /\ s.state = "reply" /\ s.refused = "no"
  <2>1. k.server \in ServerRecords /\ k.server.refused = "no"
    BY <1>3, <1>4 DEF Consistent, Typed, Refusals
  <2> QED
    BY <2>1 DEF ServerRecords, ServerStates
<1> HIDE DEF s
<1>8. ServerStepTo(k, q, Append(k.toClient, Msg(kind, "")), s)
  BY <1>1, ReplyStateEffect
<1> HIDE DEF q, r
<1>9. ServerStepTo(k, q, t, s)
  BY <1>4, <1>8, Tuples
<1>10. t \in Seq(ToClient) /\ Len(t) <= 2
  BY ToClientSeqs, Messages
<1>11. Consistent(q)
  <2> HIDE DEF t
  <2> QED
    BY <1>4, <1>7, <1>9, <1>10, ConsistentAfter DEF Consistent
<1>12. Opening(q)
  <2>1. q.command = "login" /\ q.pending = {} /\ q.toServer = <<>> /\ q.password = 1
    BY <1>4, <1>9 DEF ServerStepTo, SameClient
  <2>2. q.server.state = "reply" /\ q.phase = "hello" /\ q.toClient = <<Msg(kind, "")>>
    BY <1>4, <1>7, <1>9 DEF ServerStepTo, SameClient
  <2> QED
    BY <2>1, <2>2 DEF Opening
<1>13. InDialogue(q)
  BY <1>11, <1>12 DEF InDialogue, Turn
<1> QED
  BY <1>3, <1>6, <1>13, DialogueStep

LEMMA ServerReceiveDialogues ==
    ASSUME AuthInv, Dialogues, NEW c \in Conns, NEW fast \in BOOLEAN, ServerReceive(c, fast)
    PROVE  Dialogues'
<1> DEFINE o == conn[c]
           k == [o EXCEPT !.toServer = Tail(@)]
           q == Received(k, Head(o.toServer), fast)
<1>1. /\ o.toServer # <<>> /\ ~o.fatal /\ conn' = [conn EXCEPT ![c] = q] /\ setup' = setup
  BY DEF ServerReceive
<1>2. ConnLike(o) /\ InDialogue(o) /\ setup \in Setups
  BY DEF AuthInv, TypeInv, Dialogues
<1>3. InDialogue(q)
  <2> HIDE DEF o
  <2> QED
    BY <1>1, <1>2, ServerReceiveTurn
<1> HIDE DEF q
<1> QED
  BY <1>1, <1>3, DialogueStep

LEMMA SecureConnectDialogues ==
    ASSUME AuthInv, Dialogues, NEW c \in Conns, NEW reused \in BOOLEAN, SecureConnect(c, reused)
    PROVE  Dialogues'
<1> DEFINE o == conn[c]
           k == [o EXCEPT !.tls.established = TRUE,
                          !.tls.good = IF reused THEN o.tls.offered.good ELSE @]
           a == [k EXCEPT !.tls.accepted = TRUE]
<1>1. /\ o.phase = "tls" /\ ~o.fatal /\ setup' = setup
      /\ \/ conn' = [conn EXCEPT ![c] = Fail(k)]
         \/ conn' = [conn EXCEPT ![c] = sendCredentials(a)]
  BY DEF SecureConnect
<1>2. ConnLike(o) /\ InDialogue(o) /\ setup \in Setups
  BY DEF AuthInv, TypeInv, Dialogues
<1> HIDE DEF o
<1>3. /\ SameClient(o, k) /\ k.server = o.server /\ k.toClient = o.toClient /\ k.toServer = o.toServer
      /\ SameClient(o, a) /\ a.server = o.server /\ a.toClient = o.toClient /\ a.toServer = o.toServer
  BY <1>2 DEF ConnLike, SameClient
<1>4. ConnLike(k) /\ ConnLike(a)
  <2>1. DOMAIN k = DOMAIN o /\ DOMAIN a = DOMAIN o
    OBVIOUS
  <2>2. /\ o.tls \in TLSRecords
        /\ k.tls = [o.tls EXCEPT !.established = TRUE, !.good = IF reused THEN o.tls.offered.good ELSE @]
        /\ a.tls = [k.tls EXCEPT !.accepted = TRUE]
    BY <1>2 DEF ConnLike
  <2>3. k.tls \in TLSRecords
    <3> HIDE DEF k
    <3> QED
      BY <2>2 DEF TLSRecords, Sessions
  <2>4. a.tls \in TLSRecords
    <3> HIDE DEF k, a
    <3> QED
      BY <2>2, <2>3 DEF TLSRecords
  <2> QED
    BY <1>2, <2>1, <2>3, <2>4 DEF ConnLike
<1> HIDE DEF k, a
<1>5. InDialogue(k) /\ InDialogue(a)
  BY <1>2, <1>3, OutsideTLS
<1>6. InDialogue(Fail(k))
  BY <1>4, <1>5, FailTurn DEF InDialogue
<1>7. InDialogue(sendCredentials(a))
  <2>1. /\ o.command = "login" /\ o.pending = {} /\ o.toServer = <<>> /\ o.toClient = <<>>
        /\ o.server.state = "reply" /\ o.factor = IF setup.mfa THEN 1 ELSE 0
    BY <1>1, <1>2 DEF InDialogue, Turn, Opening
  <2>2. a.command = "login" /\ Silent(a) /\ a.server.state = "reply" /\ ~a.fatal
    BY <1>1, <1>3, <2>1 DEF Silent, SameClient
  <2>3. a.factor = IF setup.mfa THEN 1 ELSE 0
    BY <1>3, <2>1 DEF SameClient
  <2>4. Consistent(a)
    BY <1>5 DEF InDialogue
  <2> QED
    BY <1>2, <1>4, <2>2, <2>3, <2>4, sendCredentialsTurn
<1> QED
  BY <1>1, <1>6, <1>7, DialogueStep

LEMMA PluginAnswersDialogues ==
    ASSUME AuthInv, Dialogues, NEW c \in Conns, NEW command \in {"login", "change"}, NEW ok \in BOOLEAN,
           PluginAnswers(c, command, ok)
    PROVE  Dialogues'
<1> DEFINE o == conn[c]
           k == [o EXCEPT !.pending = o.pending \ {command}]
           q == IF ok THEN Send(k, Custom, Custom, k.password) ELSE PluginError(k, command)
<1>1. command \in o.pending /\ conn' = [conn EXCEPT ![c] = q] /\ setup' = setup
  BY DEF PluginAnswers
<1>2. ConnLike(o) /\ InDialogue(o) /\ setup \in Setups
  BY DEF AuthInv, TypeInv, Dialogues
<1> HIDE DEF o
<1>3. ClientStepTo(o, k, o.plugin, o.toServer, o.pending \ {command})
  BY <1>2, PendingEffect
<1> HIDE DEF k
<1>4. ConnLike(k) /\ Consistent(k)
  <2>1. Typed(k)
    BY <1>2, <1>3 DEF InDialogue, Consistent, Typed, ClientStepTo
  <2>2. EventsTold(k) /\ Refusals(k)
    BY <1>2, <1>3 DEF InDialogue, Consistent, EventsTold, Refusals, WrongPasswordKnown, ClientStepTo
  <2> QED
    BY <1>3, <2>1, <2>2 DEF Consistent, ClientStepTo
<1>5. InDialogue(q)
  <2>1. CASE o.fatal
    <3>1. k.fatal
      BY <1>3, <2>1 DEF ClientStepTo
    <3>2. InDialogue(k) /\ InDialogue(Fail(k))
      BY <1>4, <3>1, FailTurn DEF InDialogue
    <3>3. InDialogue([k EXCEPT !.unhandled = TRUE])
      <4> DEFINE u == [k EXCEPT !.unhandled = TRUE]
      <4>1. SameClient(k, u) /\ u.server = k.server /\ u.toClient = k.toClient /\ u.toServer = k.toServer
        BY <1>4 DEF ConnLike, SameClient
      <4> HIDE DEF u
      <4>2. InDialogue(u)
        BY <3>2, <4>1, OutsideTLS
      <4> QED
        BY <4>2 DEF u
    <3> QED
      BY <3>1, <3>2, <3>3 DEF Send, PluginError
  <2>2. CASE ~o.fatal
    <3>1. Pending(o) /\ o.command # "none" /\ o.phase = "result"
      BY <1>1, <1>2, <2>2 DEF InDialogue, Turn, Opening, Silent, Requested, Asked, Answered, More, Done
    <3>2. o.pending = {o.command} /\ o.toServer = <<>> /\ o.toClient = <<>> /\ o.server.state = "token"
      BY <3>1 DEF Pending
    <3>3. command = o.command /\ o.pending \ {command} = {}
      BY <1>1, <3>2
    <3>4. /\ k.command = command /\ k.phase = "result" /\ ~k.fatal /\ Silent(k)
          /\ k.server = o.server /\ k.server.state = "token"
      BY <1>3, <2>2, <3>1, <3>2, <3>3 DEF Silent, ClientStepTo
    <3>5. Counted(k) /\ First(PluginNow(k)) = Custom /\ Fine(k, k.password)
      BY <1>3, <3>1 DEF Pending, Counted, PluginNow, Fine, WrongPasswordKnown, ClientStepTo
    <3>6. k.server.refused = "no"
      BY <1>4, <3>4 DEF Consistent, Refusals
    <3>7. CASE ok
      <4> DEFINE kind == First(PluginNow(k))
                 s == Send(k, kind, Custom, k.password)
      <4>1. q = s
        BY <3>5, <3>7
      <4>2. ClientStepTo(k, s, k.plugin, <<[kind |-> kind, plugin |-> Custom, pw |-> k.password]>>, k.pending)
        BY <1>4, <3>4, SendEffect DEF Silent
      <4>3. PluginNow(k) # "sha2" /\ ~(PluginNow(k) = "sha256" /\ ~Secure)
        BY <3>5 DEF First, Custom
      <4> HIDE DEF s, q
      <4>4. Consistent(s)
        <5> DEFINE t == <<[kind |-> kind, plugin |-> Custom, pw |-> k.password]>>
        <5>1. Len(t) <= 1
          BY Tuples
        <5> HIDE DEF t
        <5>2. ClientStepTo(k, s, k.plugin, t, k.pending)
          BY <4>2 DEF t
        <5>3. k.plugin \in PluginRecords
          BY <1>4 DEF Consistent, Typed
        <5> QED
          BY <1>4, <3>6, <5>1, <5>2, <5>3, ConsistentClient
      <4>5. Answered(s)
        <5>1. PluginNow(s) = PluginNow(k) /\ Counted(s) /\ Fine(s, k.password)
          BY <3>5, <4>2 DEF PluginNow, Counted, Fine, WrongPasswordKnown, ClientStepTo
        <5>2. s.server.state = "token" /\ s.toClient = <<>> /\ s.pending = {}
          BY <3>4, <4>2 DEF ClientStepTo, Silent
        <5>3. /\ s.toServer = <<[kind |-> First(PluginNow(s)), plugin |-> Custom, pw |-> k.password]>>
              /\ Custom \in Plugins /\ k.password \in Factors
          BY <4>2, <5>1, <3>5 DEF ClientStepTo, Fine, Plugins
        <5> QED
          BY <4>3, <5>1, <5>2, <5>3 DEF Answered
      <4>6. Turn(s)
        BY <3>1, <3>3, <3>4, <4>2, <4>5 DEF Turn, ClientStepTo
      <4> QED
        BY <4>1, <4>4, <4>6 DEF InDialogue
    <3>8. CASE ~ok /\ command = "login"
      <4>1. q = Fail(k)
        BY <3>8 DEF PluginError
      <4> QED
        BY <1>4, <4>1, FailTurn
    <3>9. CASE ~ok /\ command = "change"
      <4>1. q = [k EXCEPT !.unhandled = TRUE]
        BY <3>9 DEF PluginError
      <4> HIDE DEF q
      <4>2. SameClient(k, q) /\ q.server = k.server /\ q.toClient = k.toClient /\ q.toServer = k.toServer
        BY <1>4, <4>1 DEF ConnLike, SameClient
      <4>3. InDialogue(k)
        BY <1>4, <3>4, <3>9 DEF InDialogue, Turn
      <4> QED
        BY <4>2, <4>3, OutsideTLS
    <3> QED
      BY <3>7, <3>8, <3>9
  <2> QED
    BY <2>1, <2>2
<1> HIDE DEF q
<1> QED
  BY <1>1, <1>5, DialogueStep

LEMMA ChangeUserDialogues ==
    ASSUME AuthInv, Dialogues, NEW c \in Conns, NEW explicit \in BOOLEAN, ChangeUser(c, explicit)
    PROVE  Dialogues'
<1> DEFINE o == conn[c]
           pw == IF explicit THEN 1 ELSE o.password
           k == [o EXCEPT !.command = "change", !.phase = "result", !.waits = 1,
                          !.password = pw, !.commandPassword = pw,
                          !.factor = IF setup.mfa THEN 1 ELSE 0]
           q == Send(k, "change", "native", pw)
           t == <<[kind |-> "change", plugin |-> "native", pw |-> pw]>>
<1>1. /\ o.command = "none" /\ ~o.fatal /\ conn' = [conn EXCEPT ![c] = q] /\ setup' = setup
  BY DEF ChangeUser
<1>2. ConnLike(o) /\ InDialogue(o) /\ Consistent(o) /\ setup \in Setups
  BY DEF AuthInv, TypeInv, Dialogues, InDialogue
<1> HIDE DEF o
<1>3. Silent(o) /\ o.server.state # "start"
  BY <1>1, <1>2 DEF InDialogue, Turn, Opening
<1>4. pw \in Factors
  BY <1>2, SetupFacts DEF Consistent, Typed, Factors
<1> HIDE DEF pw
<1>5. /\ ConnLike(k) /\ k.command = "change" /\ k.phase = "result" /\ k.password = pw
      /\ k.commandPassword = pw /\ k.factor = (IF setup.mfa THEN 1 ELSE 0)
      /\ k.plugin = o.plugin /\ k.pending = o.pending /\ k.fatal = o.fatal /\ k.events = o.events
      /\ k.server = o.server /\ k.toClient = o.toClient /\ k.toServer = o.toServer
  BY <1>2 DEF ConnLike
<1> HIDE DEF k
<1>6. ClientStepTo(k, q, k.plugin, t, k.pending)
  BY <1>1, <1>3, <1>5, SendEffect DEF Silent
<1> HIDE DEF q
<1>7. Len(t) = 1 /\ t # <<>>
  BY Tuples
<1>8. Typed(q)
  <2> HIDE DEF t
  <2>1. k.factor \in 0 .. Len(setup.account) + 1
    BY <1>2, <1>5, SetupFacts
  <2> QED
    BY <1>2, <1>4, <1>5, <1>6, <1>7, <2>1 DEF Typed, Consistent, ClientStepTo
<1>9. EventsTold(q)
  BY <1>1, <1>2, <1>5, <1>6 DEF EventsTold, Consistent, ClientStepTo
<1>10. Refusals(q)
  <2> HIDE DEF t
  <2>1. o.server.refused = "no" \/ o.server.state = "done"
    BY <1>2 DEF Consistent, Refusals
  <2> QED
    BY <1>5, <1>6, <1>7, <2>1 DEF Refusals, ClientStepTo
<1>11. Requested(q)
  <2>1. q.toServer = <<[kind |-> "change", plugin |-> "native", pw |-> pw]>>
    BY <1>6 DEF ClientStepTo
  <2>2. q.toClient = <<>> /\ q.pending = {} /\ q.factor = IF setup.mfa THEN 1 ELSE 0
    BY <1>3, <1>5, <1>6 DEF ClientStepTo, Silent
  <2> QED
    BY <1>4, <2>1, <2>2 DEF Requested
<1>12. Turn(q)
  BY <1>3, <1>5, <1>6, <1>11 DEF Turn, ClientStepTo
<1>13. InDialogue(q)
  BY <1>8, <1>9, <1>10, <1>12 DEF InDialogue, Consistent
<1> QED
  BY <1>1, <1>13, DialogueStep

-----------------------------------------------------------------------------
\* The theorems.

\* At every step of startTLS, of the 'session' event and of the login between
\* them: no TLS before the hello, a session is issued to the connection it
\* names, and with rejectUnauthorized whatever is accepted, offered or cached
\* goes back to a verified peer.
THEOREM AuthInvHolds == Spec => []AuthInv
<1>1. Init => AuthInv
  BY InitInv
<1>2. AuthInv /\ [Next]_vars => AuthInv'
  <2> SUFFICES ASSUME AuthInv, [Next]_vars PROVE AuthInv'
    OBVIOUS
  <2>1. CASE UNCHANGED vars
    BY <2>1 DEF vars, AuthInv, TypeInv, CachedSession, Verified, Stages
  <2>2. CASE ReplaceMaterial
    BY <2>2, ReplaceMaterialStep
  <2>3. ASSUME NEW c \in Conns,
               \/ HandlePacket(c) \/ Timeout(c) \/ Lose(c) \/ Session(c) \/ ServerHello(c)
               \/ \E command \in {"login", "change"}, ok \in BOOLEAN : PluginAnswers(c, command, ok)
               \/ \E b \in BOOLEAN : \/ ChangeUser(c, b) \/ SecureConnect(c, b)
                                     \/ ServerReceive(c, b) \/ PeerKnown(c, b)
        PROVE  AuthInv'
    BY <2>3, HandlePacketStep, FailStep, SessionStep, ServerStep, PluginAnswersStep,
       ChangeUserStep, SecureConnectStep, PeerKnownStep
  <2> QED
    BY <2>1, <2>2, <2>3 DEF Next
<1> QED
  BY <1>1, <1>2, PTL DEF Spec

\* Whatever the server, the network and the order of the TLS events: a
\* connection that verifies goes on (sends credentials, resumes a session)
\* only with a peer that was verified.
THEOREM OnlyVerifiedPeersHolds == Spec => []OnlyVerifiedPeers
<1>1. AuthInv => OnlyVerifiedPeers
  BY DEF AuthInv, Verified, OnlyVerifiedPeers
<1> QED
  BY <1>1, AuthInvHolds, PTL

\* However often the ssl config gets other certificates, the cached session
\* was issued to a connection made with those it is cached for.
THEOREM SessionOfMaterialHolds == Spec => []SessionOfMaterial
<1>1. AuthInv => SessionOfMaterial
  BY DEF AuthInv, CachedSession, SessionOfMaterial
<1> QED
  BY <1>1, AuthInvHolds, PTL

\* The dialogues of the login and of changeUser, for any account and
\* configuration: whose turn it is, what is on its way, and where the plugin,
\* the count of factors and the password are.
THEOREM DialoguesHold == Spec => []Dialogues
<1>1. Init => Dialogues
  BY InitDialogues
<1>2. AuthInv /\ Dialogues /\ [Next]_vars => Dialogues'
  <2> SUFFICES ASSUME AuthInv, Dialogues, [Next]_vars PROVE Dialogues'
    OBVIOUS
  <2>1. CASE UNCHANGED vars
    BY <2>1, SameDialogues DEF vars
  <2>2. CASE ReplaceMaterial
    BY <2>2, SameDialogues DEF ReplaceMaterial
  <2>3. ASSUME NEW c \in Conns,
               \/ HandlePacket(c) \/ Timeout(c) \/ Lose(c) \/ Session(c) \/ ServerHello(c)
               \/ \E command \in {"login", "change"}, ok \in BOOLEAN : PluginAnswers(c, command, ok)
               \/ \E b \in BOOLEAN : \/ ChangeUser(c, b) \/ SecureConnect(c, b)
                                     \/ ServerReceive(c, b) \/ PeerKnown(c, b)
        PROVE  Dialogues'
    BY <2>3, HandlePacketDialogues, FailDialogues, TLSDialogues, ServerHelloDialogues,
       PluginAnswersDialogues, ChangeUserDialogues, SecureConnectDialogues, ServerReceiveDialogues
  <2> QED
    BY <2>1, <2>2, <2>3 DEF Next
<1> QED
  BY <1>1, <1>2, AuthInvHolds, PTL DEF Spec

\* Whichever plugins the account has, whatever the hello says and however the
\* factors, switches and changeUser() follow one another: the server never
\* finds a packet that it does not expect, nor a wrong password but where the
\* driver is known to use another one.
THEOREM NeverRefusedHolds == Spec => []NeverRefused
<1>1. Dialogues => NeverRefused
  <2> SUFFICES ASSUME Dialogues, NEW c \in Conns
               PROVE  LET k == conn[c]
                      IN  /\ k.phase \in {"hello", "tls", "result", "idle"}
                          /\ k.command \in {"login", "change", "none"}
                          /\ k.factor \in 0 .. Len(setup.account) + 1
                          /\ k.password \in 1 .. Len(setup.account)
                          /\ Len(k.toServer) <= 1 /\ Len(k.toClient) <= 2
                          /\ k.events \in {<<>>, <<"connect">>, <<"error">>, <<"connect", "error">>}
                          /\ Refusals(k)
    BY DEF NeverRefused, TypeOK, Refusals
  <2>1. Typed(conn[c]) /\ Refusals(conn[c]) /\ EventsTold(conn[c])
    BY DEF Dialogues, InDialogue, Consistent
  <2> QED
    BY <2>1 DEF Typed, EventsTold, Factors
<1> QED
  BY <1>1, DialoguesHold, PTL

=============================================================================
