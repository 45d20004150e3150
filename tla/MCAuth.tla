------------------------------- MODULE MCAuth -------------------------------
(***************************************************************************)
(* A small instance of Auth for TLC: the accounts and configurations.      *)
(***************************************************************************)
EXTENDS Auth, TLC

Setup(account, hello) ==
    [account |-> account, hello |-> hello, ssl |-> FALSE, serverSSL |-> TRUE, verify |-> FALSE,
     cleartext |-> FALSE, legacy |-> FALSE, mfa |-> Len(account) > 1]

MCSetups ==
    {Setup(<<p>>, h) : p \in {"native", "sha2", "sha256", "clear", "unknown", Custom}, h \in {"native", "sha2"}}
    \cup {Setup(a, h) : a \in {<<"sha2", "sha2">>, <<"native", Custom, "sha256">>}, h \in {"native", "sha2"}}
    \cup {[Setup(<<p>>, p) EXCEPT !.ssl = TRUE, !.verify = TRUE, !.cleartext = TRUE] : p \in {"sha256", "clear"}}
    \cup {[Setup(<<"sha2">>, "native") EXCEPT !.ssl = TRUE, !.verify = TRUE, !.serverSSL = b] : b \in BOOLEAN}
    \cup {[Setup(<<Custom>>, "sha2") EXCEPT !.legacy = TRUE]}

=============================================================================
