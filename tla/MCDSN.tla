------------------------------- MODULE MCDSN --------------------------------
(* DSNs for TLC: each part of the grammar of dump/doc.go:19 with whatever  *)
(* may stand in it, and every option with each form of its value.          *)
EXTENDS DSN

Address == [tcp |-> <<"h", ":", "3307">>, unix |-> <<"/", "run", "/", "my.sock">>]
Nets ==
    {[net |-> <<>>, addr |-> <<>>], [net |-> <<"tcp">>, addr |-> <<>>],
     [net |-> <<"unix">>, addr |-> <<>>], [net |-> <<"tcp">>, addr |-> Address.tcp],
     [net |-> <<>>, addr |-> Address.tcp], [net |-> <<"unix">>, addr |-> Address.unix],
     [net |-> <<"pipe">>, addr |-> <<"(", "a", ")", "?">>]}
Logins ==
    {[user |-> <<>>, passwd |-> <<>>]}
    \cup [user : {<<>>, <<"u">>, <<"u", "/", "v">>},
          passwd : {<<>>, <<"p", "@", "/", "s">>, <<":", "(", "?">>}]

(* The text of a DSN without its options. A login that is empty may or may *)
(* not be written.                                                         *)
Line(login, net, db) ==
    login.user \o (IF login.passwd = <<>> THEN <<>> ELSE <<":">> \o login.passwd) \o <<"@">>
        \o net.net \o (IF net.addr = <<>> THEN <<>> ELSE <<"(">> \o net.addr \o <<")">>)
        \o <<"/">> \o db

DefaultNet(net) == IF net.net = <<>> THEN <<"tcp">> ELSE net.net
DefaultAddr(net) ==
    CASE net.addr # <<>> -> net.addr
      [] DefaultNet(net) = <<"tcp">> -> <<"127.0.0.1", ":", "3306">>
      [] OTHER -> <<"/", "tmp", "/", "mysql.sock">>

Meaning(login, net, db) ==
    [NewConfig EXCEPT !.user = login.user, !.passwd = login.passwd, !.net = DefaultNet(net),
                      !.addr = DefaultAddr(net), !.dbName = db]

Parts == {[dsn |-> Line(l, n, db), means |-> Meaning(l, n, db)] :
             l \in Logins, n \in Nets, db \in {<<>>, <<"db", "@">>}}

-----------------------------------------------------------------------------
(* Options: their text and what they make of a configuration.              *)

Host == [dsn |-> <<"u", "@", "tcp", "(", "h", ":", "3307", ")", "/">>,
         means |-> [NewConfig EXCEPT !.user = <<"u">>, !.net = <<"tcp">>, !.addr = Address.tcp]]
Hosts ==
    {[Host EXCEPT !.dsn[5] = h, !.means.addr[1] = h] : h \in {"h", "k"}}

Set(field, value) == [Host.means EXCEPT ![field] = value]
Option(text, config) == [text |-> text, means |-> config]

FlagOptions ==
    {Option(<<flag, "=", value>>, Set("flags", {flag})) : flag \in Flags, value \in {"1", "True"}}
    \cup {Option(<<flag, "=", "0">>, Host.means) : flag \in {"strict", "parseTime"}}
    \cup {Option(<<flag, "=", "yes">>, Failure) : flag \in Flags}

TimeoutOptions ==
    {Option(<<t, "=", word>>,
            Set("timeouts", [Host.means.timeouts EXCEPT ![t] = DurationOf[word]])) :
        t \in Timeouts, word \in DOMAIN DurationOf}
    \cup {Option(<<t, "=", "1">>, Failure) : t \in Timeouts}

ValueOptions ==
    {Option(<<"maxAllowedPacket", "=", word>>, Set("maxAllowedPacket", NumberOf[word])) :
        word \in DOMAIN NumberOf}
    \cup {Option(<<"loc", "=">> \o QueryEscape(zone), Set("loc", zone)) : zone \in Zones}
    \cup {Option(<<"collation", "=", c>>, Set("collation", <<c>>)) :
            c \in {"latin1_bin", "utf8_general_ci", "gbk_chinese_ci"}}
    \cup {Option(<<"tls", "=", value>>, Set("tlsConfig", <<name>>)) :
            <<value, name>> \in {<<"1", "true">>, <<"FALSE", "false">>,
                                 <<"Skip-Verify", "skip-verify">>}}
    \cup {Option(<<"loc", "=">>, Host.means), Option(<<"loc", "=", "Mars">>, Failure),
          Option(<<"maxAllowedPacket", "=", "1s">>, Failure),
          Option(<<"compress", "=", "0">>, Failure),
          Option(<<"strict">>, Host.means), Option(<<>>, Host.means)}

ParamOptions ==
    {Option(<<"charset", "=", "utf8mb4", ",", "utf8">>,
            Set("params", (<<"charset">> :> <<"utf8mb4", ",", "utf8">>))),
     Option(<<"sql_mode", "=">>, Set("params", (<<"sql_mode">> :> <<>>))),
     Option(<<"a", "=", "b", "=", "c">>, Set("params", (<<"a">> :> <<"b", "=", "c">>))),
     Option(<<"a", "=", "%", "b">>, Failure),
     Option(<<"a", "=">> \o QueryEscape(<<"/", "%", "&", " ", "+", ":", "@", "(", ")">>),
            Set("params", (<<"a">> :> <<"/", "%", "&", " ", "+", ":", "@", "(", ")">>)))}

With1(option) == [dsn |-> Host.dsn \o <<"?">> \o option.text, means |-> option.means]

(* Several at once, the last of a name counts.                             *)
Together ==
    LET Of(values) == [dsn |-> Host.dsn \o <<"?">> \o values.text, means |-> values.means]
    IN  {Of(Option(<<"strict", "=", "1", "&", "a", "=", "1", "&", "&", "strict", "=", "0", "&",
                     "b", "=", "2", "&", "a", "=", "3">>,
                   Set("params", (<<"a">> :> <<"3">>) @@ (<<"b">> :> <<"2">>)))),
         Of(Option(<<"collation", "=", "gbk_chinese_ci", "&", "interpolateParams", "=", "1">>,
                   Failure)),
         Of(Option(<<"interpolateParams", "=", "1", "&", "collation", "=", "latin1_bin">>,
                   [Set("flags", {"interpolateParams"}) EXCEPT !.collation = <<"latin1_bin">>]))}

-----------------------------------------------------------------------------
(* Names of registered tls.Configs, at two hosts and without an address.   *)
Custom == <<"custom">>
Special == <<"&", "%", ":">>
MCKeys == {Custom, Special, <<"true">>, <<"Skip-Verify">>}
Named ==
    {[dsn |-> h.dsn \o <<"?", "tls", "=">> \o QueryEscape(key),
      means |-> [h.means EXCEPT !.tlsConfig = key]] : h \in Hosts, key \in {Custom, Special}}
    \cup {[dsn |-> <<"/", "?", "tls", "=", "custom">>,
           means |-> [DefaultAddress(NewConfig) EXCEPT !.tlsConfig = Custom]],
          [dsn |-> Host.dsn \o <<"?", "tls", "=", "custom", "&", "compress", "=", "1">>,
           means |-> Failure]}

(* The DSNs that are refused in dsn_test.go:76, and the empty one.         *)
Others ==
    {[dsn |-> text, means |-> Failure] :
        text \in {<<"@", "net", "(", "addr", "/">>, <<"@", "tcp", "(", "/">>, <<"(", "/">>,
                  <<"net", "(", "addr", ")", "/", "/">>, <<"net", "/">>,
                  <<"u", ":", "p", "@", "tcp", "(", "h", ")">>}}
    \cup {[dsn |-> <<>>, means |-> DefaultAddress(NewConfig)],
          [dsn |-> <<"/", "db">>, means |-> [DefaultAddress(NewConfig) EXCEPT !.dbName = <<"db">>]]}

MCWritten ==
    Parts \cup Named \cup Others \cup Together
        \cup {With1(o) : o \in FlagOptions \cup TimeoutOptions \cup ValueOptions \cup ParamOptions}

TLS(name, insecure) == [serverName |-> name, insecureSkipVerify |-> insecure]
MCRegistered ==
    ("a" :> TLS(<<>>, FALSE)) @@ ("b" :> TLS(<<"s">>, FALSE)) @@ ("c" :> TLS(<<>>, TRUE))
=============================================================================
