-------------------------------- MODULE DSN ---------------------------------
(***************************************************************************)
(* Data source names (dump/dsn.go): the text from which NewMysqlConn takes *)
(* its configuration, and the configurations of TLS that an application    *)
(* registers under names to be used in it (dump/utils.go:14).              *)
(*                                                                         *)
(* A text is a sequence of words and of the characters that separate them. *)
(* Parsing has a side effect: it may set the name of the server in a       *)
(* tls.Config, which stays the property of the register and of everyone    *)
(* who was given it.                                                       *)
(***************************************************************************)
EXTENDS Integers, SequencesExt

CONSTANTS
    Written,       \* DSNs that an application writes, each with its meaning
    Registered,    \* the tls.Configs that it has, by their addresses
    Keys           \* names it registers them under

ASSUME WrittenAssumption ==
    \A w \in Written : w.dsn \in Seq({w.dsn[i] : i \in DOMAIN w.dsn})

ASSUME RegisteredAssumption ==
    /\ DOMAIN Registered \cap {"nil", "verify", "skip-verify"} = {}
    /\ Registered \in
           [DOMAIN Registered ->
               [serverName : {Registered[p].serverName : p \in DOMAIN Registered},
                insecureSkipVerify : BOOLEAN]]

VARIABLES
    tlsConfigRegister,   \* of package dump: tls.Configs by name
    tlsConfigs,          \* the tls.Configs
    stage,               \* what the application is at
    dsn,                 \* its DSN
    means,               \* what the DSN is to mean
    cfg                  \* what it was parsed to

vars == <<tlsConfigRegister, tlsConfigs, stage, dsn, means, cfg>>

Failure == [fails |-> "error"]

(* A map in which the key has the value.                                   *)
Put(map, key, value) ==
    [k \in DOMAIN map \cup {key} |-> IF k = key THEN value ELSE map[k]]

-----------------------------------------------------------------------------
(* Words that stand for something (package net/url, time and strconv).     *)

(* A character and its escaped form, which is a single word here.          *)
Escapes ==
    {<<"/", "%2F">>, <<"@", "%40">>, <<":", "%3A">>, <<"?", "%3F">>, <<"&", "%26">>,
     <<"=", "%3D">>, <<"%", "%25">>, <<"(", "%28">>, <<")", "%29">>, <<",", "%2C">>,
     <<" ", "+">>, <<"+", "%2B">>}

QueryEscape(s) ==
    [i \in DOMAIN s |-> IF \E e \in Escapes : e[1] = s[i]
                        THEN (CHOOSE e \in Escapes : e[1] = s[i])[2] ELSE s[i]]
QueryUnescape(s) ==
    [i \in DOMAIN s |-> IF \E e \in Escapes : e[2] = s[i]
                        THEN (CHOOSE e \in Escapes : e[2] = s[i])[1] ELSE s[i]]

(* A percent sign must begin an escaped character.                         *)
Escaped(s) == ~Contains(s, "%")

(* Durations in seconds, with the form in which one is printed.            *)
DurationOf == [word \in {"0s", "1s", "90s", "1m30s", "-1s"} |->
    CASE word = "0s" -> 0 [] word = "1s" -> 1 [] word = "-1s" -> -1 [] OTHER -> 90]
DurationText(seconds) ==
    CASE seconds = 90 -> "1m30s"
      [] OTHER -> CHOOSE word \in DOMAIN DurationOf : DurationOf[word] = seconds

NumberOf == [word \in {"0", "1", "16777216", "-1"} |->
    CASE word = "0" -> 0 [] word = "1" -> 1 [] word = "-1" -> -1 [] OTHER -> 16777216]
NumberText(n) == CHOOSE word \in DOMAIN NumberOf : NumberOf[word] = n

UTC == <<"UTC">>
Zones == {UTC, <<"Local">>, <<"US", "/", "Pacific">>}

True == {<<"1">>, <<"true">>, <<"TRUE">>, <<"True">>}
False == {<<"0">>, <<"false">>, <<"FALSE">>, <<"False">>}
SkipVerify == {<<"skip-verify">>, <<"Skip-Verify">>}

-----------------------------------------------------------------------------
(* Configurations. tls is the address of a tls.Config, of one that nobody  *)
(* else has, or nil.                                                       *)
Flags ==
    {"allowAllFiles", "allowCleartextPasswords", "allowNativePasswords", "allowOldPasswords",
     "clientFoundRows", "columnsWithAlias", "interpolateParams", "multiStatements",
     "parseTime", "strict"}
Timeouts == {"readTimeout", "timeout", "writeTimeout"}

defaultCollation == <<"utf8_general_ci">>
unsafeCollations == {<<"gbk_chinese_ci">>}

NewConfig ==
    [user |-> <<>>, passwd |-> <<>>, net |-> <<>>, addr |-> <<>>, dbName |-> <<>>,
     params |-> <<>>, collation |-> defaultCollation, loc |-> UTC, maxAllowedPacket |-> 0,
     tlsConfig |-> <<>>, tls |-> "nil", timeouts |-> [t \in Timeouts |-> 0], flags |-> {}]

-----------------------------------------------------------------------------
(* FormatDSN.                                                              *)

Options ==
    <<"allowAllFiles", "allowCleartextPasswords", "allowNativePasswords", "allowOldPasswords",
      "clientFoundRows", "collation", "columnsWithAlias", "interpolateParams", "loc",
      "multiStatements", "parseTime", "readTimeout", "strict", "timeout", "tls",
      "writeTimeout", "maxAllowedPacket">>

(* The value of an option, which is not written if it is empty.            *)
OptionValue(c, option) ==
    CASE option \in Flags -> IF option \in c.flags THEN <<"true">> ELSE <<>>
      [] option \in Timeouts ->
             IF c.timeouts[option] > 0 THEN <<DurationText(c.timeouts[option])>> ELSE <<>>
      [] option = "collation" -> IF c.collation = defaultCollation THEN <<>> ELSE c.collation
      [] option = "loc" -> IF c.loc = UTC THEN <<>> ELSE QueryEscape(c.loc)
      [] option = "tls" -> QueryEscape(c.tlsConfig)
      [] OTHER -> IF c.maxAllowedPacket > 0 THEN <<NumberText(c.maxAllowedPacket)>> ELSE <<>>

Assign(name, value) == name \o <<"=">> \o value

(* Mutant: the values of parameters are written as they are.               *)
FormatParamUnescaped(c, name) == Assign(name, c.params[name])

FormatParam(c, name) == Assign(name, QueryEscape(c.params[name]))

(* names: the parameters in the order in which the map yields them.        *)
FormatDSN(c, names) ==
    LET password == IF c.passwd = <<>> THEN <<>> ELSE <<":">> \o c.passwd
        login == IF c.user = <<>> THEN <<>> ELSE c.user \o password \o <<"@">>
        address == IF c.addr = <<>> THEN <<>> ELSE <<"(">> \o c.addr \o <<")">>
        option(o) == IF OptionValue(c, o) = <<>> THEN <<>>
                     ELSE <<"&">> \o Assign(<<o>>, OptionValue(c, o))
        options == FlattenSeq([n \in DOMAIN Options |-> option(Options[n])]
                              \o [n \in DOMAIN names |-> <<"&">> \o FormatParam(c, names[n])])
    IN  login \o (IF c.net = <<>> THEN <<>> ELSE c.net \o address) \o <<"/">> \o c.dbName
            \o (IF options = <<>> THEN <<>> ELSE <<"?">> \o Tail(options))

-----------------------------------------------------------------------------
(* parseDSNParams. Parsing goes on with what has been read so far: the     *)
(* configuration c, the tls.Configs, and whether all went well.            *)

Split(s, separator) ==
    FoldLeft(LAMBDA pieces, t :
                 IF t = separator THEN Append(pieces, <<>>)
                 ELSE Append(Front(pieces), Append(Last(pieces), t)), <<<<>>>>, s)

With(read, field, value) == [read EXCEPT !.c = [@ EXCEPT ![field] = value]]
Refuse(read) == [read EXCEPT !.ok = FALSE]

ReadFlag(read, flag, value) ==
    IF value \in True THEN With(read, "flags", read.c.flags \cup {flag})
    ELSE IF value \in False THEN With(read, "flags", read.c.flags \ {flag})
    ELSE Refuse(read)

ReadTimeout(read, timeout, value) ==
    IF \E word \in DOMAIN DurationOf : value = <<word>>
    THEN With(read, "timeouts", [read.c.timeouts EXCEPT ![timeout] = DurationOf[value[1]]])
    ELSE Refuse(read)

ReadLoc(read, value) ==
    LET name == QueryUnescape(value)
    IN  IF ~Escaped(value) \/ name \notin Zones \cup {<<>>} THEN Refuse(read)
        ELSE With(read, "loc", IF name = <<>> THEN UTC ELSE name)

(* The host of an address host:port.                                       *)
SplitHostPort(addr) ==
    IF Cardinality({i \in DOMAIN addr : addr[i] = ":"}) = 1 THEN Split(addr, ":")[1] ELSE <<>>

(* Mutant: a tls.Config is always given the host at hand.                  *)
ServerNameForAll(config, addr) ==
    IF config.insecureSkipVerify \/ SplitHostPort(addr) = <<>> THEN config
    ELSE [config EXCEPT !.serverName = SplitHostPort(addr)]

(* Mutant: only a tls.Config that verifies nothing is given a host.        *)
ServerNameUnverified(config, addr) ==
    IF config.serverName # <<>> \/ ~config.insecureSkipVerify \/ SplitHostPort(addr) = <<>>
    THEN config
    ELSE [config EXCEPT !.serverName = SplitHostPort(addr)]

(* A tls.Config without a server name gets the host that is connected to.  *)
ServerName(config, addr) ==
    IF config.serverName # <<>> \/ config.insecureSkipVerify \/ SplitHostPort(addr) = <<>>
    THEN config
    ELSE [config EXCEPT !.serverName = SplitHostPort(addr)]

ReadTLS(read, value) ==
    LET name == QueryUnescape(value)
        Use(tlsConfig, pointer) == With(With(read, "tlsConfig", tlsConfig), "tls", pointer)
        pointer == tlsConfigRegister[name]
    IN  IF value \in True THEN Use(<<"true">>, "verify")
        ELSE IF value \in False THEN With(read, "tlsConfig", <<"false">>)
        ELSE IF value \in SkipVerify THEN Use(<<"skip-verify">>, "skip-verify")
        ELSE IF ~Escaped(value) \/ name \notin DOMAIN tlsConfigRegister THEN Refuse(read)
        ELSE [Use(name, pointer) EXCEPT !.tlsConfigs[pointer] = ServerName(@, read.c.addr)]

ReadMaxAllowedPacket(read, value) ==
    IF \E word \in DOMAIN NumberOf : value = <<word>>
    THEN With(read, "maxAllowedPacket", NumberOf[value[1]])
    ELSE Refuse(read)

ReadOther(read, name, value) ==
    IF Escaped(value) THEN With(read, "params", Put(read.c.params, name, QueryUnescape(value)))
    ELSE Refuse(read)

(* A parameter without a value is passed over.                             *)
ReadParam(read, param) ==
    LET i == SelectInSeq(param, LAMBDA t : t = "=")
        name == SubSeq(param, 1, i - 1)
        value == SubSeq(param, i + 1, Len(param))
    IN  IF ~read.ok \/ i = 0 THEN read
        ELSE IF name = <<"compress">> THEN Refuse(read)
        ELSE IF name = <<"collation">> THEN With(read, "collation", value)
        ELSE IF name = <<"loc">> THEN ReadLoc(read, value)
        ELSE IF name = <<"tls">> THEN ReadTLS(read, value)
        ELSE IF name = <<"maxAllowedPacket">> THEN ReadMaxAllowedPacket(read, value)
        ELSE IF Len(name) = 1 /\ name[1] \in Flags THEN ReadFlag(read, name[1], value)
        ELSE IF Len(name) = 1 /\ name[1] \in Timeouts THEN ReadTimeout(read, name[1], value)
        ELSE ReadOther(read, name, value)

parseDSNParams(read, params) == FoldLeft(ReadParam, read, Split(params, "&"))

-----------------------------------------------------------------------------
(* ParseDSN.                                                               *)

FirstOf(s, from, to, t) ==
    LET i == SelectInSubSeq(s, from, to, LAMBDA u : u = t) IN IF i = 0 THEN to + 1 ELSE i

(* Mutant: the database name begins behind the first slash.                *)
SlashFirst(s) == SelectInSeq(s, LAMBDA t : t = "/")

(* A password or an address may have slashes in it, and so the last counts.*)
Slash(s) == SelectLastInSeq(s, LAMBDA t : t = "/")

(* [user[:password]@]                                                      *)
ReadLogin(c, login) ==
    LET colon == FirstOf(login, 1, Len(login), ":")
    IN  [c EXCEPT !.user = SubSeq(login, 1, colon - 1),
                  !.passwd = SubSeq(login, colon + 1, Len(login))]

(* [net[(addr)]]                                                           *)
ReadAddress(c, address) ==
    LET brace == FirstOf(address, 1, Len(address), "(")
    IN  [c EXCEPT !.net = SubSeq(address, 1, brace - 1),
                  !.addr = SubSeq(address, brace + 1, Len(address) - 1)]
Terminated(address) == Contains(address, "(") => Last(address) = ")"

(* The address of a network that none is given for.                        *)
DefaultOf(net) ==
    CASE net = <<"tcp">> -> <<"127.0.0.1", ":", "3306">>
      [] net = <<"unix">> -> <<"/", "tmp", "/", "mysql.sock">>
      [] OTHER -> <<>>

(* Mutant: the default network is used and not stored.                     *)
DefaultNetMissing(c) ==
    LET net == IF c.net = <<>> THEN <<"tcp">> ELSE c.net
    IN  [c EXCEPT !.addr = IF @ = <<>> THEN DefaultOf(net) ELSE @]

DefaultAddress(c) ==
    LET net == IF c.net = <<>> THEN <<"tcp">> ELSE c.net
    IN  [c EXCEPT !.net = net, !.addr = IF @ = <<>> THEN DefaultOf(net) ELSE @]

(* What a DSN is parsed to, and what that makes of the tls.Configs.        *)
ParseDSN(s) ==
    LET slash == Slash(s)
        at == SelectLastInSubSeq(s, 1, slash, LAMBDA t : t = "@")
        address == SubSeq(s, at + 1, slash - 1)
        question == FirstOf(s, slash + 1, Len(s), "?")
        left == ReadAddress(ReadLogin(NewConfig, SubSeq(s, 1, at - 1)), address)
        named == [c |-> [left EXCEPT !.dbName = SubSeq(s, slash + 1, question - 1)],
                  tlsConfigs |-> tlsConfigs, ok |-> TRUE]
        read == IF question <= Len(s)
                THEN parseDSNParams(named, SubSeq(s, question + 1, Len(s))) ELSE named
        unsafe == "interpolateParams" \in read.c.flags /\ read.c.collation \in unsafeCollations
        done == DefaultAddress(read.c)
        Fails(configs) == [cfg |-> Failure, tlsConfigs |-> configs]
    IN  IF (slash = 0 /\ s # <<>>) \/ ~Terminated(address) THEN Fails(tlsConfigs)
        ELSE IF ~read.ok \/ unsafe \/ done.addr = <<>> THEN Fails(read.tlsConfigs)
        ELSE [cfg |-> done, tlsConfigs |-> read.tlsConfigs]

-----------------------------------------------------------------------------
(* The application: it registers and deregisters tls.Configs at any time,  *)
(* and writes a DSN, or has one made of a configuration that it has.       *)

Init ==
    /\ tlsConfigRegister = <<>> /\ tlsConfigs = Registered
    /\ stage = "idle" /\ dsn = <<>> /\ means = Failure /\ cfg = Failure

Reserved(key) == key \in True \cup False \cup SkipVerify

RegisterTLSConfig(key, pointer) ==
    /\ tlsConfigRegister' = IF Reserved(key) THEN tlsConfigRegister
                            ELSE Put(tlsConfigRegister, key, pointer)
    /\ UNCHANGED <<tlsConfigs, stage, dsn, means, cfg>>

DeregisterTLSConfig(key) ==
    /\ tlsConfigRegister' = [k \in DOMAIN tlsConfigRegister \ {key} |-> tlsConfigRegister[k]]
    /\ UNCHANGED <<tlsConfigs, stage, dsn, means, cfg>>

Write ==
    /\ stage = "idle"
    /\ \E w \in Written : dsn' = w.dsn /\ means' = w.means
    /\ stage' = "written"
    /\ UNCHANGED <<tlsConfigRegister, tlsConfigs, cfg>>

(* NewMysqlConn begins with it.                                            *)
Parse ==
    /\ stage \in {"written", "formatted"}
    /\ cfg' = ParseDSN(dsn).cfg /\ tlsConfigs' = ParseDSN(dsn).tlsConfigs
    /\ stage' = IF stage = "written" THEN "parsed" ELSE "reparsed"
    /\ UNCHANGED <<tlsConfigRegister, dsn, means>>

Format ==
    /\ stage = "parsed" /\ cfg # Failure
    /\ \E names \in SetToSeqs(DOMAIN cfg.params) : dsn' = FormatDSN(cfg, names)
    /\ means' = cfg /\ stage' = "formatted"
    /\ UNCHANGED <<tlsConfigRegister, tlsConfigs, cfg>>

Finish ==
    /\ stage \in {"parsed", "reparsed"}
    /\ stage' = "idle" /\ dsn' = <<>> /\ means' = Failure /\ cfg' = Failure
    /\ UNCHANGED <<tlsConfigRegister, tlsConfigs>>

Next ==
    \/ \E key \in Keys, pointer \in DOMAIN tlsConfigs : RegisterTLSConfig(key, pointer)
    \/ \E key \in Keys : DeregisterTLSConfig(key)
    \/ Write \/ Parse \/ Format \/ Finish

Spec == Init /\ [][Next]_vars

-----------------------------------------------------------------------------
(* A configuration that ParseDSN returns has a network and an address, of  *)
(* which NewMysqlConn makes use without asking (connection.go:48), and a   *)
(* name in the register is one that means nothing else (utils.go:42).      *)
TypeOK ==
    /\ DOMAIN tlsConfigs = DOMAIN Registered
    /\ \A key \in DOMAIN tlsConfigRegister :
           key \in Keys /\ ~Reserved(key) /\ tlsConfigRegister[key] \in DOMAIN tlsConfigs
    /\ stage \in {"idle", "written", "parsed", "formatted", "reparsed"}
    /\ cfg # Failure =>
           /\ cfg.net # <<>> /\ cfg.addr # <<>> /\ cfg.loc \in Zones /\ cfg.flags \subseteq Flags
           /\ cfg.tls \in {"nil", "verify", "skip-verify"} \cup DOMAIN tlsConfigs

(* A DSN fails if it names a tls.Config that is not registered.            *)
Expected(c) ==
    IF c = Failure THEN c
    ELSE IF c.tlsConfig \in DOMAIN tlsConfigRegister \cup {<<>>} \/ Reserved(c.tlsConfig) THEN c
    ELSE Failure
WithoutTLS(c) == IF c = Failure THEN c ELSE [c EXCEPT !.tls = "nil"]

(* Every DSN has the meaning that its grammar gives it, whatever is in its *)
(* passwords, addresses and values (dump/doc.go:19, dsn.go:267). Nothing   *)
(* is said of a collation and a limit that it leaves out: the code has     *)
(* other defaults of these two than dump/doc.go:37 and 60.                 *)
Stated(c) ==
    IF c = Failure THEN c
    ELSE [c EXCEPT !.collation = IF Contains(dsn, "collation") THEN @ ELSE <<>>,
                   !.maxAllowedPacket = IF Contains(dsn, "maxAllowedPacket") THEN @ ELSE 0,
                   !.tls = "nil"]
ReadAsWritten ==
    [][stage = "written" /\ stage' = "parsed" => Stated(cfg') = Expected(Stated(means))]_vars

(* A configuration that was parsed and is written by FormatDSN is parsed   *)
(* to the same again, but for what it makes no use of: a password of no    *)
(* user, and limits or timeouts below zero (dsn.go:51).                    *)
Used(c) ==
    [c EXCEPT !.passwd = IF c.user = <<>> THEN <<>> ELSE @,
              !.maxAllowedPacket = IF @ < 0 THEN 0 ELSE @,
              !.timeouts = [t \in Timeouts |-> IF @[t] < 0 THEN 0 ELSE @[t]], !.tls = "nil"]
Reformatted ==
    [][stage = "formatted" /\ stage' = "reparsed" =>
           WithoutTLS(cfg') = Expected(Used(means))]_vars

(* Who connects to a host with a registered tls.Config has a server name   *)
(* to verify, or has asked for none to be verified (dsn.go:501).           *)
ServerNamed ==
    cfg # Failure /\ cfg.tls \in DOMAIN tlsConfigs =>
        \/ tlsConfigs[cfg.tls].serverName # <<>> \/ tlsConfigs[cfg.tls].insecureSkipVerify
        \/ SplitHostPort(cfg.addr) = <<>> \/ cfg.addr = DefaultOf(<<"tcp">>)

(* A tls.Config, which connections may be using, keeps its server name     *)
(* when another DSN with the same name is parsed (dsn.go:502).             *)
ServerNameKept ==
    [][\A pointer \in DOMAIN tlsConfigs :
           tlsConfigs[pointer].serverName # <<>> => tlsConfigs'[pointer] = tlsConfigs[pointer]]_vars
=============================================================================
