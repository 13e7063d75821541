---------------------------- MODULE SessionProofs ----------------------------
(***************************************************************************)
(* Proofs about Session and Config, for any configuration file, any        *)
(* packets and any way they are cut into pieces.                           *)
(***************************************************************************)
EXTENDS Session, SequenceTheorems, TLAPS

-----------------------------------------------------------------------------
(***************************************************************************)
(* The inductive invariant, first the part about the configuration: every  *)
(* option has the value of its last line, and the server list is numbered  *)
(* like the named lines of the file.                                       *)
(***************************************************************************)

Line == PortLines \cup WordLines \cup BoolLines \cup ServerLines

Options == {"port", "knock_port", "knock_nft_set", "user_database",
            "auto_reload_user_database", "game_server", "send_remote_ip",
            "prometheus_exporter"}

\* What ParseLine makes of the value of a line.
Meaning(line) ==
    IF line.opt \in {"port", "knock_port"} THEN Port(line.value) ELSE line.value

Default(option) ==
    IF option = "port" /\ phase \notin {"parsing", "bad_line"} THEN 2593 ELSE Defaults[option]

SetByLast(option) ==
    \/ At(option) = {} /\ config[option] = Default(option)
    \/ \E i \in At(option) : /\ \A j \in At(option) : j <= i
                             /\ config[option] = Meaning(lines[i])

Lists(f) ==
    /\ DOMAIN f = DOMAIN config.server_list
    /\ \A i \in DOMAIN f :
          config.server_list[i] = Server(lines[f[i]].name, lines[f[i]].value)

ConfigInv ==
    /\ lines \in Seq(Line)
    /\ phase = "no_game_server" => config.game_server = Null
    /\ \A option \in Options : SetByLast(option)
    /\ \E f \in Numberings : Lists(f)

-----------------------------------------------------------------------------
(***************************************************************************)
(* The part about the streams.                                             *)
(***************************************************************************)

\* All that a peer has sent, whether it has arrived or not.
Sent(p) == arrived[p] \o rest[p]

ClientShape(s) ==
    /\ Len(s) >= 1 => Cmd(s[1]) \in {"Seed", "Junk"}
    /\ Len(s) >= 2 => Cmd(s[2]) \in {"AccountLogin", "Junk"}
    /\ Len(s) >= 3 => \/ Cmd(s[3]) = "Game"
                      \/ /\ Cmd(s[3]) = "PlayServer" /\ Len(s) >= 4
                         /\ \E index \in 0..MaxIndex : s[4][3] = <<index>>

\* The first n units are a server list, and nothing after them is.
ListOf(s, n) == \A i \in 1..Len(s) : Cmd(s[i]) = "ServerList" <=> i <= n

ServerShape(s) ==
    \/ ListOf(s, 0)
    \/ \E n \in 2..Len(s) : ListOf(s, n) /\ s[2][3] = <<n>>

Fresh ==
    /\ state = "INITIAL" /\ arrived = Blank /\ rest = Blank /\ written = Blank
    /\ read = [p \in Peers |-> 0] /\ outgoing_address = Null /\ torn = FALSE

StreamsInv ==
    /\ phase # "running" => Fresh
    /\ \A p \in Peers : rest[p] # <<>> => torn
    /\ ClientShape(Sent("client"))
    /\ ServerShape(Sent("server"))

\* What uologin has taken from the client before it forwards anything.
Taken == InitialSize + (IF HasList THEN 2 ELSE 0)

Greeting == IF HasList THEN OwnServerList ELSE <<>>

Login ==
    <<arrived["client"][1]>> \o (IF config.send_remote_ip THEN Extended ELSE <<>>)
        \o <<arrived["client"][2]>>

Upstream ==
    /\ Taken <= read["client"]
    /\ written["server"] =
         Login \o (IF HasList THEN PlayServer(0) ELSE <<>>)
               \o SubSeq(arrived["client"], Taken + 1, read["client"])

Downstream ==
    IF HasList
    THEN \E n \in 2..read["server"] :
            /\ ListOf(Sent("server"), n)
            /\ written["client"] =
                 OwnServerList \o SubSeq(arrived["server"], n + 1, read["server"])
    ELSE written["client"] = SubSeq(arrived["server"], 1, read["server"])

Chosen ==
    IF HasList
    THEN /\ Len(arrived["client"]) >= 4
         /\ \E index \in 0..(Len(config.server_list) - 1) :
               /\ arrived["client"][4][3] = <<index>>
               /\ outgoing_address = config.server_list[index + 1].address
         /\ Len(written["client"]) >= 1
         /\ written["client"][1] = OwnServerList[1]
    ELSE outgoing_address = config.game_server

Unanswered == written["client"] = <<>> /\ written["server"] = <<>> /\ outgoing_address = Null

HandlerInv ==
    /\ state \in {"INITIAL", "CHECK_CREDENTIALS", "closed"} => Unanswered
    /\ state = "INITIAL" => read["client"] <= InitialSize
    /\ state \in {"CHECK_CREDENTIALS", "SERVER_LIST"} => read["client"] = InitialSize
    /\ state = "SERVER_LIST" => HasList /\ outgoing_address = Null
    /\ state = "SEND_PLAY_SERVER" => HasList /\ written["server"] = Login
    /\ state \in {"CONNECTING", "SEND_PLAY_SERVER"} => read["client"] = Taken
    /\ state \in {"SERVER_LIST", "CONNECTING"} => written["server"] = <<>>
    /\ state \in {"SERVER_LIST", "CONNECTING", "SEND_PLAY_SERVER"} => written["client"] = Greeting
    /\ state \notin {"READY", "dropped"} => read["server"] = 0
    /\ state = "READY" => Upstream /\ Downstream
    /\ outgoing_address # Null => Chosen
    /\ ConformingNotDropped

SessionInv == TypeOK /\ ConfigInv /\ StreamsInv /\ HandlerInv

-----------------------------------------------------------------------------
(***************************************************************************)
(* The configuration.                                                      *)
(***************************************************************************)

\* The types of the fields of Config.
FieldsOk(cf) ==
    /\ cf = [o \in Options \cup {"server_list"} |-> cf[o]]
    /\ cf["port"] \in UInt16 \cup {Null} /\ cf["knock_port"] \in UInt16 \cup {Null}
    /\ cf["knock_nft_set"] \in {"given", Null} /\ cf["user_database"] \in {"given", Null}
    /\ cf["auto_reload_user_database"] \in BOOLEAN /\ cf["send_remote_ip"] \in BOOLEAN
    /\ cf["game_server"] \in Addresses \cup {Null}
    /\ cf["server_list"] \in Seq([name : Names, address : Addresses])
    /\ cf["prometheus_exporter"] \in {"given", Exporter}

\* A record of the type of struct Config, field by field.
LEMMA ConfigFields ==
  ASSUME NEW cf
  PROVE  cf \in ConfigRecord <=> FieldsOk(cf)
  BY SMT DEF ConfigRecord, FieldsOk, Options

\* The defaults of struct Config have its type.
LEMMA DefaultsTyped == Defaults \in ConfigRecord
  <1>1. \A S : <<>> \in Seq(S)
    OBVIOUS
  <1> QED
    BY <1>1, Zenon DEF Defaults, ConfigRecord

\* The options of a line and the values they take.
LEMMA LineFacts ==
  ASSUME NEW line \in Line
  PROVE  /\ line.opt \in Options
         /\ line.opt \in {"port", "knock_port"} => line.value \in Nat
         /\ line.opt \in {"knock_nft_set", "user_database", "prometheus_exporter"} =>
                line.value = "given"
         /\ line.opt \in {"auto_reload_user_database", "send_remote_ip"} =>
                line.value \in BOOLEAN
         /\ line.opt = "game_server" => line.value \in Addresses
         /\ line.name \in Names \cup {Null}
         /\ line.opt # "game_server" => line.name = Null
  <1>1. CASE line \in PortLines
    BY <1>1, PortsAssumption DEF PortLines, Options
  <1>2. CASE line \in WordLines
    BY <1>2, Zenon DEF WordLines, Options
  <1>3. CASE line \in BoolLines
    BY <1>3, Zenon DEF BoolLines, Options
  <1>4. CASE line \in ServerLines
    BY <1>4, Zenon DEF ServerLines, Options
  <1> QED
    BY <1>1, <1>2, <1>3, <1>4, Zenon DEF Line

\* Changing one field.
LEMMA SetField ==
  ASSUME NEW cf \in ConfigRecord, NEW o \in Options \cup {"server_list"}, NEW v, NEW new,
         new = [cf EXCEPT ![o] = v]
  PROVE  /\ new = [i \in Options \cup {"server_list"} |-> new[i]]
         /\ new[o] = v
         /\ \A i \in (Options \cup {"server_list"}) \ {o} : new[i] = cf[i]
  <1>1. cf = [i \in Options \cup {"server_list"} |-> cf[i]]
    BY ConfigFields, Zenon DEF FieldsOk
  <1> QED
    BY <1>1, Zenon

\* A uint16_t.
LEMMA PortTyped ==
  ASSUME NEW n \in Nat
  PROVE  Port(n) \in UInt16
  BY SMT DEF Port, UInt16

\* What a line without a name does.
LEMMA ParsePlainLine ==
  ASSUME NEW cf \in ConfigRecord, NEW line \in Line,
         ~(line.opt = "game_server" /\ line.name # Null)
  PROVE  LET new == ParseLine(cf, line)
         IN  /\ new \in ConfigRecord
             /\ \A o \in Options : new[o] = IF o = line.opt THEN Meaning(line) ELSE cf[o]
             /\ new["server_list"] = cf["server_list"]
  <1> DEFINE new == ParseLine(cf, line)
             v == Meaning(line)
  <1>1. new = [cf EXCEPT ![line.opt] = v]
    BY LineFacts, Zenon DEF ParseLine, Meaning
  <1>2. line.opt \in Options /\ line.opt # "server_list"
    BY LineFacts, Zenon DEF Options
  <1>3. /\ line.opt \in {"port", "knock_port"} => v \in UInt16
        /\ line.opt \in {"knock_nft_set", "user_database", "prometheus_exporter"} => v = "given"
        /\ line.opt \in {"auto_reload_user_database", "send_remote_ip"} => v \in BOOLEAN
        /\ line.opt = "game_server" => v \in Addresses
    BY LineFacts, PortTyped, Zenon DEF Meaning
  <1> HIDE DEF new, v
  <1>4. /\ new = [i \in Options \cup {"server_list"} |-> new[i]]
        /\ new[line.opt] = v
        /\ \A i \in (Options \cup {"server_list"}) \ {line.opt} : new[i] = cf[i]
    <2>1. cf = [i \in Options \cup {"server_list"} |-> cf[i]]
      BY ConfigFields, Zenon DEF FieldsOk
    <2> QED
      BY <1>1, <1>2, <2>1, Zenon
  <1>5. FieldsOk(cf)
    BY ConfigFields
  <1>6. FieldsOk(new)
    <2>1. new["port"] \in UInt16 \cup {Null} /\ new["knock_port"] \in UInt16 \cup {Null}
      BY <1>3, <1>4, <1>5, Zenon DEF FieldsOk, Options
    <2>2. new["knock_nft_set"] \in {"given", Null} /\ new["user_database"] \in {"given", Null}
      BY <1>3, <1>4, <1>5, Zenon DEF FieldsOk, Options
    <2>3. /\ new["auto_reload_user_database"] \in BOOLEAN
          /\ new["send_remote_ip"] \in BOOLEAN
      BY <1>3, <1>4, <1>5, Zenon DEF FieldsOk, Options
    <2>4. /\ new["game_server"] \in Addresses \cup {Null}
          /\ new["prometheus_exporter"] \in {"given", Exporter}
      BY <1>3, <1>4, <1>5, Zenon DEF FieldsOk, Options
    <2>5. new["server_list"] \in Seq([name : Names, address : Addresses])
      BY <1>2, <1>4, <1>5, Zenon DEF FieldsOk
    <2> QED
      BY <1>4, <2>1, <2>2, <2>3, <2>4, <2>5, Zenon DEF FieldsOk
  <1>7. new \in ConfigRecord
    BY <1>6, ConfigFields
  <1>8. \A o \in Options : new[o] = IF o = line.opt THEN v ELSE cf[o]
    BY <1>4, Zenon
  <1>9. new["server_list"] = cf["server_list"]
    BY <1>2, <1>4, Zenon
  <1> QED
    BY <1>7, <1>8, <1>9, Zenon DEF new, v

\* What a named game server does: it is also appended to the list.
LEMMA ParseNamedLine ==
  ASSUME NEW cf \in ConfigRecord, NEW line \in Line,
         line.opt = "game_server", line.name # Null
  PROVE  LET new == ParseLine(cf, line)
         IN  /\ new \in ConfigRecord
             /\ \A o \in Options : new[o] = IF o = line.opt THEN Meaning(line) ELSE cf[o]
             /\ new["server_list"] =
                  Append(cf["server_list"], Server(line.name, line.value))
  <1> DEFINE new == ParseLine(cf, line)
             mid == [cf EXCEPT !["game_server"] = line.value]
             list == Append(cf["server_list"], Server(line.name, line.value))
  <1>1. new = [mid EXCEPT !["server_list"] = list]
    <2>1. new = NamedServer(cf, line)
      BY Zenon DEF ParseLine
    <2>2. cf = [i \in Options \cup {"server_list"} |-> cf[i]] /\ "game_server" # "server_list"
      BY ConfigFields, Zenon DEF FieldsOk
    <2> QED
      BY <2>1, <2>2, Zenon DEF NamedServer
  <1>2. line.value \in Addresses /\ line.name \in Names /\ Meaning(line) = line.value
    BY LineFacts, Zenon DEF Meaning
  <1>3. mid \in ConfigRecord
    BY <1>2, SMT DEF ConfigRecord
  <1>4. list \in Seq([name : Names, address : Addresses])
    <2>1. Server(line.name, line.value) \in [name : Names, address : Addresses]
      BY <1>2 DEF Server
    <2>2. cf["server_list"] \in Seq([name : Names, address : Addresses])
      BY ConfigFields DEF FieldsOk
    <2> QED
      BY <2>1, <2>2, AppendProperties
  <1> HIDE DEF new, list
  <1>5. new \in ConfigRecord
    BY <1>1, <1>3, <1>4, SMT DEF ConfigRecord
  <1>6. /\ new["server_list"] = list
        /\ \A i \in Options : new[i] = mid[i]
    <2>1. "server_list" \notin Options
      BY Zenon DEF Options
    <2> HIDE DEF mid
    <2> QED
      BY <1>1, <1>3, <2>1, SetField
  <1>7. \A i \in Options : mid[i] = IF i = "game_server" THEN line.value ELSE cf[i]
    <2>1. "game_server" \in Options /\ mid = [cf EXCEPT !["game_server"] = line.value]
      BY Zenon DEF Options
    <2> HIDE DEF mid
    <2>2. "server_list" \notin Options
      BY Zenon DEF Options
    <2> QED
      BY <2>1, <2>2, SetField
  <1> QED
    BY <1>2, <1>5, <1>6, <1>7, Zenon DEF new, list

\* The sequences over S, at most n long, that reach all of S.
LEMMA Enumerations ==
  ASSUME NEW S, NEW n, NEW f
  PROVE  f \in SeqOf(S, n) /\ Range(f) = S <=>
           /\ \E m \in 0..n : f \in [1..m -> S]
           /\ \A k \in S : \E i \in DOMAIN f : f[i] = k
  <1>1. f \in SeqOf(S, n) <=> \E m \in 0..n : f \in [1..m -> S]
    BY Zenon DEF SeqOf
  <1>2. ASSUME NEW m \in 0..n, f \in [1..m -> S]
        PROVE  Range(f) = S <=> \A k \in S : \E i \in DOMAIN f : f[i] = k
    BY <1>2, Zenon DEF Range
  <1> QED
    BY <1>1, <1>2, Zenon

\* Reading one more line.
LEMMA AppendLine ==
  ASSUME lines \in Seq(Line), NEW line \in Line, lines' = Append(lines, line)
  PROVE  /\ lines' \in Seq(Line)
         /\ Len(lines) \in Nat
         /\ Len(lines') = Len(lines) + 1
         /\ DOMAIN lines = 1..Len(lines) /\ DOMAIN lines' = 1..(Len(lines) + 1)
         /\ \A i \in 1..Len(lines) : lines'[i] = lines[i]
         /\ lines'[Len(lines) + 1] = line
         /\ \A o : At(o)' = IF line.opt = o THEN At(o) \cup {Len(lines) + 1} ELSE At(o)
         /\ NamedAt' = IF line.opt = "game_server" /\ line.name # Null
                       THEN NamedAt \cup {Len(lines) + 1} ELSE NamedAt
  <1> DEFINE n == Len(lines)
  <1>1. /\ lines' \in Seq(Line) /\ n \in Nat /\ Len(lines') = n + 1
        /\ DOMAIN lines = 1..n /\ DOMAIN lines' = 1..(n + 1)
        /\ \A i \in 1..n : lines'[i] = lines[i]
        /\ lines'[n + 1] = line
    BY AppendProperties
  <1> HIDE DEF n
  <1>2. DOMAIN lines' = DOMAIN lines \cup {n + 1} /\ n + 1 \notin DOMAIN lines
    BY <1>1
  <1>3. \A o : At(o)' = IF line.opt = o THEN At(o) \cup {n + 1} ELSE At(o)
    BY <1>1, <1>2, Zenon DEF At
  <1>4. At("game_server") \subseteq DOMAIN lines
    BY Zenon DEF At
  <1>5. NamedAt' = IF line.opt = "game_server" /\ line.name # Null
                   THEN NamedAt \cup {n + 1} ELSE NamedAt
    <2>1. CASE line.opt = "game_server"
      <3>1. At("game_server")' = At("game_server") \cup {n + 1}
        BY <2>1, <1>3, Zenon
      <3> QED
        BY <2>1, <3>1, <1>1, <1>2, <1>4, Zenon DEF NamedAt
    <2>2. CASE line.opt # "game_server"
      <3>1. At("game_server")' = At("game_server")
        BY <2>2, <1>3, Zenon
      <3> QED
        BY <2>2, <3>1, <1>1, <1>4, Zenon DEF NamedAt
    <2> QED
      BY <2>1, <2>2
  <1> QED
    BY <1>1, <1>3, <1>5, Zenon DEF n

\* The next named line gets the next number.
LEMMA NumberNext ==
  ASSUME lines \in Seq(Line), NEW line \in Line, lines' = Append(lines, line),
         line.opt = "game_server", line.name # Null,
         NEW f \in Numberings,
         NEW m \in 0..Len(lines), f \in [1..m -> NamedAt]
  PROVE  [i \in 1..(m + 1) |-> IF i = m + 1 THEN Len(lines) + 1 ELSE f[i]] \in Numberings'
  <1> DEFINE n == Len(lines)
             g == [i \in 1..(m + 1) |-> IF i = m + 1 THEN n + 1 ELSE f[i]]
  <1>1. /\ n \in Nat /\ m \in Nat /\ m + 1 \in 0..Len(lines')
        /\ NamedAt' = NamedAt \cup {n + 1}
        /\ \A k \in NamedAt : k \in Int /\ k < n + 1
    <2>1. n \in Nat /\ Len(lines') = n + 1 /\ NamedAt' = NamedAt \cup {n + 1} /\ DOMAIN lines = 1..n
      BY AppendLine, Zenon
    <2>2. NamedAt \subseteq DOMAIN lines
      BY Zenon DEF NamedAt, At
    <2> QED
      BY <2>1, <2>2
  <1>2. /\ \A k \in NamedAt : \E i \in 1..m : f[i] = k
        /\ \A i, j \in 1..m : i < j => f[i] < f[j]
        /\ \A i \in 1..m : f[i] \in NamedAt
    <2>1. DOMAIN f = 1..m
      OBVIOUS
    <2> QED
      BY <2>1, Enumerations DEF Numberings
  <1> HIDE DEF n
  <1>3. g \in [1..(m + 1) -> NamedAt'] /\ DOMAIN g = 1..(m + 1)
    BY <1>1, <1>2
  <1>4. \A k \in NamedAt' : \E i \in 1..(m + 1) : g[i] = k
    <2> SUFFICES ASSUME NEW k \in NamedAt'
                 PROVE  \E i \in 1..(m + 1) : g[i] = k
      OBVIOUS
    <2>1. CASE k = n + 1
      BY <2>1, <1>1
    <2>2. CASE k \in NamedAt
      <3>1. PICK i \in 1..m : f[i] = k
        BY <2>2, <1>2
      <3>2. i \in 1..(m + 1) /\ g[i] = k
        BY <3>1, <1>1
      <3> QED
        BY <3>2
    <2> QED
      BY <1>1, <2>1, <2>2
  <1>5. \A i, j \in 1..(m + 1) : i < j => g[i] < g[j]
    <2> SUFFICES ASSUME NEW i \in 1..(m + 1), NEW j \in 1..(m + 1), i < j
                 PROVE  g[i] < g[j]
      OBVIOUS
    <2>1. i \in 1..m /\ g[i] = f[i] /\ f[i] \in NamedAt
      BY <1>1, <1>2
    <2>2. CASE j = m + 1
      BY <2>1, <2>2, <1>1
    <2>3. CASE j # m + 1
      BY <2>1, <2>3, <1>1, <1>2
    <2> QED
      BY <2>2, <2>3
  <1>6. /\ \E q \in 0..Len(lines)' : g \in [1..q -> NamedAt']
        /\ \A k \in NamedAt' : \E i \in DOMAIN g : g[i] = k
        /\ \A i, j \in DOMAIN g : i < j => g[i] < g[j]
    <2> HIDE DEF g
    <2> QED
      BY <1>1, <1>3, <1>4, <1>5
  <1> QED
    BY <1>6, Enumerations DEF Numberings, n

\* Parsing one more line keeps the settings those of the file.
LEMMA ReadLineKeeps ==
  ASSUME config \in ConfigRecord, ConfigInv, phase = "parsing", phase' = phase,
         NEW line \in Line, lines' = Append(lines, line), config' = ParseLine(config, line)
  PROVE  config' \in ConfigRecord /\ ConfigInv'
  <1> DEFINE n == Len(lines)
             named == line.opt = "game_server" /\ line.name # Null
  <1>1. lines \in Seq(Line)
    BY DEF ConfigInv
  <1>2. /\ lines' \in Seq(Line) /\ n \in Nat /\ Len(lines') = n + 1
        /\ DOMAIN lines = 1..n /\ DOMAIN lines' = 1..(n + 1)
        /\ \A i \in 1..n : lines'[i] = lines[i]
        /\ lines'[n + 1] = line
        /\ \A o : At(o)' = IF line.opt = o THEN At(o) \cup {n + 1} ELSE At(o)
        /\ NamedAt' = IF named THEN NamedAt \cup {n + 1} ELSE NamedAt
    BY <1>1, AppendLine, Zenon
  <1>3. /\ config' \in ConfigRecord
        /\ \A o \in Options : config'[o] = IF o = line.opt THEN Meaning(line) ELSE config[o]
        /\ config'["server_list"] =
             IF named THEN Append(config["server_list"], Server(line.name, line.value))
             ELSE config["server_list"]
    BY ParsePlainLine, ParseNamedLine, Zenon
  <1> HIDE DEF n
  <1>4. ASSUME NEW o \in Options
        PROVE  SetByLast(o)'
    <2>1. SetByLast(o) /\ At(o) \subseteq 1..n
      BY <1>2 DEF ConfigInv, At
    <2>2. CASE line.opt = o
      <3>1. n + 1 \in At(o)' /\ \A j \in At(o)' : j <= n + 1
        BY <1>2, <2>1, <2>2
      <3>2. config'[o] = Meaning(lines'[n + 1])
        BY <1>2, <1>3, <2>2, Zenon
      <3> QED
        BY <3>1, <3>2, Zenon DEF SetByLast, Meaning
    <2>3. CASE line.opt # o
      <3>1. At(o)' = At(o) /\ config'[o] = config[o]
        BY <1>2, <1>3, <2>3, Zenon
      <3>2. Default(o)' = Default(o)
        BY DEF Default, Defaults
      <3>3. \A i \in At(o) : lines'[i] = lines[i]
        BY <1>2, <2>1, Zenon
      <3> QED
        BY <2>1, <3>1, <3>2, <3>3, Zenon DEF SetByLast, Meaning
    <2> QED
      BY <2>2, <2>3
  <1>5. \E f \in Numberings' : Lists(f)'
    <2>1. PICK f \in Numberings : Lists(f)
      BY Zenon DEF ConfigInv
    <2>2. PICK m \in 0..n : f \in [1..m -> NamedAt]
      BY <2>1, Enumerations, Zenon DEF Numberings, n
    <2>3. NamedAt \subseteq 1..n
      BY <1>2, Zenon DEF NamedAt, At
    <2>4. CASE ~named
      <3>1. NamedAt' = NamedAt /\ config'["server_list"] = config["server_list"]
        BY <2>4, <1>2, <1>3, Zenon
      <3>2. f \in Numberings'
        <4>1. m \in 0..Len(lines)'
          BY <1>2
        <4>2. f \in SeqOf(NamedAt, Len(lines))' /\ Range(f)' = NamedAt'
          <5>1. \A k \in NamedAt' : \E i \in DOMAIN f : f[i] = k
            BY <3>1, Enumerations DEF Numberings
          <5> QED
            BY <5>1, <4>1, <2>2, <3>1, Enumerations, Zenon
        <4> QED
          BY <4>2, <2>1, Zenon DEF Numberings
      <3>3. \A i \in DOMAIN f : lines'[f[i]] = lines[f[i]]
        BY <1>2, <2>2, <2>3
      <3>4. Lists(f)'
        BY <2>1, <3>1, <3>3, Zenon DEF Lists
      <3> QED
        BY <3>2, <3>4
    <2>5. CASE named
      <3> DEFINE list == config["server_list"]
      <3>0. PICK g : g = [i \in 1..(m + 1) |-> IF i = m + 1 THEN n + 1 ELSE f[i]]
        OBVIOUS
      <3>1. g \in Numberings'
        BY <3>0, <1>1, <2>1, <2>2, <2>5, NumberNext DEF n
      <3>2. list \in Seq([name : Names, address : Addresses])
        BY ConfigFields, Zenon DEF FieldsOk
      <3>3. m = Len(list) /\ DOMAIN f = 1..m
        BY <2>1, <2>2, <3>2 DEF Lists
      <3>4. /\ config'["server_list"] = Append(list, Server(line.name, line.value))
            /\ DOMAIN config'["server_list"] = 1..(m + 1)
            /\ \A i \in 1..m : config'["server_list"][i] = list[i]
            /\ config'["server_list"][m + 1] = Server(line.name, line.value)
        <4>1. config'["server_list"] = Append(list, Server(line.name, line.value))
          BY <1>3, <2>5, Zenon
        <4>2. Server(line.name, line.value) \in [name : Names, address : Addresses]
          BY <2>5, LineFacts DEF Server
        <4> HIDE DEF list
        <4> QED
          BY <3>2, <3>3, <4>1, <4>2, AppendProperties
      <3>5. ASSUME NEW i \in 1..(m + 1)
            PROVE  config'["server_list"][i] = Server(lines'[g[i]].name, lines'[g[i]].value)
        <4>1. CASE i = m + 1
          BY <3>0, <4>1, <3>4, <1>2
        <4>2. CASE i # m + 1
          <5>1. i \in 1..m /\ g[i] = f[i] /\ f[i] \in 1..n
            <6>1. i \in 1..m
              BY <4>2, <1>2
            <6>2. f[i] \in 1..n
              BY <6>1, <2>2, <2>3, Zenon
            <6> QED
              BY <3>0, <4>2, <6>1, <6>2, Zenon
          <5>2. list[i] = Server(lines[f[i]].name, lines[f[i]].value)
            BY <5>1, <2>1, <3>3 DEF Lists
          <5> QED
            BY <5>1, <5>2, <3>4, <1>2, Zenon
        <4> QED
          BY <4>1, <4>2
      <3>6. DOMAIN g = 1..(m + 1)
        BY <3>0, Zenon
      <3>7. Lists(g)'
        BY <3>4, <3>5, <3>6, Zenon DEF Lists
      <3> QED
        BY <3>1, <3>7
    <2> QED
      BY <2>4, <2>5
  <1> QED
    BY <1>2, <1>3, <1>4, <1>5, Zenon DEF ConfigInv

\* A step that neither reads the file nor ends the parsing.
LEMMA SameSettings ==
  ASSUME ConfigInv, lines' = lines, config' = config,
         phase \in {"parsing", "bad_line"} <=> phase' \in {"parsing", "bad_line"},
         phase' = "no_game_server" => phase = "no_game_server"
  PROVE  ConfigInv'
  <1>1. \A o : At(o)' = At(o) /\ Default(o)' = Default(o)
    BY DEF At, Default, Defaults
  <1>2. \A o : SetByLast(o) => SetByLast(o)'
    BY <1>1, Zenon DEF SetByLast, Meaning
  <1>3. Numberings' = Numberings /\ \A f : Lists(f)' <=> Lists(f)
    BY DEF Numberings, NamedAt, At, Lists
  <1> QED
    BY <1>2, <1>3, Zenon DEF ConfigInv

\* A value that a line has set is never Null.
LEMMA LineNotNull ==
  ASSUME lines \in Seq(Line), NEW o \in {"port", "knock_port", "game_server"}, NEW i \in At(o)
  PROVE  lines[i].value # Null /\ Meaning(lines[i]) # Null
  <1>1. lines[i] \in Line /\ lines[i].opt = o
    BY DEF At
  <1>2. CASE o = "game_server"
    BY <1>1, <1>2, LineFacts, NullAssumption, Zenon DEF Meaning
  <1>3. CASE o \in {"port", "knock_port"}
    <2>1. lines[i].value \in Nat /\ Meaning(lines[i]) = Port(lines[i].value)
      BY <1>1, <1>3, LineFacts, Zenon DEF Meaning
    <2>2. \A n \in UInt16 : n \in Nat
      BY DEF UInt16
    <2> QED
      BY <2>1, <2>2, PortTyped, NullAssumption, Zenon
  <1> QED
    BY <1>2, <1>3, Zenon

\* The default port is set at the end of the file, unless there is one.
LEMMA FinishKeeps ==
  ASSUME config \in ConfigRecord, ConfigInv, Finish
  PROVE  config' \in ConfigRecord /\ ConfigInv'
  <1> DEFINE v == IF config["port"] = Null THEN 2593 ELSE config["port"]
  <1>1. /\ phase = "parsing" /\ lines' = lines
        /\ config' = [config EXCEPT !["port"] = v]
        /\ phase' = IF config["game_server"] = Null THEN "no_game_server" ELSE "parsed"
    BY DEF Finish
  <1>2. config["port"] \in UInt16 \cup {Null} /\ v \in UInt16
    <2>1. config["port"] \in UInt16 \cup {Null}
      BY ConfigFields DEF FieldsOk
    <2>2. 2593 \in UInt16
      BY DEF UInt16
    <2> QED
      BY <2>1, <2>2
  <1> HIDE DEF v
  <1>3. config' \in ConfigRecord
    BY <1>1, <1>2, SMT DEF ConfigRecord
  <1>4. /\ config'["port"] = v
        /\ \A o \in Options \ {"port"} : config'[o] = config[o]
        /\ config'["server_list"] = config["server_list"]
    <2>1. config = [i \in Options \cup {"server_list"} |-> config[i]]
      BY ConfigFields, Zenon DEF FieldsOk
    <2>2. "port" \in Options
      BY Zenon DEF Options
    <2> QED
      BY <1>1, <2>1, <2>2, Zenon
  <1>5. ASSUME NEW o \in Options
        PROVE  SetByLast(o)'
    <2>1. SetByLast(o) /\ At(o)' = At(o)
      BY <1>1 DEF ConfigInv, At
    <2>2. CASE o = "port"
      <3>1. CASE At(o) = {}
        <4>1. config["port"] = Null
          BY <2>1, <2>2, <3>1, <1>1 DEF SetByLast, Default, Defaults
        <4>2. v = 2593 /\ Default(o)' = 2593
          BY <4>1, <2>2, <1>1 DEF v, Default
        <4> QED
          BY <4>2, <3>1, <2>1, <2>2, <1>4 DEF SetByLast
      <3>2. CASE At(o) # {}
        <4>1. PICK i \in At(o) : (\A j \in At(o) : j <= i) /\ config[o] = Meaning(lines[i])
          BY <2>1, <3>2, Zenon DEF SetByLast
        <4>2. config["port"] # Null
          BY <4>1, <2>2, LineNotNull, Zenon DEF ConfigInv
        <4>3. config'[o] = config[o]
          BY <4>2, <2>2, <1>4 DEF v
        <4> QED
          BY <4>1, <4>3, <2>1, <1>1, Zenon DEF SetByLast, Meaning
      <3> QED
        BY <3>1, <3>2
    <2>3. CASE o # "port"
      <3>1. Default(o)' = Default(o) /\ config'[o] = config[o]
        BY <2>3, <1>4 DEF Default, Defaults
      <3> QED
        BY <2>1, <3>1, <1>1, Zenon DEF SetByLast, Meaning
    <2> QED
      BY <2>2, <2>3
  <1>6. Numberings' = Numberings /\ \A f : Lists(f)' <=> Lists(f)
    BY <1>1, <1>4 DEF Numberings, NamedAt, At, Lists
  <1>7. phase' = "no_game_server" => config'["game_server"] = Null
    BY <1>1, <1>4, Zenon DEF Options
  <1> QED
    BY <1>1, <1>3, <1>5, <1>6, <1>7, Zenon DEF ConfigInv

\* The actions of Config.
LEMMA StartKeepsConfig ==
  ASSUME config \in ConfigRecord, ConfigInv, Start
  PROVE  config' \in ConfigRecord /\ ConfigInv'
  <1>1. ASSUME NEW kind, kind \subseteq Line, ReadLine(kind)
        PROVE  config' \in ConfigRecord /\ ConfigInv'
    <2>1. PICK line \in kind : lines' = Append(lines, line) /\ config' = ParseLine(config, line)
      BY <1>1, Zenon DEF ReadLine
    <2>2. line \in Line /\ phase = "parsing" /\ phase' = phase
      BY <1>1, Zenon DEF ReadLine
    <2> QED
      BY <2>1, <2>2, ReadLineKeeps, Zenon
  <1>2. CASE BadLine
    BY <1>2, SameSettings, Zenon DEF BadLine
  <1>3. CASE Run
    BY <1>3, SameSettings, Zenon DEF Run
  <1> QED
    BY <1>1, <1>2, <1>3, FinishKeeps, Zenon DEF Start, Line

\* The highest of a set of numbers that has one.
LEMMA MaxIs ==
  ASSUME NEW S, S \subseteq Int, NEW i \in S, \A j \in S : j <= i
  PROVE  Max(S) = i
  <1>1. \E x \in S : \A y \in S : x >= y
    OBVIOUS
  <1>2. Max(S) \in S /\ \A y \in S : Max(S) >= y
    BY <1>1, Zenon DEF Max
  <1>3. ASSUME NEW m \in S, \A y \in S : m >= y
        PROVE  m = i
    <2>1. m \in Int /\ i \in Int /\ m >= i /\ m <= i
      BY <1>3
    <2> QED
      BY <2>1
  <1> QED
    BY <1>2, <1>3, Zenon

\* The inductive invariant says what ParsedAsWritten says.
LEMMA SettingsWritten ==
  ASSUME config \in ConfigRecord, ConfigInv
  PROVE  ParsedAsWritten
  <1>1. /\ lines \in Seq(Line)
        /\ \A o : At(o) \subseteq Int
    BY DEF ConfigInv, At
  <1>2. ASSUME NEW o \in Options
        PROVE  \/ At(o) = {} /\ config[o] = Default(o)
               \/ At(o) # {} /\ Max(At(o)) \in At(o) /\ config[o] = Meaning(lines[Max(At(o))])
    <2>1. SetByLast(o)
      BY Zenon DEF ConfigInv
    <2>2. CASE At(o) # {}
      <3>1. PICK i \in At(o) : (\A j \in At(o) : j <= i) /\ config[o] = Meaning(lines[i])
        BY <2>1, <2>2, Zenon DEF SetByLast
      <3>2. Max(At(o)) = i
        BY <1>1, <3>1, MaxIs
      <3> QED
        BY <3>1, <3>2, <2>2, Zenon
    <2> QED
      BY <2>1, <2>2, Zenon DEF SetByLast
  <1>3. phase = "no_game_server" => At("game_server") = {}
    <2>1. "game_server" \in Options
      BY Zenon DEF Options
    <2> QED
      BY <2>1, <1>1, <1>2, LineNotNull, Zenon DEF ConfigInv
  <1>4. ASSUME NEW o \in {"port", "knock_port"}
        PROVE  config[o] = LastPort(o, Default(o))
    <2>1. o \in Options
      BY Zenon DEF Options
    <2>2. CASE At(o) = {}
      BY <2>1, <2>2, <1>2 DEF LastPort, LastValue
    <2>3. CASE At(o) # {}
      <3> DEFINE line == lines[Max(At(o))]
      <3>1. line.opt = o /\ config[o] = Meaning(line) /\ line.value # Null
        BY <2>1, <2>3, <1>1, <1>2, LineNotNull DEF At
      <3>2. LastValue(o, Null) = line.value
        BY <2>3, Zenon DEF LastValue
      <3> HIDE DEF line
      <3>3. Meaning(line) = line.value % 2^16
        BY <3>1 DEF Meaning, Port
      <3> QED
        BY <3>1, <3>2, <3>3 DEF LastPort
    <2> QED
      BY <2>2, <2>3
  <1>5. ASSUME NEW o \in Options \ {"port", "knock_port"}
        PROVE  config[o] = LastValue(o, Defaults[o])
    <2>1. CASE At(o) = {}
      BY <2>1, <1>2 DEF LastValue, Default
    <2>2. CASE At(o) # {}
      <3>1. /\ Max(At(o)) \in At(o) /\ config[o] = Meaning(lines[Max(At(o))])
            /\ LastValue(o, Defaults[o]) = lines[Max(At(o))].value
        BY <2>2, <1>2, Zenon DEF LastValue
      <3>2. lines[Max(At(o))].opt = o
        BY <3>1, Zenon DEF At
      <3> QED
        BY <3>1, <3>2, Zenon DEF Meaning
    <2> QED
      BY <2>1, <2>2
  <1>6. DOMAIN config \ {"port", "knock_port", "server_list"} = Options \ {"port", "knock_port"}
    <2>1. DOMAIN config = Options \cup {"server_list"}
      BY ConfigFields DEF FieldsOk
    <2> QED
      BY <2>1, Zenon DEF Options
  <1>7. /\ config.port = LastPort("port", IF phase \in {"parsing", "bad_line"} THEN Null ELSE 2593)
        /\ config.knock_port = LastPort("knock_port", Null)
    BY <1>4 DEF Default, Defaults
  <1>8. \E f \in Numberings :
           /\ DOMAIN f = DOMAIN config.server_list
           /\ \A i \in DOMAIN f :
                 config.server_list[i] = Server(lines[f[i]].name, lines[f[i]].value)
    BY Zenon DEF ConfigInv, Lists
  <1> QED
    BY <1>3, <1>5, <1>6, <1>7, <1>8 DEF ParsedAsWritten

-----------------------------------------------------------------------------
(***************************************************************************)
(* Sequences and packets.                                                  *)
(***************************************************************************)

\* A stream to which something has been added.
Extends(new, old) ==
    Len(old) <= Len(new) /\ \A i \in 1..Len(old) : new[i] = old[i]

\* Concatenation only adds.
LEMMA CatExtends ==
  ASSUME NEW S, NEW s \in Seq(S), NEW t \in Seq(S)
  PROVE  Extends(s \o t, s)
  BY ConcatProperties DEF Extends

\* What was read stays what it was when more arrives.
LEMMA SubSeqExtended ==
  ASSUME NEW S, NEW old \in Seq(S), NEW new \in Seq(S), Extends(new, old),
         NEW m \in Nat \ {0}, NEW n \in 0..Len(old)
  PROVE  SubSeq(new, m, n) = SubSeq(old, m, n)
  <1>1. \A i \in m..n : new[i] \in S /\ old[i] \in S /\ new[i] = old[i]
    BY DEF Extends
  <1> DEFINE a == SubSeq(new, m, n)
             b == SubSeq(old, m, n)
             k == IF m <= n THEN n - m + 1 ELSE 0
  <1>2. a \in Seq(S) /\ Len(a) = k /\ \A i \in 1..(n - m + 1) : a[i] = new[m + i - 1]
    BY <1>1, SubSeqProperties
  <1>3. b \in Seq(S) /\ Len(b) = k /\ \A i \in 1..(n - m + 1) : b[i] = old[m + i - 1]
    BY <1>1, SubSeqProperties
  <1>4. \A i \in 1..k : i \in 1..(n - m + 1) /\ m + i - 1 \in m..n
    OBVIOUS
  <1> HIDE DEF a, b
  <1>5. \A i \in 1..k : a[i] = b[i]
    BY <1>1, <1>2, <1>3, <1>4
  <1>6. a = b
    BY <1>2, <1>3, <1>5, SeqEqual
  <1> QED
    BY <1>6 DEF a, b

\* What is read next follows what was read.
LEMMA ReadOn ==
  ASSUME NEW S, NEW s \in Seq(S), NEW r \in 0..Len(s), NEW k \in 0..r,
         NEW n \in 1..(Len(s) - r)
  PROVE  SubSeq(s, k + 1, r) \o SubSeq(SubSeq(s, r + 1, Len(s)), 1, n) =
            SubSeq(s, k + 1, r + n)
  <1>1. SubSeq(SubSeq(s, r + 1, Len(s)), 1, n) = SubSeq(s, r + 1, r + n)
    <2>1. /\ r + 1 \in 1..Len(s) /\ Len(s) \in 1..Len(s)
          /\ 1 \in 1..(Len(s) - (r + 1) + 1) /\ n \in 1..(Len(s) - (r + 1) + 1)
          /\ r + 1 + 1 - 1 = r + 1 /\ r + 1 + n - 1 = r + n
      OBVIOUS
    <2>2. SubSeq(SubSeq(s, r + 1, Len(s)), 1, n) = SubSeq(s, r + 1 + 1 - 1, r + 1 + n - 1)
      BY ONLY <2>1, s \in Seq(S), SubSeqOfSubSeq
    <2> QED
      BY <2>1, <2>2
  <1>2. SubSeq(s, k + 1, r) \o SubSeq(s, r + 1, r + n) = SubSeq(s, k + 1, r + n)
    <2>1. k + 1 \in 1..(Len(s) + 1) /\ r \in (k + 1 - 1)..Len(s) /\ r + n \in r..Len(s)
      OBVIOUS
    <2> QED
      BY ONLY <2>1, s \in Seq(S), ConcatAdjacentSubSeq
  <1> QED
    BY <1>1, <1>2

\* A packet that is cut in two.
LEMMA CutInTwo ==
  ASSUME NEW S, NEW s \in Seq(S), NEW packet \in Seq(S), NEW n \in 1..Len(packet)
  PROVE  /\ SubSeq(packet, 1, n) \in Seq(S)
         /\ SubSeq(packet, n + 1, Len(packet)) \in Seq(S)
         /\ (s \o SubSeq(packet, 1, n)) \o SubSeq(packet, n + 1, Len(packet)) = s \o packet
         /\ SubSeq(packet, n + 1, Len(packet)) # <<>> => n < Len(packet)
  <1> DEFINE a == SubSeq(packet, 1, n)
             b == SubSeq(packet, n + 1, Len(packet))
  <1>1. a \in Seq(S)
    BY SubSeqProperties
  <1>2. b \in Seq(S)
    BY SubSeqProperties
  <1>3. a \o b = packet
    <2>1. /\ 1 \in 1..(Len(packet) + 1) /\ n \in (1 - 1)..Len(packet)
          /\ Len(packet) \in n..Len(packet)
      OBVIOUS
    <2>2. a \o b = SubSeq(packet, 1, Len(packet))
      BY ONLY <2>1, packet \in Seq(S), ConcatAdjacentSubSeq
    <2> QED
      BY <2>2, SubSeqFull
  <1>4. b # <<>> => n < Len(packet)
    BY SubSeqEmpty
  <1> HIDE DEF a, b
  <1>5. (s \o a) \o b = s \o packet
    <2>1. (s \o a) \o b = s \o (a \o b)
      BY ONLY <1>1, <1>2, s \in Seq(S)
    <2> QED
      BY <2>1, <1>3, Zenon
  <1> QED
    BY <1>1, <1>2, <1>4, <1>5 DEF a, b

\* The commands.
Commands == {"Seed", "AccountLogin", "Extended", "PlayServer", "ServerList", "Game", "Junk"}

\* Units with their type.
LEMMA UnitTyped ==
  ASSUME NEW c \in Commands, NEW i \in Nat
  PROVE  /\ Unit(c, i, <<>>) \in UnitType
         /\ \A a \in Seq(Names \cup Nat) : Unit(c, i, a) \in UnitType
         /\ \A j \in Nat : Unit(c, i, <<j>>) \in UnitType
         /\ \A a : Cmd(Unit(c, i, a)) = c /\ Unit(c, i, a)[3] = a
  <1>1. \A a \in Seq(Names \cup Nat) : Unit(c, i, a) \in UnitType
    BY Zenon DEF Unit, UnitType, Commands
  <1>2. <<>> \in Seq(Names \cup Nat)
    <2>1. \A S : <<>> \in Seq(S)
      OBVIOUS
    <2> QED
      BY <2>1, Zenon
  <1>3. \A j \in Nat : <<j>> \in Seq(Names \cup Nat)
    <2>1. \A S : \A x \in S : <<x>> \in Seq(S)
      OBVIOUS
    <2> QED
      BY <2>1, Zenon
  <1>4. \A a : Cmd(Unit(c, i, a)) = c /\ Unit(c, i, a)[3] = a
    BY DEF Cmd, Unit
  <1> QED
    BY <1>1, <1>2, <1>3, <1>4, Zenon

\* Packets of one or two units.
LEMMA SmallPackets ==
  /\ Seed \in Seq(UnitType) /\ Len(Seed) = 1 /\ Cmd(Seed[1]) = "Seed"
  /\ AccountLogin \in Seq(UnitType) /\ Len(AccountLogin) = 1
  /\ Cmd(AccountLogin[1]) = "AccountLogin"
  /\ Extended \in Seq(UnitType) /\ Len(Extended) = 1
  /\ \A i \in Nat : /\ PlayServer(i) \in Seq(UnitType) /\ Len(PlayServer(i)) = 2
                    /\ Cmd(PlayServer(i)[1]) = "PlayServer" /\ PlayServer(i)[2][3] = <<i>>
                    /\ Game(i) \in Seq(UnitType) /\ Len(Game(i)) = 1
                    /\ Cmd(Game(i)[1]) = "Game"
                    /\ Junk(i) \in Seq(UnitType) /\ Len(Junk(i)) = 1
                    /\ Cmd(Junk(i)[1]) = "Junk"
  <1>1. \A c \in Commands, i \in Nat : Unit(c, i, <<>>) \in UnitType
    BY UnitTyped, Zenon
  <1>2. \A i, j \in Nat : Unit("PlayServer", i, <<j>>) \in UnitType
    BY UnitTyped, Zenon DEF Commands
  <1>3. \A c, i, a : Cmd(Unit(c, i, a)) = c /\ Unit(c, i, a)[3] = a
    BY DEF Cmd, Unit
  <1>4. \A u \in UnitType : <<u>> \in Seq(UnitType) /\ Len(<<u>>) = 1 /\ <<u>>[1] = u
    OBVIOUS
  <1>5. \A u, v \in UnitType : /\ <<u, v>> \in Seq(UnitType) /\ Len(<<u, v>>) = 2
                               /\ <<u, v>>[1] = u /\ <<u, v>>[2] = v
    OBVIOUS
  <1>6. 1 \in Nat /\ 2 \in Nat
    OBVIOUS
  <1>7. /\ Seed \in Seq(UnitType) /\ Len(Seed) = 1 /\ Cmd(Seed[1]) = "Seed"
        /\ AccountLogin \in Seq(UnitType) /\ Len(AccountLogin) = 1
        /\ Cmd(AccountLogin[1]) = "AccountLogin"
        /\ Extended \in Seq(UnitType) /\ Len(Extended) = 1
    BY <1>1, <1>3, <1>4, <1>6, Zenon DEF Seed, AccountLogin, Extended, Commands
  <1>8. ASSUME NEW i \in Nat
        PROVE  /\ Game(i) \in Seq(UnitType) /\ Len(Game(i)) = 1 /\ Cmd(Game(i)[1]) = "Game"
               /\ Junk(i) \in Seq(UnitType) /\ Len(Junk(i)) = 1 /\ Cmd(Junk(i)[1]) = "Junk"
    BY <1>1, <1>3, <1>4, Zenon DEF Game, Junk, Commands
  <1>9. ASSUME NEW i \in Nat
        PROVE  /\ PlayServer(i) \in Seq(UnitType) /\ Len(PlayServer(i)) = 2
               /\ Cmd(PlayServer(i)[1]) = "PlayServer" /\ PlayServer(i)[2][3] = <<i>>
    <2> DEFINE u == Unit("PlayServer", 1, <<>>)
               v == Unit("PlayServer", 2, <<i>>)
    <2>1. u \in UnitType /\ v \in UnitType /\ Cmd(u) = "PlayServer" /\ v[3] = <<i>>
      BY <1>1, <1>2, <1>3, <1>6, Zenon DEF Commands
    <2>2. PlayServer(i) = <<u, v>>
      BY Zenon DEF PlayServer
    <2> HIDE DEF u, v
    <2> QED
      BY <2>1, <2>2, <1>5
  <1> QED
    BY <1>7, <1>8, <1>9

\* A server list is as long as it says.
LEMMA ServerListPacket ==
  ASSUME NEW len \in Nat, len >= 2
  PROVE  /\ ServerList(len) \in Seq(UnitType) /\ Len(ServerList(len)) = len
         /\ \A i \in 1..len : Cmd(ServerList(len)[i]) = "ServerList"
         /\ ServerList(len)[2][3] = <<len>>
  <1> DEFINE u == Unit("ServerList", 1, <<>>)
             v == Unit("ServerList", 2, <<len>>)
             w(i) == Unit("ServerList", ServerListHead + i, <<>>)
             head == <<u, v>>
             tail == [i \in 1..(len - ServerListHead) |-> w(i)]
  <1>1. ServerList(len) = head \o tail
    BY DEF ServerList
  <1>2. u \in UnitType /\ v \in UnitType /\ \A i \in Nat : w(i) \in UnitType
    <2>1. "ServerList" \in Commands /\ 1 \in Nat /\ 2 \in Nat
          /\ \A i \in Nat : ServerListHead + i \in Nat
      BY DEF Commands, ServerListHead
    <2> QED
      BY <2>1, UnitTyped, Zenon
  <1>3. Cmd(u) = "ServerList" /\ Cmd(v) = "ServerList" /\ v[3] = <<len>>
        /\ \A i : Cmd(w(i)) = "ServerList"
    BY DEF Unit, Cmd
  <1> HIDE DEF u, v, w
  <1>4. /\ head \in Seq(UnitType) /\ Len(head) = 2 /\ head[1] = u /\ head[2] = v
    BY <1>2
  <1>5. /\ tail \in Seq(UnitType) /\ Len(tail) = len - 2
        /\ \A i \in 1..(len - 2) : tail[i] = w(i)
    <2>1. len - ServerListHead = len - 2 /\ len - 2 \in Nat
      BY DEF ServerListHead
    <2>2. \A i \in 1..(len - 2) : w(i) \in UnitType
      BY <1>2
    <2> QED
      BY <2>1, <2>2, IsASeq
  <1> HIDE DEF head, tail
  <1>6. /\ head \o tail \in Seq(UnitType) /\ Len(head \o tail) = 2 + (len - 2)
        /\ \A i \in 1..(2 + (len - 2)) :
              (head \o tail)[i] = IF i <= 2 THEN head[i] ELSE tail[i - 2]
    <2>1. /\ head \o tail \in Seq(UnitType) /\ Len(head \o tail) = Len(head) + Len(tail)
          /\ \A i \in 1..(Len(head) + Len(tail)) :
                (head \o tail)[i] = IF i <= Len(head) THEN head[i] ELSE tail[i - Len(head)]
      BY ONLY <1>4, <1>5, ConcatProperties
    <2> QED
      BY <2>1, <1>4, <1>5
  <1> DEFINE all == head \o tail
  <1> HIDE DEF all
  <1>7. /\ all \in Seq(UnitType) /\ Len(all) = len
        /\ \A i \in 1..len : all[i] = IF i <= 2 THEN head[i] ELSE tail[i - 2]
    BY <1>6 DEF all
  <1>8. \A i \in 1..len : Cmd(all[i]) = "ServerList"
    <2> TAKE i \in 1..len
    <2>1. CASE i = 1
      BY <2>1, <1>7, <1>4, <1>3
    <2>2. CASE i = 2
      BY <2>2, <1>7, <1>4, <1>3
    <2>3. CASE i > 2
      <3>1. i - 2 \in 1..(len - 2) /\ all[i] = tail[i - 2]
        BY <2>3, <1>7
      <3> QED
        BY <3>1, <1>5, <1>3
    <2> QED
      BY <2>1, <2>2, <2>3
  <1>9. all[2] = v
    BY <1>7, <1>4
  <1> QED
    BY <1>1, <1>3, <1>7, <1>8, <1>9 DEF all

\* A stream with a packet added.
LEMMA Added ==
  ASSUME NEW s \in Seq(UnitType), NEW packet \in Seq(UnitType)
  PROVE  /\ s \o packet \in Seq(UnitType)
         /\ Len(s) \in Nat /\ Len(packet) \in Nat
         /\ Len(s \o packet) = Len(s) + Len(packet)
         /\ \A i \in 1..Len(s) : (s \o packet)[i] = s[i]
         /\ \A i \in 1..Len(packet) : (s \o packet)[Len(s) + i] = packet[i]
  <1>1. /\ s \o packet \in Seq(UnitType)
        /\ Len(s) \in Nat /\ Len(packet) \in Nat
        /\ Len(s \o packet) = Len(s) + Len(packet)
        /\ \A i \in 1..(Len(s) + Len(packet)) : (s \o packet)[i] =
              IF i <= Len(s) THEN s[i] ELSE packet[i - Len(s)]
    BY ConcatProperties, LenProperties
  <1> DEFINE n == Len(s)
             k == Len(packet)
             t == s \o packet
  <1> HIDE DEF n, k, t
  <1>2. /\ n \in Nat /\ k \in Nat
        /\ \A i \in 1..(n + k) : t[i] = IF i <= n THEN s[i] ELSE packet[i - n]
    BY <1>1, Zenon DEF n, k, t
  <1>3. \A i \in 1..n : t[i] = s[i]
    BY <1>2
  <1>4. \A i \in 1..k : t[n + i] = packet[i]
    <2> TAKE i \in 1..k
    <2>1. n + i \in 1..(n + k) /\ ~(n + i <= n) /\ n + i - n = i
      BY <1>2
    <2> QED
      BY <2>1, <1>2
  <1> QED
    BY <1>1, <1>3, <1>4, Zenon DEF n, k, t

\* What clients send keeps the shape of their stream.
LEMMA ClientPacketFacts ==
  ASSUME NEW s \in Seq(UnitType), ClientShape(s), NEW packet \in ClientPackets(Len(s))
  PROVE  /\ packet \in Seq(UnitType) /\ Len(packet) >= 1
         /\ ClientShape(s \o packet)
  <1> DEFINE n == Len(s)
             t == s \o packet
  <1>0. n \in Nat
    OBVIOUS
  <1>1. CASE n = 0
    <2>1. packet = Seed \/ packet = Junk(1)
      BY <1>1 DEF ClientPackets
    <2>2. packet \in Seq(UnitType) /\ Len(packet) = 1 /\ Cmd(packet[1]) \in {"Seed", "Junk"}
      BY <2>1, SmallPackets
    <2>3. Len(t) = 1 /\ t[1] = packet[1]
      BY <1>1, <2>2, Added
    <2> QED
      BY <2>2, <2>3 DEF ClientShape
  <1>2. CASE n = 1
    <2>1. packet = AccountLogin \/ packet = Junk(2)
      BY <1>2 DEF ClientPackets
    <2>2. packet \in Seq(UnitType) /\ Len(packet) = 1 /\ Cmd(packet[1]) \in {"AccountLogin", "Junk"}
      BY <2>1, SmallPackets
    <2>3. Len(t) = 2 /\ t[1] = s[1] /\ t[2] = packet[1]
      BY <1>2, <2>2, Added
    <2> QED
      BY <1>2, <2>2, <2>3 DEF ClientShape
  <1>3. CASE n >= 2
    <2>1. packet = Game(n + 1) \/ \E index \in 0..MaxIndex : packet = PlayServer(index)
      <3>1. ClientPackets(n) = {PlayServer(i) : i \in 0..MaxIndex} \cup {Game(n + 1)}
        <4>1. n # 0 /\ n # 1
          <5> HIDE DEF n
          <5> QED
            BY <1>0, <1>3
        <4> QED
          BY <4>1, Zenon DEF ClientPackets
      <3> QED
        BY <3>1, Zenon
    <2>2. CASE packet = Game(n + 1)
      <3>1. packet \in Seq(UnitType) /\ Len(packet) = 1 /\ Cmd(packet[1]) = "Game"
        BY <1>0, <2>2, SmallPackets
      <3>0. /\ Len(t) = n + Len(packet) /\ \A i \in 1..n : t[i] = s[i]
            /\ \A i \in 1..Len(packet) : t[n + i] = packet[i]
        BY <3>1, Added, Zenon
      <3> HIDE DEF t
      <3>2. Len(t) = n + 1 /\ t[1] = s[1] /\ t[2] = s[2] /\ t[n + 1] = packet[1]
            /\ \A i \in 1..n : t[i] = s[i]
        BY <1>0, <1>3, <3>0, <3>1
      <3> QED
        BY <1>0, <1>3, <3>1, <3>2 DEF ClientShape
    <2>3. ASSUME NEW index \in 0..MaxIndex, packet = PlayServer(index)
          PROVE  packet \in Seq(UnitType) /\ Len(packet) >= 1 /\ ClientShape(t)
      <3>1. packet \in Seq(UnitType) /\ Len(packet) = 2 /\ Cmd(packet[1]) = "PlayServer"
            /\ packet[2][3] = <<index>>
        BY <2>3, SmallPackets
      <3>0. /\ Len(t) = n + Len(packet) /\ \A i \in 1..n : t[i] = s[i]
            /\ \A i \in 1..Len(packet) : t[n + i] = packet[i]
        BY <3>1, Added, Zenon
      <3> HIDE DEF t
      <3>2. Len(t) = n + 2 /\ t[1] = s[1] /\ t[2] = s[2] /\ t[n + 1] = packet[1]
            /\ t[n + 2] = packet[2] /\ \A i \in 1..n : t[i] = s[i]
        BY <1>0, <1>3, <3>0, <3>1
      <3>3. CASE n = 2
        BY <3>1, <3>2, <3>3 DEF ClientShape
      <3>4. CASE n >= 3
        BY <1>0, <3>1, <3>2, <3>4 DEF ClientShape
      <3>5. n = 2 \/ n >= 3
        <4> HIDE DEF n
        <4> QED
          BY <1>0, <1>3
      <3> QED
        BY <3>3, <3>4, <3>5
    <2> QED
      BY <2>1, <2>2, <2>3
  <1> QED
    BY <1>0, <1>1, <1>2, <1>3

\* What game servers send keeps the shape of theirs; a list does not grow.
LEMMA ServerPacketFacts ==
  ASSUME NEW s \in Seq(UnitType), ServerShape(s), NEW packet \in ServerPackets(Len(s))
  PROVE  /\ packet \in Seq(UnitType) /\ Len(packet) >= 1
         /\ ServerShape(s \o packet)
         /\ \A k \in 2..Len(s) : ListOf(s, k) => ListOf(s \o packet, k)
  <1> DEFINE n == Len(s)
             t == s \o packet
  <1>0. n \in Nat
    OBVIOUS
  <1>1. CASE n = 0
    <2>1. ASSUME NEW len \in 2..4, packet = ServerList(len)
          PROVE  packet \in Seq(UnitType) /\ Len(packet) >= 1 /\ ServerShape(t)
      <3>1. /\ packet \in Seq(UnitType) /\ Len(packet) = len
            /\ \A i \in 1..len : Cmd(packet[i]) = "ServerList"
            /\ packet[2][3] = <<len>>
        BY <2>1, ServerListPacket
      <3>2. Len(t) = len /\ \A i \in 1..len : t[i] = packet[i]
        BY <1>1, <3>1, Added
      <3> HIDE DEF t
      <3>3. ListOf(t, len) /\ t[2][3] = <<len>>
        BY <3>1, <3>2 DEF ListOf
      <3> QED
        BY <3>1, <3>2, <3>3 DEF ServerShape
    <2>2. CASE packet = Junk(1)
      <3>1. packet \in Seq(UnitType) /\ Len(packet) = 1 /\ Cmd(packet[1]) = "Junk"
        BY <2>2, SmallPackets
      <3>2. Len(t) = 1 /\ t[1] = packet[1]
        BY <1>1, <3>1, Added
      <3> HIDE DEF t
      <3>3. ListOf(t, 0)
        BY <3>1, <3>2 DEF ListOf
      <3> QED
        BY <3>1, <3>3, <1>1 DEF ServerShape, t
    <2>3. packet = Junk(1) \/ \E len \in 2..4 : packet = ServerList(len)
      BY <1>1 DEF ServerPackets, ServerListMin
    <2> QED
      BY <1>1, <2>1, <2>2, <2>3
  <1>2. CASE n > 0
    <2>1. packet \in Seq(UnitType) /\ Len(packet) = 1 /\ Cmd(packet[1]) = "Game"
      BY <1>0, <1>2, SmallPackets DEF ServerPackets
    <2>0. /\ Len(t) = n + Len(packet) /\ \A i \in 1..n : t[i] = s[i]
          /\ \A i \in 1..Len(packet) : t[n + i] = packet[i]
      BY <2>1, Added, Zenon
    <2> HIDE DEF t
    <2>2. /\ Len(t) = n + 1 /\ t[n + 1] = packet[1]
          /\ \A i \in 1..n : t[i] = s[i]
      BY <1>0, <2>0, <2>1
    <2>3. \A k \in 0..n : ListOf(s, k) => ListOf(t, k)
      BY <1>0, <2>1, <2>2 DEF ListOf
    <2>4. ServerShape(t)
      <3>1. CASE ListOf(s, 0)
        BY <3>1, <2>3, <1>0 DEF ServerShape
      <3>2. ASSUME NEW k \in 2..n, ListOf(s, k), s[2][3] = <<k>>
            PROVE  ServerShape(t)
        <4>1. k \in 2..Len(t) /\ ListOf(t, k) /\ t[2][3] = <<k>>
          BY <3>2, <2>2, <2>3, <1>0
        <4> QED
          BY <4>1 DEF ServerShape
      <3> QED
        BY <3>1, <3>2 DEF ServerShape
    <2> QED
      BY <2>1, <2>3, <2>4, <1>0 DEF t
  <1> QED
    BY <1>0, <1>1, <1>2

-----------------------------------------------------------------------------
(***************************************************************************)
(* The steps of a session.                                                 *)
(***************************************************************************)

\* The list uologin sends.
LEMMA OwnListTyped ==
  ASSUME config \in ConfigRecord
  PROVE  OwnServerList \in Seq(UnitType) /\ Len(OwnServerList) = 1
  <1> DEFINE list == config["server_list"]
             names == [i \in DOMAIN list |-> list[i].name]
  <1>1. list \in Seq([name : Names, address : Addresses])
    BY ConfigFields DEF FieldsOk
  <1>2. OwnServerList = <<Unit("ServerList", 0, names)>>
    BY DEF OwnServerList
  <1> HIDE DEF list
  <1>3. names \in Seq(Names \cup Nat)
    <2>1. DOMAIN list = 1..Len(list) /\ Len(list) \in Nat
          /\ \A i \in 1..Len(list) : list[i].name \in Names
      <3> DEFINE R == [name : Names, address : Addresses]
      <3>1. list \in Seq(R) /\ \A r \in R : r.name \in Names
        BY <1>1, Zenon
      <3> HIDE DEF R
      <3>2. /\ DOMAIN list = 1..Len(list) /\ Len(list) \in Nat
            /\ \A i \in 1..Len(list) : list[i] \in R
        BY <3>1
      <3> QED
        BY <3>1, <3>2, Zenon
    <2>2. names = [i \in 1..Len(list) |-> list[i].name]
      BY <2>1, Zenon
    <2>3. \A i \in 1..Len(list) : list[i].name \in Names \cup Nat
      BY <2>1, Zenon
    <2> QED
      BY <2>1, <2>2, <2>3, IsASeq
  <1> HIDE DEF names
  <1>4. Unit("ServerList", 0, names) \in UnitType
    <2>1. "ServerList" \in Commands /\ 0 \in Nat
      BY DEF Commands
    <2> QED
      BY <2>1, <1>3, UnitTyped, Zenon
  <1> QED
    BY <1>2, <1>4

\* A Connection to which nothing has happened.
Untouched ==
    /\ state \in {"INITIAL", "closed"}
    /\ phase # "running" => state = "INITIAL"
    /\ arrived = Blank /\ rest = Blank /\ written = Blank
    /\ read = [p \in Peers |-> 0] /\ outgoing_address = Null /\ torn = FALSE

\* It satisfies the invariant.
LEMMA UntouchedFits ==
  Untouched => /\ StreamsInv /\ HandlerInv
               /\ state \in States
               /\ arrived \in [Peers -> Seq(UnitType)] /\ rest \in [Peers -> Seq(UnitType)]
               /\ read \in [Peers -> Nat] /\ \A p \in Peers : read[p] <= Len(arrived[p])
               /\ written \in [Peers -> Seq(UnitType)]
               /\ outgoing_address \in Addresses \cup {Null} /\ torn \in BOOLEAN
  <1> SUFFICES ASSUME Untouched
               PROVE  /\ StreamsInv /\ HandlerInv
                      /\ state \in States
                      /\ arrived \in [Peers -> Seq(UnitType)]
                      /\ rest \in [Peers -> Seq(UnitType)]
                      /\ read \in [Peers -> Nat]
                      /\ \A p \in Peers : read[p] <= Len(arrived[p])
                      /\ written \in [Peers -> Seq(UnitType)]
                      /\ outgoing_address \in Addresses \cup {Null} /\ torn \in BOOLEAN
    OBVIOUS
  <1>1. /\ state \in {"INITIAL", "closed"} /\ arrived = Blank /\ rest = Blank /\ written = Blank
        /\ read = [p \in Peers |-> 0] /\ outgoing_address = Null /\ torn = FALSE
    BY Zenon DEF Untouched
  <1>2. Blank \in [Peers -> Seq(UnitType)] /\ \A p \in Peers : Blank[p] = <<>>
    BY DEF Blank
  <1>3. "client" \in Peers /\ "server" \in Peers
    BY DEF Peers
  <1>4. Sent("client") = <<>> /\ Sent("server") = <<>>
    BY <1>1, <1>2, <1>3 DEF Sent
  <1>5. StreamsInv
    <2>1. ClientShape(Sent("client")) /\ ServerShape(Sent("server"))
      BY <1>4 DEF ClientShape, ServerShape, ListOf
    <2> QED
      BY <1>1, <1>2, <2>1, Zenon DEF StreamsInv, Fresh, Untouched
  <1>6. HandlerInv
    <2>1. read["client"] = 0 /\ read["server"] = 0 /\ Unanswered
      BY <1>1, <1>2, <1>3, Zenon DEF Unanswered
    <2>2. InitialSize = 2
      BY SmallPackets DEF InitialSize
    <2> QED
      BY <1>1, <2>1, <2>2 DEF HandlerInv, ConformingNotDropped
  <1>7. \A p \in Peers : read[p] <= Len(arrived[p])
    BY <1>1, <1>2
  <1>8. state \in States /\ read \in [Peers -> Nat]
    BY <1>1 DEF States, Ended
  <1> QED
    BY <1>1, <1>2, <1>5, <1>6, <1>7, <1>8, Zenon

\* The same in the next state.
LEMMA UntouchedFitsNext ==
  Untouched' => (/\ StreamsInv /\ HandlerInv
                 /\ state \in States
                 /\ arrived \in [Peers -> Seq(UnitType)] /\ rest \in [Peers -> Seq(UnitType)]
                 /\ read \in [Peers -> Nat] /\ \A p \in Peers : read[p] <= Len(arrived[p])
                 /\ written \in [Peers -> Seq(UnitType)]
                 /\ outgoing_address \in Addresses \cup {Null} /\ torn \in BOOLEAN)'
  BY UntouchedFits, PTL

\* The lines are lines of options.
LEMMA LinesTyped ==
  ASSUME lines \in Seq(Line), config \in ConfigRecord
  PROVE  \A i \in DOMAIN lines : lines[i].opt \in DOMAIN config
  <1>1. DOMAIN config = Options \cup {"server_list"}
    BY ConfigFields DEF FieldsOk
  <1>2. \A i \in DOMAIN lines : lines[i] \in Line
    OBVIOUS
  <1> QED
    BY <1>1, <1>2, LineFacts, Zenon

\* Where uologin begins.
LEMMA InitInv == Init => SessionInv
  <1> SUFFICES ASSUME Init
               PROVE  SessionInv
    OBVIOUS
  <1>1. phase = "parsing" /\ lines = <<>> /\ config = Defaults /\ Fresh
    BY Zenon DEF Init, ConfigInit, Fresh
  <1>2. config \in ConfigRecord
    BY <1>1, DefaultsTyped
  <1>3. ConfigInv
    <2>1. \A o : At(o) = {}
      BY <1>1 DEF At
    <2>2. \A o \in Options : SetByLast(o)
      BY <1>1, <2>1 DEF SetByLast, Default
    <2>3. <<>> \in Numberings
      <3>1. NamedAt = {} /\ Len(lines) = 0
        BY <1>1, <2>1 DEF NamedAt
      <3>2. <<>> \in [1..0 -> {}] /\ DOMAIN <<>> = {}
        OBVIOUS
      <3> QED
        <4>1. 0 \in 0..0
          OBVIOUS
        <4>2. <<>> \in SeqOf({}, 0) /\ Range(<<>>) = {}
          BY <3>2, <4>1, Enumerations, Zenon
        <4> QED
          BY <3>1, <3>2, <4>2, Zenon DEF Numberings
    <2>4. Lists(<<>>)
      <3>1. config.server_list = <<>> /\ DOMAIN <<>> = {}
        BY <1>1 DEF Defaults
      <3> QED
        BY <3>1, Zenon DEF Lists
    <2>5. lines \in Seq(Line)
      BY <1>1
    <2> QED
      BY <1>1, <2>2, <2>3, <2>4, <2>5, Zenon DEF ConfigInv
  <1>4. \A i \in DOMAIN lines : lines[i].opt \in DOMAIN config
    BY <1>2, <1>3, LinesTyped DEF ConfigInv
  <1> QED
    BY <1>1, <1>2, <1>3, <1>4, UntouchedFits, Zenon DEF SessionInv, TypeOK, Fresh, Untouched

\* No connection is there before uologin runs.
LEMMA StartStep ==
  ASSUME SessionInv, Start
  PROVE  SessionInv'
  <1>1. /\ config' \in ConfigRecord /\ ConfigInv'
    BY StartKeepsConfig DEF SessionInv, TypeOK
  <1>2. /\ phase \in {"parsing", "parsed"}
        /\ phase' \in {"parsing", "parsed", "running", "bad_line", "no_game_server", "not_started"}
    BY DEF Start, ReadLine, BadLine, Finish, Run
  <1>3. Fresh
    BY <1>2, Zenon DEF SessionInv, StreamsInv
  <1>4. Untouched'
    BY <1>3, Zenon DEF Start, sessionVars, streams, Fresh, Untouched, Blank, Peers
  <1>5. (\A i \in DOMAIN lines : lines[i].opt \in DOMAIN config)'
    <2>1. lines' \in Seq(Line)
      BY <1>1, Zenon DEF ConfigInv
    <2>2. DOMAIN config' = Options \cup {"server_list"}
      BY <1>1, ConfigFields DEF FieldsOk
    <2>3. \A i \in DOMAIN lines' : lines'[i] \in Line
      BY <2>1
    <2> QED
      BY <2>2, <2>3, LineFacts, Zenon
  <1> QED
    BY <1>1, <1>2, <1>4, <1>5, UntouchedFitsNext, Zenon DEF SessionInv, TypeOK

\* What depends on the configuration alone.
LEMMA SettingsStay ==
  ASSUME SessionInv, UNCHANGED configVars
  PROVE  /\ ConfigInv'
         /\ (phase \in {"parsing", "parsed", "running", "bad_line", "no_game_server",
                        "not_started"})'
         /\ (\A i \in DOMAIN lines : lines[i].opt \in DOMAIN config)'
         /\ config' \in ConfigRecord
         /\ HasList' = HasList /\ OwnServerList' = OwnServerList
         /\ Taken' = Taken /\ Greeting' = Greeting
         /\ Taken = (IF HasList THEN 4 ELSE 2) /\ InitialSize = 2
  <1>1. phase' = phase /\ lines' = lines /\ config' = config
    BY Zenon DEF configVars
  <1>2. ConfigInv'
    BY <1>1, SameSettings, Zenon DEF SessionInv
  <1>3. InitialSize = 2
    BY SmallPackets DEF InitialSize
  <1>4. /\ HasList' = HasList /\ OwnServerList' = OwnServerList
        /\ Taken' = Taken /\ Greeting' = Greeting
    BY <1>1 DEF HasList, OwnServerList, Taken, Greeting, InitialSize, Unit
  <1>5. Taken = IF HasList THEN 4 ELSE 2
    BY <1>3 DEF Taken
  <1> QED
    BY <1>1, <1>2, <1>3, <1>4, <1>5, Zenon DEF SessionInv, TypeOK

\* The types of the streams.
LEMMA StreamsTyped ==
  ASSUME TypeOK, NEW p \in Peers
  PROVE  /\ arrived[p] \in Seq(UnitType) /\ rest[p] \in Seq(UnitType)
         /\ written[p] \in Seq(UnitType)
         /\ read[p] \in Nat /\ Len(arrived[p]) \in Nat /\ read[p] <= Len(arrived[p])
         /\ Sent(p) \in Seq(UnitType) /\ Len(Sent(p)) = SentBy(p)
         /\ Len(Sent(p)) >= Len(arrived[p])
  <1>1. /\ arrived[p] \in Seq(UnitType) /\ rest[p] \in Seq(UnitType)
        /\ written[p] \in Seq(UnitType)
        /\ read[p] \in Nat /\ read[p] <= Len(arrived[p])
    BY Zenon DEF TypeOK
  <1>2. Len(arrived[p]) \in Nat /\ Len(rest[p]) \in Nat
    BY <1>1
  <1>3. Sent(p) \in Seq(UnitType) /\ Len(Sent(p)) = SentBy(p)
    BY <1>1, Added DEF Sent, SentBy
  <1>4. Len(Sent(p)) >= Len(arrived[p])
    <2>1. \A a, b \in Nat : a + b >= a
      OBVIOUS
    <2> QED
      BY <1>2, <1>3, <2>1, Zenon DEF SentBy
  <1> QED
    BY <1>1, <1>2, <1>3, <1>4

\* Whatever arrives, what the handlers have done so far stays right.
LEMMA ArrivalKeeps ==
  ASSUME SessionInv, state # "dropped",
         UNCHANGED <<configVars, state, read, written, outgoing_address>>,
         arrived' \in [Peers -> Seq(UnitType)],
         \A p \in Peers : Extends(arrived'[p], arrived[p]),
         \A k \in 2..Len(Sent("server")) :
            ListOf(Sent("server"), k) => ListOf(Sent("server")', k)
  PROVE  HandlerInv'
  <1> DEFINE c == arrived["client"]
             d == arrived["client"]'
             rc == read["client"]
             rs == read["server"]
  <1>1. /\ HasList' = HasList /\ OwnServerList' = OwnServerList
        /\ Taken' = Taken /\ Greeting' = Greeting
        /\ Taken = (IF HasList THEN 4 ELSE 2) /\ InitialSize = 2
    BY SettingsStay, Zenon
  <1>2. /\ config' = config /\ state' = state /\ read' = read /\ written' = written
        /\ outgoing_address' = outgoing_address
    BY Zenon DEF configVars
  <1>3. "client" \in Peers /\ "server" \in Peers
    BY Zenon DEF Peers
  <1>4. /\ c \in Seq(UnitType) /\ rc \in Nat /\ Len(c) \in Nat /\ rc <= Len(c)
        /\ arrived["server"] \in Seq(UnitType)
        /\ rs \in Nat /\ rs <= Len(arrived["server"])
        /\ Len(arrived["server"]) \in Nat
        /\ Len(Sent("server")) \in Nat /\ Len(Sent("server")) >= Len(arrived["server"])
    <2>1. TypeOK
      BY Zenon DEF SessionInv
    <2>2. c \in Seq(UnitType) /\ rc \in Nat /\ Len(c) \in Nat /\ rc <= Len(c)
      BY <1>3, <2>1, StreamsTyped, Zenon
    <2>3. /\ arrived["server"] \in Seq(UnitType)
          /\ rs \in Nat /\ rs <= Len(arrived["server"])
          /\ Len(arrived["server"]) \in Nat /\ Sent("server") \in Seq(UnitType)
          /\ Len(Sent("server")) >= Len(arrived["server"])
      BY <1>3, <2>1, StreamsTyped, Zenon
    <2>4. Len(Sent("server")) \in Nat
      BY <2>3
    <2> QED
      BY <2>2, <2>3, <2>4, Zenon
  <1>5. /\ d \in Seq(UnitType) /\ arrived'["server"] \in Seq(UnitType)
        /\ Extends(d, c) /\ Extends(arrived'["server"], arrived["server"])
    BY <1>3, Zenon
  <1> HIDE DEF c, d, rc, rs
  <1>6. rc >= 2 => Login' = Login
    <2>1. rc >= 2 => d[1] = c[1] /\ d[2] = c[2]
      BY <1>4, <1>5 DEF Extends
    <2> QED
      BY <2>1, <1>2, Zenon DEF Login, c, d, Extended, Unit
  <1>7. state = "READY" => Upstream'
    <2> SUFFICES ASSUME state = "READY"
                 PROVE  Upstream'
      OBVIOUS
    <2>1. Upstream /\ Taken <= rc
      BY Zenon DEF SessionInv, HandlerInv, Upstream, rc
    <2>2. rc >= 2 /\ Taken + 1 \in Nat \ {0} /\ rc \in 0..Len(c)
      BY <1>1, <1>4, <2>1
    <2>3. SubSeq(d, Taken + 1, rc) = SubSeq(c, Taken + 1, rc)
      BY <1>4, <1>5, <2>2, SubSeqExtended
    <2> QED
      BY <1>1, <1>2, <1>6, <2>1, <2>2, <2>3, Zenon
         DEF Upstream, c, d, rc, PlayServer, Unit
  <1>8. state = "READY" => Downstream'
    <2> SUFFICES ASSUME state = "READY"
                 PROVE  Downstream'
      OBVIOUS
    <2>1. Downstream
      BY Zenon DEF SessionInv, HandlerInv
    <2>2. \A m \in Nat \ {0} : SubSeq(arrived'["server"], m, rs) = SubSeq(arrived["server"], m, rs)
      <3>1. rs \in 0..Len(arrived["server"])
        BY <1>4
      <3> QED
        BY <3>1, <1>4, <1>5, SubSeqExtended
    <2>3. CASE HasList
      <3>1. PICK n \in 2..rs :
               /\ ListOf(Sent("server"), n)
               /\ written["client"] = OwnServerList \o SubSeq(arrived["server"], n + 1, rs)
        BY <2>1, <2>3, Zenon DEF Downstream, rs
      <3>2. n \in 2..Len(Sent("server")) /\ n + 1 \in Nat \ {0} /\ n \in 2..rs
        BY <1>4
      <3>3. ListOf(Sent("server")', n)
        BY <3>1, <3>2
      <3>4. written["client"]' = OwnServerList' \o SubSeq(arrived'["server"], n + 1, rs)
        BY <1>1, <1>2, <2>2, <3>1, <3>2, Zenon
      <3> QED
        BY <1>1, <1>2, <2>3, <3>2, <3>3, <3>4, Zenon DEF Downstream, rs
    <2>4. CASE ~HasList
      <3>1. 1 \in Nat \ {0}
        OBVIOUS
      <3> QED
        BY <1>1, <1>2, <2>1, <2>2, <2>4, <3>1, Zenon DEF Downstream, rs
    <2> QED
      BY <2>3, <2>4
  <1>9. outgoing_address # Null => Chosen'
    <2> SUFFICES ASSUME outgoing_address # Null
                 PROVE  Chosen'
      OBVIOUS
    <2>1. Chosen
      BY Zenon DEF SessionInv, HandlerInv
    <2>2. HasList => Len(c) >= 4 /\ Len(d) >= 4 /\ d[4] = c[4]
      <3>1. HasList => Len(c) >= 4
        BY <2>1, Zenon DEF Chosen, c
      <3>2. Len(d) \in Nat
        BY <1>5
      <3> QED
        BY <3>1, <3>2, <1>4, <1>5 DEF Extends
    <2> QED
      BY <1>1, <1>2, <2>1, <2>2, Zenon DEF Chosen, c, d
  <1>10. state = "SEND_PLAY_SERVER" => written'["server"] = Login'
    <2>1. state = "SEND_PLAY_SERVER" => rc >= 2 /\ written["server"] = Login
      BY <1>1 DEF SessionInv, HandlerInv, rc
    <2> QED
      BY <2>1, <1>2, <1>6, Zenon
  <1>11. Unanswered' = Unanswered
    BY <1>2, Zenon DEF Unanswered
  <1>12. ConformingNotDropped'
    BY <1>2, Zenon DEF ConformingNotDropped
  <1> QED
    BY <1>1, <1>2, <1>7, <1>8, <1>9, <1>10, <1>11, <1>12, Zenon DEF SessionInv, HandlerInv

\* A piece of a stream arrives and another may be left.
LEMMA ArrivalStep ==
  ASSUME SessionInv, phase = "running", state # "dropped", NEW p \in Peers,
         NEW a \in Seq(UnitType), NEW r \in Seq(UnitType),
         arrived' = [arrived EXCEPT ![p] = @ \o a],
         rest' = [rest EXCEPT ![p] = r],
         torn' \in BOOLEAN, torn => torn', r # <<>> => torn',
         UNCHANGED <<configVars, state, read, written, outgoing_address>>,
         p = "client" => ClientShape((arrived[p] \o a) \o r),
         p = "server" => /\ ServerShape((arrived[p] \o a) \o r)
                         /\ \A k \in 2..Len(Sent("server")) :
                               ListOf(Sent("server"), k) => ListOf((arrived[p] \o a) \o r, k)
  PROVE  SessionInv'
  <1>1. TypeOK /\ StreamsInv
    BY Zenon DEF SessionInv
  <1>2. /\ config' = config /\ phase' = phase /\ state' = state /\ read' = read
        /\ written' = written /\ outgoing_address' = outgoing_address
    BY Zenon DEF configVars
  <1>3. /\ arrived \in [Peers -> Seq(UnitType)] /\ rest \in [Peers -> Seq(UnitType)]
        /\ \A q \in Peers : read[q] \in Nat /\ read[q] <= Len(arrived[q])
        /\ \A q \in Peers : arrived[q] \in Seq(UnitType)
    BY <1>1, Zenon DEF TypeOK
  <1>4. /\ arrived'[p] = arrived[p] \o a /\ rest'[p] = r
        /\ \A q \in Peers \ {p} : arrived'[q] = arrived[q] /\ rest'[q] = rest[q]
    BY <1>3, Zenon
  <1>5. arrived[p] \o a \in Seq(UnitType)
    BY <1>3, Added
  <1>6. arrived' \in [Peers -> Seq(UnitType)] /\ rest' \in [Peers -> Seq(UnitType)]
    BY <1>3, <1>5, Zenon
  <1>7. /\ \A s \in Seq(UnitType) : Extends(s, s)
        /\ Extends(arrived[p] \o a, arrived[p])
    BY <1>3, CatExtends DEF Extends
  <1>8. \A q \in Peers : Extends(arrived'[q], arrived[q])
    BY <1>3, <1>4, <1>7, Zenon
  <1>9. /\ Sent(p)' = (arrived[p] \o a) \o r
        /\ \A q \in Peers \ {p} : Sent(q)' = Sent(q)
    BY <1>4, Zenon DEF Sent
  <1>10. p = "client" \/ p = "server"
    BY Zenon DEF Peers
  <1>11. \A k \in 2..Len(Sent("server")) :
            ListOf(Sent("server"), k) => ListOf(Sent("server")', k)
    BY <1>9, <1>10, Zenon DEF Peers
  <1>12. StreamsInv'
    <2>1. \A q \in Peers : rest'[q] # <<>> => torn'
      BY <1>1, <1>4, Zenon DEF StreamsInv
    <2>2. ClientShape(Sent("client")')
      BY <1>1, <1>9, <1>10, Zenon DEF StreamsInv, Peers
    <2>3. ServerShape(Sent("server")')
      BY <1>1, <1>9, <1>10, Zenon DEF StreamsInv, Peers
    <2> QED
      BY <1>2, <2>1, <2>2, <2>3, Zenon DEF StreamsInv
  <1>13. HandlerInv'
    BY <1>6, <1>8, <1>11, ArrivalKeeps, Zenon
  <1>14. TypeOK'
    <2>1. \A q \in Peers : read'[q] <= Len(arrived'[q])
      <3> SUFFICES ASSUME NEW q \in Peers
                   PROVE  read[q] <= Len(arrived'[q])
        BY <1>2, Zenon
      <3>1. Len(arrived[q]) \in Nat /\ Len(arrived'[q]) \in Nat
        BY <1>3, <1>6
      <3>2. read[q] \in Nat /\ read[q] <= Len(arrived[q]) /\ Len(arrived[q]) <= Len(arrived'[q])
        BY <1>3, <1>8, Zenon DEF Extends
      <3> QED
        BY <3>1, <3>2
    <2> QED
      BY <1>1, <1>2, <1>6, <2>1, SettingsStay, Zenon DEF TypeOK
  <1> QED
    BY <1>12, <1>13, <1>14, SettingsStay, Zenon DEF SessionInv

\* A packet is sent, whole or in pieces.
LEMMA SendStep ==
  ASSUME SessionInv, phase = "running", state # "dropped", NEW p \in Peers,
         NEW packet \in Seq(UnitType), NEW n \in 1..Len(packet), Send(p, packet, n),
         p = "client" => ClientShape(Sent(p) \o packet),
         p = "server" => /\ ServerShape(Sent(p) \o packet)
                         /\ \A k \in 2..Len(Sent(p)) :
                               ListOf(Sent(p), k) => ListOf(Sent(p) \o packet, k)
  PROVE  SessionInv'
  <1> DEFINE a == SubSeq(packet, 1, n)
             r == SubSeq(packet, n + 1, Len(packet))
  <1>1. arrived[p] \in Seq(UnitType)
    BY StreamsTyped DEF SessionInv
  <1>2. Sent(p) = arrived[p]
    <2>1. rest[p] = <<>>
      BY Zenon DEF Send
    <2> QED
      BY <1>1, <2>1, ConcatEmptySeq DEF Sent
  <1>3. /\ a \in Seq(UnitType) /\ r \in Seq(UnitType)
        /\ (arrived[p] \o a) \o r = arrived[p] \o packet
        /\ r # <<>> => n < Len(packet)
    BY <1>1, CutInTwo
  <1>4. /\ arrived' = [arrived EXCEPT ![p] = @ \o a]
        /\ rest' = [rest EXCEPT ![p] = r]
        /\ UNCHANGED <<configVars, state, read, written, outgoing_address>>
    BY Zenon DEF Send
  <1>5. torn' \in BOOLEAN /\ (torn => torn') /\ (n < Len(packet) => torn')
    BY Zenon DEF Send
  <1> HIDE DEF a, r
  <1> QED
    BY <1>2, <1>3, <1>4, <1>5, ArrivalStep, Zenon

\* The sends of the peers.
LEMMA PeersStep ==
  ASSUME SessionInv, ClientSends \/ ServerSends
  PROVE  SessionInv'
  <1>1. TypeOK /\ StreamsInv
    BY Zenon DEF SessionInv
  <1>2. "client" \in Peers /\ "server" \in Peers
    BY Zenon DEF Peers
  <1>3. CASE ClientSends
    <2>0. PICK packet \in ClientPackets(SentBy("client")) :
             \E n \in 1..Len(packet) : Send("client", packet, n)
      BY <1>3, Zenon DEF ClientSends
    <2>1. PICK n \in 1..Len(packet) : Send("client", packet, n)
      BY <2>0
    <2>2. phase = "running" /\ state # "dropped"
      BY <1>3, Zenon DEF ClientSends, Ended
    <2>3. /\ Sent("client") \in Seq(UnitType) /\ Len(Sent("client")) = SentBy("client")
          /\ ClientShape(Sent("client"))
      BY <1>1, <1>2, StreamsTyped, Zenon DEF StreamsInv
    <2>4. packet \in Seq(UnitType) /\ ClientShape(Sent("client") \o packet)
      BY <2>3, ClientPacketFacts, Zenon
    <2> QED
      BY <1>2, <2>1, <2>2, <2>4, SendStep, Zenon
  <1>4. CASE ServerSends
    <2>0. PICK packet \in ServerPackets(SentBy("server")) :
             \E n \in 1..Len(packet) : Send("server", packet, n)
      BY <1>4, Zenon DEF ServerSends
    <2>1. PICK n \in 1..Len(packet) : Send("server", packet, n)
      BY <2>0
    <2>2. phase = "running" /\ state # "dropped"
      BY <1>1, <1>4, Zenon DEF ServerSends, StreamsInv, Fresh
    <2>3. /\ Sent("server") \in Seq(UnitType) /\ Len(Sent("server")) = SentBy("server")
          /\ ServerShape(Sent("server"))
      BY <1>1, <1>2, StreamsTyped, Zenon DEF StreamsInv
    <2>4. /\ packet \in Seq(UnitType) /\ ServerShape(Sent("server") \o packet)
          /\ \A k \in 2..Len(Sent("server")) :
                ListOf(Sent("server"), k) => ListOf(Sent("server") \o packet, k)
      BY <2>3, ServerPacketFacts, Zenon
    <2> QED
      BY <1>2, <2>1, <2>2, <2>4, SendStep, Zenon
  <1> QED
    BY <1>3, <1>4

\* The rest of a packet arrives.
LEMMA RestStep ==
  ASSUME SessionInv, NEW p \in Peers, RestArrives(p)
  PROVE  SessionInv'
  <1>1. TypeOK /\ StreamsInv
    BY Zenon DEF SessionInv
  <1>2. /\ state # "dropped" /\ rest[p] # <<>>
        /\ arrived' = [arrived EXCEPT ![p] = @ \o rest[p]]
        /\ rest' = [rest EXCEPT ![p] = <<>>]
        /\ torn' = torn /\ UNCHANGED <<configVars, state, read, written, outgoing_address>>
    BY Zenon DEF RestArrives, Ended
  <1>3. phase = "running"
    BY <1>1, <1>2, Zenon DEF StreamsInv, Fresh, Blank
  <1>4. /\ rest[p] \in Seq(UnitType) /\ <<>> \in Seq(UnitType)
        /\ arrived[p] \o rest[p] = Sent(p) /\ Sent(p) \in Seq(UnitType)
    <2>1. \A S : <<>> \in Seq(S)
      OBVIOUS
    <2> QED
      BY <1>1, <2>1, StreamsTyped, Zenon DEF Sent
  <1>5. (arrived[p] \o rest[p]) \o <<>> = Sent(p)
    BY <1>4, ConcatEmptySeq
  <1>6. torn' \in BOOLEAN
    BY <1>1, <1>2, Zenon DEF TypeOK
  <1>7. /\ p = "client" => ClientShape(Sent(p))
        /\ p = "server" => /\ ServerShape(Sent(p))
                           /\ \A k \in 2..Len(Sent("server")) :
                                 ListOf(Sent("server"), k) => ListOf(Sent(p), k)
    BY <1>1, Zenon DEF StreamsInv
  <1> QED
    BY <1>2, <1>3, <1>4, <1>5, <1>6, <1>7, ArrivalStep, Zenon

\* Nothing happens to a Connection before uologin runs.
LEMMA Running ==
  ASSUME SessionInv, state # "INITIAL" \/ Available("client") # <<>>
  PROVE  phase = "running"
  <1> SUFFICES ASSUME Fresh
               PROVE  FALSE
    BY Zenon DEF SessionInv, StreamsInv
  <1>1. state = "INITIAL" /\ arrived["client"] = <<>> /\ read["client"] = 0
    BY Zenon DEF Fresh, Blank, Peers
  <1>2. Available("client") = <<>>
    BY <1>1 DEF Available
  <1> QED
    BY <1>1, <1>2

\* A Connection is closed.
LEMMA CloseStep ==
  ASSUME SessionInv, phase = "running", Close
  PROVE  SessionInv'
  <1>1. UNCHANGED configVars
    BY Zenon DEF Close
  <1>2. phase' = phase
    BY <1>1, Zenon DEF configVars
  <1>3. Untouched'
    BY <1>2, Zenon DEF Close, Untouched, Blank, Peers
  <1> QED
    BY <1>1, <1>3, SettingsStay, UntouchedFitsNext, Zenon DEF SessionInv, TypeOK

\* A step of a handler leaves alone what the peers have sent.
LEMMA HandlerStep ==
  ASSUME SessionInv, phase = "running", UNCHANGED <<configVars, arrived, rest, torn>>,
         state' \in States,
         read' \in [Peers -> Nat], \A p \in Peers : read'[p] <= Len(arrived[p]),
         written' \in [Peers -> Seq(UnitType)],
         outgoing_address' \in Addresses \cup {Null},
         HandlerInv'
  PROVE  SessionInv'
  <1>1. phase' = phase /\ arrived' = arrived /\ rest' = rest /\ torn' = torn
    BY Zenon DEF configVars
  <1>2. Sent("client")' = Sent("client") /\ Sent("server")' = Sent("server")
    BY <1>1, Zenon DEF Sent
  <1>3. StreamsInv'
    <2>1. StreamsInv
      BY Zenon DEF SessionInv
    <2>2. \A p \in Peers : rest'[p] # <<>> => torn'
      BY <2>1, <1>1 DEF StreamsInv
    <2>3. phase' = "running"
      BY <1>1, Zenon
    <2> QED
      BY <2>1, <2>2, <2>3, <1>2, Zenon DEF StreamsInv
  <1>4. TypeOK'
    BY <1>1, SettingsStay, Zenon DEF SessionInv, TypeOK
  <1> QED
    BY <1>3, <1>4, SettingsStay, Zenon DEF SessionInv

\* A server once chosen stays the one that the client has seen.
LEMMA ChosenStays ==
  ASSUME SessionInv, UNCHANGED configVars, arrived' = arrived,
         outgoing_address' = outgoing_address,
         Len(written["client"]) >= 1 =>
            Len(written'["client"]) >= 1 /\ written'["client"][1] = written["client"][1]
  PROVE  outgoing_address' # Null => Chosen'
  <1> SUFFICES ASSUME outgoing_address # Null
               PROVE  Chosen'
    BY Zenon
  <1>1. Chosen
    BY Zenon DEF SessionInv, HandlerInv
  <1>2. HasList' = HasList /\ OwnServerList' = OwnServerList /\ config' = config
    BY SettingsStay, Zenon DEF configVars
  <1>3. CASE HasList
    <2>1. PICK index \in 0..(Len(config.server_list) - 1) :
             /\ arrived["client"][4][3] = <<index>>
             /\ outgoing_address = config.server_list[index + 1].address
      BY <1>1, <1>3, Zenon DEF Chosen
    <2>2. /\ Len(arrived["client"]) >= 4 /\ Len(written["client"]) >= 1
          /\ written["client"][1] = OwnServerList[1]
      BY <1>1, <1>3, Zenon DEF Chosen
    <2> QED
      BY <1>2, <1>3, <2>1, <2>2, Zenon DEF Chosen
  <1>4. CASE ~HasList
    BY <1>1, <1>2, <1>4, Zenon DEF Chosen
  <1> QED
    BY <1>3, <1>4

\* A Connection is dropped for a reason.
LEMMA DropStep ==
  ASSUME SessionInv, phase = "running", Drop, torn \/ ~ClientConforms \/ ~ServerConforms
  PROVE  SessionInv'
  <1>1. /\ state' = "dropped" /\ UNCHANGED configVars
        /\ config' = config /\ arrived' = arrived /\ rest' = rest /\ torn' = torn
        /\ read' = read /\ written' = written /\ outgoing_address' = outgoing_address
    BY Zenon DEF Drop, configVars, streams
  <1>2. ConformingNotDropped'
    <2>1. ClientConforms' <=> ClientConforms
      BY <1>1, Zenon DEF ClientConforms, Cmd, Arg, HasList, InitialSize, Seed, AccountLogin, Unit
    <2>2. ServerConforms' <=> ServerConforms
      BY <1>1, Zenon DEF ServerConforms, Cmd, Arg, ServerListMin
    <2> QED
      BY <1>1, <2>1, <2>2, Zenon DEF ConformingNotDropped
  <1>3. outgoing_address' # Null => Chosen'
    BY <1>1, ChosenStays, Zenon
  <1>4. HandlerInv'
    BY <1>1, <1>2, <1>3, Zenon DEF HandlerInv
  <1> QED
    BY <1>1, <1>4, HandlerStep, Zenon DEF SessionInv, TypeOK, States, Ended

\* What there is to read.
LEMMA AvailableFacts ==
  ASSUME TypeOK, NEW p \in Peers
  PROVE  /\ Available(p) \in Seq(UnitType)
         /\ Len(Available(p)) = Len(arrived[p]) - read[p]
         /\ \A i \in 1..(Len(arrived[p]) - read[p]) : Available(p)[i] = arrived[p][read[p] + i]
         /\ Available(p) # <<>> => Len(arrived[p]) > read[p]
  <1> DEFINE s == arrived[p]
             r == read[p]
             a == SubSeq(s, r + 1, Len(s))
  <1>1. s \in Seq(UnitType) /\ r \in Nat /\ Len(s) \in Nat /\ r <= Len(s)
    BY StreamsTyped
  <1>2. Available(p) = a
    BY Zenon DEF Available
  <1> HIDE DEF s, r
  <1>3. \A i \in (r + 1)..Len(s) : s[i] \in UnitType
    BY <1>1
  <1>4. /\ a \in Seq(UnitType)
        /\ Len(a) = (IF r + 1 <= Len(s) THEN Len(s) - (r + 1) + 1 ELSE 0)
        /\ \A i \in 1..(Len(s) - (r + 1) + 1) : a[i] = s[r + 1 + i - 1]
    BY <1>1, <1>3, SubSeqProperties
  <1> HIDE DEF a
  <1>5. Len(a) = Len(s) - r
    BY <1>1, <1>4
  <1>6. \A i \in 1..(Len(s) - r) : a[i] = s[r + i]
    <2> TAKE i \in 1..(Len(s) - r)
    <2>1. i \in 1..(Len(s) - (r + 1) + 1) /\ r + 1 + i - 1 = r + i
      BY <1>1
    <2> QED
      BY <2>1, <1>4
  <1>7. a # <<>> => Len(s) > r
    <2>1. ASSUME a # <<>>
          PROVE  Len(a) > 0
      BY <2>1, <1>4, EmptySeq
    <2> QED
      BY <2>1, <1>1, <1>5
  <1> QED
    BY <1>2, <1>4, <1>5, <1>6, <1>7, Zenon DEF s, r

\* What has arrived is the beginning of what was sent; if it is not all,
\* a packet is torn.
LEMMA SentFacts ==
  ASSUME SessionInv, NEW p \in Peers
  PROVE  /\ \A i \in 1..Len(arrived[p]) : Sent(p)[i] = arrived[p][i]
         /\ Len(Sent(p)) \in Nat /\ Len(Sent(p)) >= Len(arrived[p])
         /\ Len(Sent(p)) > Len(arrived[p]) => torn
  <1>1. TypeOK /\ StreamsInv
    BY Zenon DEF SessionInv
  <1>2. /\ arrived[p] \in Seq(UnitType) /\ rest[p] \in Seq(UnitType)
        /\ Sent(p) \in Seq(UnitType) /\ Len(Sent(p)) >= Len(arrived[p])
    BY <1>1, StreamsTyped, Zenon
  <1>3. \A i \in 1..Len(arrived[p]) : Sent(p)[i] = arrived[p][i]
    BY <1>2, Added, Zenon DEF Sent
  <1>4. ASSUME rest[p] = <<>>
        PROVE  Len(Sent(p)) = Len(arrived[p])
    BY <1>2, <1>4, ConcatEmptySeq DEF Sent
  <1>5. Len(Sent(p)) > Len(arrived[p]) => rest[p] # <<>>
    BY <1>2, <1>4
  <1>6. rest[p] # <<>> => torn
    BY <1>1, Zenon DEF StreamsInv
  <1>7. Len(Sent(p)) \in Nat
    BY <1>2
  <1> QED
    BY <1>2, <1>3, <1>5, <1>6, <1>7, Zenon

\* The position after reading the login packets.
LEMMA LoginReadFacts ==
  ASSUME TypeOK
  PROVE  /\ LoginRead \in [Peers -> Nat]
         /\ \A p \in Peers : LoginRead[p] <= Len(arrived[p])
         /\ LoginRead["server"] = read["server"]
         /\ LoginRead["client"] <= 2
         /\ LoginRead["client"] >= InitialSize =>
               LoginRead["client"] = 2 /\ Len(arrived["client"]) >= 2
         /\ InitialSize = 2
  <1> DEFINE v == Smaller(Len(arrived["client"]), InitialSize)
  <1>1. InitialSize = 2
    BY SmallPackets DEF InitialSize
  <1>2. "client" \in Peers /\ "server" \in Peers /\ "client" # "server"
    BY Zenon DEF Peers
  <1>3. Len(arrived["client"]) \in Nat
    BY <1>2, StreamsTyped
  <1>4. /\ v \in Nat /\ v <= Len(arrived["client"]) /\ v <= 2
        /\ v >= 2 => v = 2 /\ Len(arrived["client"]) >= 2
    BY <1>1, <1>3 DEF Smaller
  <1>5. LoginRead = [read EXCEPT !["client"] = v] /\ read \in [Peers -> Nat]
    BY Zenon DEF LoginRead, TypeOK
  <1> HIDE DEF v
  <1>6. /\ LoginRead \in [Peers -> Nat] /\ LoginRead["client"] = v
        /\ \A p \in Peers \ {"client"} : LoginRead[p] = read[p]
    BY <1>2, <1>4, <1>5, Zenon
  <1>7. \A p \in Peers : read[p] <= Len(arrived[p])
    BY Zenon DEF TypeOK
  <1>8. \A p \in Peers : LoginRead[p] <= Len(arrived[p])
    BY <1>4, <1>6, <1>7, Zenon
  <1> QED
    BY <1>1, <1>2, <1>4, <1>6, <1>8, Zenon

\* A part of the login packets is read.
LEMMA LoginPartStep ==
  ASSUME SessionInv, ReceiveLoginPart
  PROVE  SessionInv'
  <1>1. TypeOK /\ HandlerInv
    BY Zenon DEF SessionInv
  <1>2. /\ state = "INITIAL" /\ Available("client") # <<>> /\ read' = LoginRead
        /\ state' = state /\ written' = written /\ outgoing_address' = outgoing_address
        /\ UNCHANGED <<configVars, arrived, rest, torn>>
    BY Zenon DEF ReceiveLoginPart, LoginIncomplete
  <1>3. phase = "running"
    BY <1>2, Running
  <1>4. Unanswered' /\ outgoing_address' = Null
    BY <1>1, <1>2, Zenon DEF HandlerInv, Unanswered
  <1>5. read'["client"] <= InitialSize /\ read'["server"] = 0
    <2>1. read["server"] = 0
      BY <1>1, <1>2, Zenon DEF HandlerInv
    <2> QED
      BY <1>1, <1>2, <2>1, LoginReadFacts, Zenon
  <1>6. ConformingNotDropped'
    BY <1>2, Zenon DEF ConformingNotDropped
  <1>7. HandlerInv'
    <2>1. InitialSize' = InitialSize
      BY DEF InitialSize, Seed, AccountLogin, Unit
    <2> QED
      BY <1>2, <1>4, <1>5, <1>6, <2>1, Zenon DEF HandlerInv
  <1> QED
    BY <1>1, <1>2, <1>3, <1>7, LoginReadFacts, HandlerStep, Zenon DEF TypeOK

\* OnCheckCredentials(true).
LEMMA AcceptedStep ==
  ASSUME SessionInv, phase = "running", state \in {"INITIAL", "CHECK_CREDENTIALS"},
         NEW r \in [Peers -> Nat], \A p \in Peers : r[p] <= Len(arrived[p]),
         r["client"] = 2, r["server"] = 0, Accepted(r)
  PROVE  SessionInv'
  <1>1. TypeOK /\ HandlerInv
    BY Zenon DEF SessionInv
  <1>2. /\ read' = r /\ UNCHANGED <<configVars, arrived, rest, torn>> /\ UNCHANGED configVars
        /\ state' = IF HasList THEN "SERVER_LIST" ELSE "CONNECTING"
        /\ written' = IF HasList THEN [written EXCEPT !["client"] = @ \o OwnServerList]
                      ELSE written
        /\ outgoing_address' = IF HasList THEN outgoing_address ELSE config.game_server
    BY Zenon DEF Accepted
  <1>3. written["client"] = <<>> /\ written["server"] = <<>> /\ outgoing_address = Null
    BY <1>1, Zenon DEF HandlerInv, Unanswered
  <1>4. /\ HasList' = HasList /\ OwnServerList' = OwnServerList
        /\ Taken' = Taken /\ Greeting' = Greeting
        /\ Taken = (IF HasList THEN 4 ELSE 2) /\ InitialSize = 2
    BY <1>2, SettingsStay, Zenon
  <1>5. InitialSize' = InitialSize
    BY DEF InitialSize, Seed, AccountLogin, Unit
  <1>6. ConformingNotDropped'
    BY <1>2, Zenon DEF ConformingNotDropped
  <1>7. OwnServerList \in Seq(UnitType) /\ config \in ConfigRecord
    BY <1>1, OwnListTyped, Zenon DEF TypeOK
  <1>8. written \in [Peers -> Seq(UnitType)] /\ "client" \in Peers /\ "server" \in Peers
        /\ "client" # "server"
    BY <1>1, Zenon DEF TypeOK, Peers
  <1>9. CASE HasList
    <2>1. <<>> \o OwnServerList = OwnServerList
      BY <1>7, ConcatEmptySeq
    <2>2. /\ written' \in [Peers -> Seq(UnitType)]
          /\ written'["client"] = OwnServerList /\ written'["server"] = <<>>
      BY <1>2, <1>3, <1>7, <1>8, <1>9, <2>1, Zenon
    <2>3. state' = "SERVER_LIST" /\ outgoing_address' = Null
      BY <1>2, <1>3, <1>9, Zenon
    <2>4. written'["client"] = Greeting'
      BY <1>4, <1>9, <2>2, Zenon DEF Greeting
    <2>5. HandlerInv'
      BY <1>2, <1>4, <1>5, <1>6, <1>9, <2>2, <2>3, <2>4, Zenon DEF HandlerInv
    <2>6. state' \in States /\ outgoing_address' \in Addresses \cup {Null}
      BY <2>3, Zenon DEF States
    <2> QED
      BY <1>2, <2>2, <2>5, <2>6, HandlerStep, Zenon
  <1>10. CASE ~HasList
    <2>1. state' = "CONNECTING" /\ written' = written /\ outgoing_address' = config.game_server
      BY <1>2, <1>10, Zenon
    <2>2. Chosen'
      BY <1>2, <1>4, <1>10, <2>1, Zenon DEF Chosen, configVars
    <2>3. written'["client"] = Greeting' /\ written'["server"] = <<>>
      BY <1>3, <1>4, <1>10, <2>1, Zenon DEF Greeting
    <2>4. read'["client"] = Taken' /\ read'["server"] = 0
      BY <1>2, <1>4, <1>10
    <2>5. HandlerInv'
      BY <1>6, <2>1, <2>2, <2>3, <2>4, Zenon DEF HandlerInv
    <2>6. config.game_server \in Addresses \cup {Null} /\ state' \in States
      BY <1>7, <2>1, ConfigFields, Zenon DEF FieldsOk, States
    <2> QED
      BY <1>2, <1>8, <2>1, <2>5, <2>6, HandlerStep, Zenon
  <1> QED
    BY <1>9, <1>10

\* Login packets that are not what they should be are junk.
LEMMA BadLogin ==
  ASSUME SessionInv, Len(arrived["client"]) >= 2, ~LoginWellFormed
  PROVE  ~ClientConforms
  <1> DEFINE c == arrived["client"]
  <1>1. "client" \in Peers /\ TypeOK /\ ClientShape(Sent("client"))
    BY Zenon DEF Peers, SessionInv, StreamsInv
  <1>2. c \in Seq(UnitType) /\ Len(c) \in Nat /\ DOMAIN c = 1..Len(c)
    <2>1. c \in Seq(UnitType)
      BY <1>1, StreamsTyped, Zenon
    <2> HIDE DEF c
    <2> QED
      BY <2>1
  <1>3. 1 \in 1..Len(c) /\ 2 \in 1..Len(c)
    <2> DEFINE n == Len(c)
    <2>1. n \in Nat /\ n >= 2
      BY <1>2, Zenon
    <2> HIDE DEF n
    <2>2. 1 \in 1..n /\ 2 \in 1..n
      BY <2>1
    <2> QED
      BY <2>2, Zenon DEF n
  <1>4. /\ Sent("client")[1] = c[1] /\ Sent("client")[2] = c[2]
        /\ Len(Sent("client")) \in Nat /\ Len(Sent("client")) >= Len(c)
    BY <1>1, <1>3, SentFacts, Zenon
  <1>5. Cmd(c[1]) \in {"Seed", "Junk"} /\ Cmd(c[2]) \in {"AccountLogin", "Junk"}
    <2>1. Len(Sent("client")) >= 1 /\ Len(Sent("client")) >= 2
      <3> DEFINE m == Len(Sent("client"))
                 n == Len(c)
      <3>1. m \in Nat /\ n \in Nat /\ m >= n /\ n >= 2
        BY <1>2, <1>4, Zenon
      <3> HIDE DEF m, n
      <3>2. m >= 1 /\ m >= 2
        BY <3>1
      <3> QED
        BY <3>2, Zenon DEF m
    <2> QED
      BY <1>1, <1>4, <2>1, Zenon DEF ClientShape
  <1>6. Cmd(c[1]) = "Junk" \/ Cmd(c[2]) = "Junk"
    BY <1>5, Zenon DEF LoginWellFormed
  <1> QED
    BY <1>2, <1>3, <1>6, Zenon DEF ClientConforms

\* The login packets are complete.
LEMMA LoginPacketsStep ==
  ASSUME SessionInv, ReceiveLoginPackets
  PROVE  SessionInv'
  <1>1. TypeOK /\ HandlerInv
    BY Zenon DEF SessionInv
  <1>2. state = "INITIAL" /\ LoginRead["client"] >= InitialSize
    BY Zenon DEF ReceiveLoginPackets
  <1>3. /\ LoginRead \in [Peers -> Nat] /\ \A p \in Peers : LoginRead[p] <= Len(arrived[p])
        /\ LoginRead["server"] = read["server"] /\ LoginRead["client"] = 2
        /\ Len(arrived["client"]) >= 2 /\ InitialSize = 2
    BY <1>1, <1>2, LoginReadFacts, Zenon
  <1>4. phase = "running"
    <2>1. ASSUME phase # "running"
          PROVE  FALSE
      <3>1. arrived["client"] = <<>>
        BY <2>1, Zenon DEF SessionInv, StreamsInv, Fresh, Blank, Peers
      <3> QED
        BY <3>1, <1>3
    <2> QED
      BY <2>1, Zenon
  <1>5. read["server"] = 0
    BY <1>1, <1>2, Zenon DEF HandlerInv
  <1>6. CASE ~LoginWellFormed
    <2>1. Drop
      BY <1>6 DEF ReceiveLoginPackets
    <2> QED
      BY <1>3, <1>4, <1>6, <2>1, BadLogin, DropStep
  <1>7. CASE LoginWellFormed /\ NeverLoads
    <2>1. Close
      BY <1>7 DEF ReceiveLoginPackets, NeverLoads
    <2> QED
      BY <1>4, <2>1, CloseStep
  <1>8. CASE /\ read' = LoginRead
             /\ state' = "CHECK_CREDENTIALS"
             /\ UNCHANGED <<configVars, arrived, rest, written, outgoing_address, torn>>
    <2>1. Unanswered'
      BY <1>1, <1>2, <1>8, Zenon DEF HandlerInv, Unanswered
    <2>2. InitialSize' = InitialSize
      BY DEF InitialSize, Seed, AccountLogin, Unit
    <2>3. outgoing_address' = Null
      BY <2>1, Zenon DEF Unanswered
    <2>4. HandlerInv'
      BY <1>3, <1>5, <1>8, <2>1, <2>2, <2>3, Zenon DEF HandlerInv, ConformingNotDropped
    <2>5. /\ state' \in States /\ read' \in [Peers -> Nat]
          /\ \A p \in Peers : read'[p] <= Len(arrived[p])
          /\ written' \in [Peers -> Seq(UnitType)]
          /\ outgoing_address' \in Addresses \cup {Null}
          /\ UNCHANGED <<configVars, arrived, rest, torn>>
      BY <1>1, <1>3, <1>8, <2>3, Zenon DEF TypeOK, States
    <2> QED
      BY <1>4, <2>4, <2>5, HandlerStep, Zenon
  <1>9. CASE Accepted(LoginRead)
    BY <1>2, <1>3, <1>4, <1>5, <1>9, AcceptedStep, Zenon
  <1> QED
    <2>1. \/ ~LoginWellFormed
          \/ LoginWellFormed /\ NeverLoads
          \/ /\ read' = LoginRead /\ state' = "CHECK_CREDENTIALS"
             /\ UNCHANGED <<configVars, arrived, rest, written, outgoing_address, torn>>
          \/ Accepted(LoginRead)
      BY DEF ReceiveLoginPackets
    <2> QED
      BY <1>6, <1>7, <1>8, <1>9, <2>1, Zenon

\* The answer of the database arrives.
LEMMA CheckStep ==
  ASSUME SessionInv, OnCheckCredentials
  PROVE  SessionInv'
  <1>1. TypeOK /\ HandlerInv
    BY Zenon DEF SessionInv
  <1>2. state = "CHECK_CREDENTIALS" /\ Accepted(read)
    BY Zenon DEF OnCheckCredentials
  <1>3. phase = "running"
    BY <1>2, Running
  <1>4. read["client"] = 2 /\ read["server"] = 0
    <2>1. InitialSize = 2
      BY <1>1, LoginReadFacts
    <2> QED
      BY <1>1, <1>2, <2>1, Zenon DEF HandlerInv
  <1>5. read \in [Peers -> Nat] /\ \A p \in Peers : read[p] <= Len(arrived[p])
    BY <1>1, Zenon DEF TypeOK
  <1> QED
    <2>1. PICK r : r = read
      OBVIOUS
    <2>2. r \in [Peers -> Nat] /\ (\A p \in Peers : r[p] <= Len(arrived[p]))
          /\ r["client"] = 2 /\ r["server"] = 0 /\ Accepted(r)
      BY <1>2, <1>4, <1>5, <2>1, Zenon
    <2> QED
      BY <1>2, <1>3, <2>2, AcceptedStep, Zenon

\* The third and the fourth unit of a client's stream.
LEMMA ThirdUnit ==
  ASSUME SessionInv, Len(arrived["client"]) >= 3
  PROVE  LET c == arrived["client"]
         IN  \/ Cmd(c[3]) = "Game"
             \/ /\ Cmd(c[3]) = "PlayServer"
                /\ \/ Len(c) = 3 /\ torn
                   \/ Len(c) >= 4 /\ \E index \in Nat : c[4][3] = <<index>>
  <1> DEFINE c == arrived["client"]
             s == Sent("client")
             n == Len(c)
             m == Len(s)
  <1>1. "client" \in Peers /\ TypeOK /\ ClientShape(s)
    BY Zenon DEF Peers, SessionInv, StreamsInv
  <1>2. n \in Nat /\ c \in Seq(UnitType)
    BY <1>1, StreamsTyped, Zenon
  <1>3. /\ \A i \in 1..n : s[i] = c[i]
        /\ m \in Nat /\ m >= n /\ (m > n => torn)
    BY <1>1, SentFacts, Zenon
  <1>4. /\ n >= 3
        /\ m >= 3 => \/ Cmd(s[3]) = "Game"
                     \/ /\ Cmd(s[3]) = "PlayServer" /\ m >= 4
                        /\ \E index \in 0..MaxIndex : s[4][3] = <<index>>
    BY <1>1, Zenon DEF ClientShape
  <1> HIDE DEF c, s, n, m
  <1>5. m >= 3 /\ s[3] = c[3]
    BY <1>2, <1>3, <1>4
  <1>6. CASE Cmd(s[3]) = "PlayServer" /\ m >= 4
    <2>1. PICK index \in 0..MaxIndex : s[4][3] = <<index>>
      BY <1>4, <1>5, <1>6
    <2>2. index \in Nat
      BY IndexAssumption
    <2>3. CASE n >= 4
      <3>1. s[4] = c[4]
        BY <1>2, <1>3, <2>3
      <3> QED
        BY <1>5, <1>6, <2>1, <2>2, <2>3, <3>1 DEF c, n
    <2>4. CASE n = 3
      BY <1>2, <1>3, <1>5, <1>6, <2>4 DEF c, n
    <2> QED
      BY <1>2, <1>4, <2>3, <2>4
  <1> QED
    BY <1>4, <1>5, <1>6 DEF c, n

\* The choice of a server, or a reason to drop the Connection.
LEMMA PlayServerStep ==
  ASSUME SessionInv, ReceivePlayServer
  PROVE  SessionInv'
  <1> DEFINE c == arrived["client"]
             a == Available("client")
             packet == SubSeq(a, 1, Smaller(2, Len(a)))
             list == config["server_list"]
  <1>1. TypeOK /\ HandlerInv /\ config \in ConfigRecord
    BY Zenon DEF SessionInv, TypeOK
  <1>2. /\ state = "SERVER_LIST" /\ packet # <<>>
        /\ \/ /\ PlayServerOk(packet)
              /\ read' = [read EXCEPT !["client"] = @ + 2]
              /\ outgoing_address' = ChosenServer(Arg(packet[2]))
              /\ state' = "CONNECTING"
              /\ UNCHANGED <<configVars, arrived, rest, written, torn>>
           \/ ~PlayServerOk(packet) /\ Drop
    BY Zenon DEF ReceivePlayServer
  <1>3. phase = "running"
    BY <1>2, Running
  <1>4. /\ HasList /\ outgoing_address = Null /\ read["client"] = 2 /\ InitialSize = 2
        /\ written["server"] = <<>> /\ written["client"] = OwnServerList
        /\ read["server"] = 0
    <2>1. InitialSize = 2
      BY <1>1, LoginReadFacts
    <2> QED
      BY <1>1, <1>2, <2>1, Zenon DEF HandlerInv, Greeting
  <1>5. "client" \in Peers /\ "server" \in Peers /\ "client" # "server"
    BY Zenon DEF Peers
  <1>6. c \in Seq(UnitType) /\ Len(c) \in Nat
    BY <1>1, <1>5, StreamsTyped, Zenon
  <1>7. /\ a \in Seq(UnitType) /\ Len(a) = Len(c) - 2
        /\ \A i \in 1..(Len(c) - 2) : a[i] = c[2 + i]
    BY <1>1, <1>4, <1>5, AvailableFacts, Zenon
  <1>8. list \in Seq([name : Names, address : Addresses])
    BY <1>1, ConfigFields, Zenon DEF FieldsOk
  <1> HIDE DEF a
  <1>9. /\ Len(c) >= 3
        /\ Len(c) = 3 => Len(packet) = 1 /\ packet[1] = c[3]
        /\ Len(c) >= 4 => Len(packet) = 2 /\ packet[1] = c[3] /\ packet[2] = c[4]
    <2> DEFINE k == Len(a)
               n == Len(c)
    <2>1. /\ k \in Nat /\ n \in Nat /\ k = n - 2
          /\ \A i \in 1..(n - 2) : a[i] = c[2 + i]
      BY <1>6, <1>7, LenProperties, Zenon
    <2>2. packet = SubSeq(a, 1, Smaller(2, k))
      BY Zenon
    <2>3. \A m \in 0..2 : m <= k =>
             /\ Len(SubSeq(a, 1, m)) = m
             /\ \A i \in 1..m : SubSeq(a, 1, m)[i] = a[i]
      <3> TAKE m \in 0..2
      <3> HAVE m <= k
      <3>1. \A i \in 1..m : a[i] \in UnitType
        BY <1>7, <2>1
      <3>2. /\ Len(SubSeq(a, 1, m)) = (IF 1 <= m THEN m - 1 + 1 ELSE 0)
            /\ \A i \in 1..(m - 1 + 1) : SubSeq(a, 1, m)[i] = a[1 + i - 1]
        BY <3>1, SubSeqProperties
      <3>3. m - 1 + 1 = m /\ (IF 1 <= m THEN m - 1 + 1 ELSE 0) = m
            /\ \A i \in 1..m : 1 + i - 1 = i
        OBVIOUS
      <3> QED
        BY <3>2, <3>3, Zenon
    <2> HIDE DEF k, n, packet
    <2>4. CASE k = 0
      <3>1. Smaller(2, k) = 0
        BY <2>4 DEF Smaller
      <3>2. packet = <<>>
        BY <2>2, <3>1, SubSeqEmpty
      <3> QED
        BY <1>2, <3>2
    <2>5. CASE k = 1
      <3>1. Smaller(2, k) = 1 /\ 1 \in 0..2 /\ 1 <= k /\ 1 \in 1..1
        BY <2>5 DEF Smaller
      <3>2. Len(packet) = 1 /\ packet[1] = a[1]
        BY <2>2, <2>3, <3>1, Zenon
      <3>3. n = 3 /\ n >= 3 /\ ~(n >= 4) /\ a[1] = c[3]
        BY <2>1, <2>5
      <3> QED
        BY <3>2, <3>3, Zenon DEF n
    <2>6. CASE k >= 2
      <3>1. Smaller(2, k) = 2 /\ 2 \in 0..2 /\ 2 <= k /\ 1 \in 1..2 /\ 2 \in 1..2
        BY <2>1, <2>6 DEF Smaller
      <3>2. Len(packet) = 2 /\ packet[1] = a[1] /\ packet[2] = a[2]
        BY <2>2, <2>3, <3>1, Zenon
      <3>3. n >= 4 /\ n >= 3 /\ n # 3 /\ a[1] = c[3] /\ a[2] = c[4]
        BY <2>1, <2>6
      <3> QED
        BY <3>2, <3>3, Zenon DEF n
    <2>7. k = 0 \/ k = 1 \/ k >= 2
      BY <2>1
    <2> QED
      BY <2>4, <2>5, <2>6, <2>7, Zenon
  <1>10. /\ \/ Cmd(c[3]) = "Game"
            \/ /\ Cmd(c[3]) = "PlayServer"
               /\ \/ Len(c) = 3 /\ torn
                  \/ Len(c) >= 4 /\ \E index \in Nat : c[4][3] = <<index>>
    BY <1>9, ThirdUnit, Zenon
  <1>11. PlayServerOk(packet) <=>
           /\ Len(packet) = 2 /\ Cmd(packet[1]) = "PlayServer" /\ Arg(packet[2]) < Len(list)
    BY Zenon DEF PlayServerOk
  <1>12. ClientConforms =>
           Cmd(c[3]) = "PlayServer" /\ (Len(c) >= 4 => Arg(c[4]) < Len(list))
    <2>1. Len(c) > 2 /\ 2 + 1 = 3 /\ 2 + 2 = 4
      BY <1>6, <1>9
    <2> QED
      BY <1>4, <2>1 DEF ClientConforms
  <1> HIDE DEF packet
  <1>13. CASE PlayServerOk(packet)
    <2>0. /\ read' = [read EXCEPT !["client"] = @ + 2]
          /\ outgoing_address' = ChosenServer(Arg(packet[2]))
          /\ state' = "CONNECTING"
          /\ UNCHANGED <<configVars, arrived, rest, torn>> /\ UNCHANGED configVars
          /\ written' = written /\ arrived' = arrived /\ config' = config
      BY <1>2, <1>13, Zenon DEF Drop, configVars
    <2>1. Len(c) >= 4 /\ packet[2] = c[4] /\ Cmd(c[3]) = "PlayServer"
      <3>1. Len(packet) = 2 /\ Cmd(packet[1]) = "PlayServer" /\ ~(Len(packet) = 1)
        BY <1>11, <1>13
      <3>2. Len(c) = 3 \/ Len(c) >= 4
        <4> DEFINE n == Len(c)
        <4>1. n \in Nat /\ n >= 3
          BY <1>6, <1>9, Zenon
        <4> HIDE DEF n
        <4>2. n = 3 \/ n >= 4
          BY <4>1
        <4> QED
          BY <4>2, Zenon DEF n
      <3> QED
        BY <1>9, <3>1, <3>2, Zenon
    <2>2. PICK index \in Nat : c[4][3] = <<index>>
      BY <1>6, <1>10, <2>1
    <2>3. Arg(packet[2]) = index
      BY <2>1, <2>2 DEF Arg
    <2>4. Len(list) \in Nat /\ index < Len(list) /\ index + 1 \in 1..Len(list)
      BY <1>8, <1>11, <1>13, <2>3
    <2>5. outgoing_address' = list[index + 1].address
      BY <2>0, <2>3, Zenon DEF ChosenServer
    <2>6. outgoing_address' \in Addresses \cup {Null}
      <3> DEFINE R == [name : Names, address : Addresses]
      <3>1. list \in Seq(R) /\ \A e \in R : e.address \in Addresses
        BY <1>8, Zenon
      <3> HIDE DEF R, list
      <3>2. list[index + 1] \in R
        BY <2>4, <3>1
      <3> QED
        BY <2>5, <3>1, <3>2, Zenon
    <2>7. /\ HasList' = HasList /\ OwnServerList' = OwnServerList
          /\ Taken' = Taken /\ Greeting' = Greeting
          /\ Taken = (IF HasList THEN 4 ELSE 2)
      BY <2>0, SettingsStay, Zenon
    <2>8. /\ read' \in [Peers -> Nat] /\ read'["client"] = 4 /\ read'["server"] = 0
          /\ \A p \in Peers : read'[p] <= Len(arrived[p])
      <3>1. read \in [Peers -> Nat] /\ \A p \in Peers : read[p] <= Len(arrived[p])
        BY <1>1, Zenon DEF TypeOK
      <3>2. read["client"] + 2 = 4 /\ 4 \in Nat
        BY <1>4
      <3>3. /\ read' \in [Peers -> Nat] /\ read'["client"] = 4
            /\ \A p \in Peers \ {"client"} : read'[p] = read[p]
        BY <1>5, <2>0, <3>1, <3>2, Zenon
      <3>4. 4 <= Len(arrived["client"])
        BY <1>6, <2>1
      <3> QED
        BY <1>4, <1>5, <3>1, <3>3, <3>4, Zenon
    <2>9. Chosen'
      <3>1. index \in 0..(Len(list) - 1)
        BY <2>4
      <3>2. Len(OwnServerList) >= 1
        BY <1>1, OwnListTyped
      <3> QED
        BY <1>4, <2>0, <2>1, <2>2, <2>5, <2>7, <3>1, <3>2, Zenon DEF Chosen
    <2>10. written'["client"] = Greeting' /\ written'["server"] = <<>> /\ read'["client"] = Taken'
      BY <1>4, <2>0, <2>7, <2>8, Zenon DEF Greeting
    <2>11. HandlerInv'
      BY <2>0, <2>8, <2>9, <2>10, Zenon DEF HandlerInv, ConformingNotDropped
    <2>12. written' \in [Peers -> Seq(UnitType)] /\ state' \in States
      BY <1>1, <2>0, Zenon DEF TypeOK, States
    <2> QED
      BY <1>3, <2>0, <2>6, <2>8, <2>11, <2>12, HandlerStep, Zenon
  <1>14. CASE ~PlayServerOk(packet)
    <2>1. Drop
      BY <1>2, <1>14, Zenon
    <2>2. torn \/ ~ClientConforms
      <3>1. CASE Len(c) = 3
        BY <3>1, <1>10, <1>12
      <3>2. CASE Len(c) >= 4
        BY <3>2, <1>9, <1>11, <1>12, <1>14, Zenon
      <3>3. Len(c) = 3 \/ Len(c) >= 4
        <4> DEFINE n == Len(c)
        <4>1. n \in Nat /\ n >= 3
          BY <1>6, <1>9, Zenon
        <4> HIDE DEF n
        <4>2. n = 3 \/ n >= 4
          BY <4>1
        <4> QED
          BY <4>2, Zenon DEF n
      <3> QED
        BY <3>1, <3>2, <3>3, Zenon
    <2> QED
      BY <1>3, <2>1, <2>2, DropStep, Zenon
  <1> QED
    BY <1>13, <1>14

\* Nobody listens to the client while uologin connects without a list.
LEMMA EarlyStep ==
  ASSUME SessionInv, OnIncomingWhileConnecting
  PROVE  SessionInv'
  <1>1. TypeOK /\ HandlerInv
    BY Zenon DEF SessionInv
  <1>2. state = "CONNECTING" /\ ~HasList /\ Available("client") # <<>> /\ Drop
    BY Zenon DEF OnIncomingWhileConnecting
  <1>3. phase = "running"
    BY <1>2, Running
  <1>4. InitialSize = 2 /\ "client" \in Peers
    BY <1>1, LoginReadFacts, Zenon DEF Peers
  <1>5. read["client"] = Taken /\ written["client"] = <<>>
    BY <1>1, <1>2, Zenon DEF HandlerInv, Greeting
  <1>6. Len(arrived["client"]) > InitialSize
    <2>1. Taken = 2
      BY <1>2, <1>4 DEF Taken
    <2>2. Len(arrived["client"]) > read["client"]
      BY <1>1, <1>2, <1>4, AvailableFacts, Zenon
    <2> QED
      BY <1>4, <1>5, <2>1, <2>2, Zenon
  <1>7. ~ClientConforms
    BY <1>2, <1>5, <1>6, Zenon DEF ClientConforms
  <1> QED
    BY <1>2, <1>3, <1>7, DropStep, Zenon

\* The login packets as they are sent.
LEMMA LoginTyped ==
  ASSUME TypeOK, Len(arrived["client"]) >= 2
  PROVE  Login \in Seq(UnitType) /\ InitialPackets = Login
  <1> DEFINE c == arrived["client"]
             e == IF config.send_remote_ip THEN Extended ELSE <<>>
  <1>1. c \in Seq(UnitType) /\ Len(c) \in Nat
    BY StreamsTyped, Zenon DEF Peers
  <1>2. c[1] \in UnitType /\ c[2] \in UnitType
    <2> HIDE DEF c
    <2>1. Len(c) >= 2
      BY Zenon DEF c
    <2> QED
      BY <1>1, <2>1
  <1>3. e \in Seq(UnitType)
    BY SmallPackets
  <1>4. /\ Login = <<c[1]>> \o e \o <<c[2]>>
        /\ InitialPackets = SubSeq(c, 1, 1) \o e \o SubSeq(c, 2, 2)
    BY SmallPackets DEF Login, InitialPackets, InitialSize
  <1> HIDE DEF e
  <1>5. \A i \in {1, 2} : SubSeq(c, i, i) = <<c[i]>>
    <2> HIDE DEF c
    <2>1. Len(c) >= 2
      BY Zenon DEF c
    <2> SUFFICES ASSUME NEW i \in {1, 2}
                 PROVE  SubSeq(c, i, i) = <<c[i]>>
      OBVIOUS
    <2>2. i \in 1..Len(c) /\ i \in i..Len(c) /\ i + 1 > i /\ i + 1 \in Int /\ c[i] \in UnitType
      BY <1>1, <1>2, <2>1
    <2>3. SubSeq(c, i, i) = <<c[i]>> \o SubSeq(c, i + 1, i)
      BY ONLY <1>1, <2>2, SubSeqRecursiveFirst
    <2>4. SubSeq(c, i + 1, i) = <<>>
      BY <2>2, SubSeqEmpty
    <2> QED
      <3>1. \A u \in UnitType : <<u>> \o <<>> = <<u>>
        BY ConcatEmptySeq
      <3> QED
        BY <2>2, <2>3, <2>4, <3>1, Zenon
  <1>6. InitialPackets = Login
    BY <1>4, <1>5, Zenon
  <1>7. <<c[1]>> \in Seq(UnitType) /\ <<c[2]>> \in Seq(UnitType)
    BY <1>2
  <1>8. \A x, y, z \in Seq(UnitType) : x \o y \o z \in Seq(UnitType)
    OBVIOUS
  <1>9. Login \in Seq(UnitType)
    BY <1>3, <1>4, <1>7, <1>8, Zenon
  <1> QED
    BY <1>6, <1>9

\* The game server is connected.
LEMMA ConnectStep ==
  ASSUME SessionInv, OnSocketConnectSuccess
  PROVE  SessionInv'
  <1>1. TypeOK /\ HandlerInv
    BY Zenon DEF SessionInv
  <1>2. /\ state = "CONNECTING" /\ written' = [written EXCEPT !["server"] = InitialPackets]
        /\ state' = IF HasList THEN "SEND_PLAY_SERVER" ELSE "READY"
        /\ read' = read /\ outgoing_address' = outgoing_address /\ arrived' = arrived
        /\ UNCHANGED <<configVars, arrived, rest, torn>> /\ UNCHANGED configVars
        /\ config' = config
    BY Zenon DEF OnSocketConnectSuccess, configVars
  <1>3. phase = "running"
    BY <1>2, Running
  <1>4. "client" \in Peers /\ "server" \in Peers /\ "client" # "server"
    BY Zenon DEF Peers
  <1>5. /\ HasList' = HasList /\ OwnServerList' = OwnServerList
        /\ Taken' = Taken /\ Greeting' = Greeting
        /\ Taken = (IF HasList THEN 4 ELSE 2) /\ InitialSize = 2
    BY <1>2, SettingsStay, Zenon
  <1>6. read["client"] = Taken /\ written["client"] = Greeting /\ read["server"] = 0
    BY <1>1, <1>2, Zenon DEF HandlerInv
  <1>7. /\ arrived["client"] \in Seq(UnitType) /\ arrived["server"] \in Seq(UnitType)
        /\ read["client"] \in Nat /\ read["client"] <= Len(arrived["client"])
        /\ Len(arrived["client"]) \in Nat
    BY <1>1, <1>4, StreamsTyped, Zenon
  <1>8. Len(arrived["client"]) >= 2
    BY <1>5, <1>6, <1>7
  <1>9. Login \in Seq(UnitType) /\ InitialPackets = Login
    BY <1>1, <1>8, LoginTyped, Zenon
  <1>10. /\ written' \in [Peers -> Seq(UnitType)]
         /\ written'["client"] = Greeting /\ written'["server"] = Login
    <2>1. written \in [Peers -> Seq(UnitType)]
      BY <1>1, Zenon DEF TypeOK
    <2> QED
      BY <1>2, <1>4, <1>6, <1>9, <2>1, Zenon
  <1>11. Login' = Login
    BY <1>2, Zenon DEF Login, Extended, Unit
  <1>12. outgoing_address' # Null => Chosen'
    BY <1>2, <1>6, <1>10, ChosenStays, Zenon
  <1>13. state' \in States
    BY <1>2, Zenon DEF States
  <1>14. HandlerInv'
    <2>1. CASE HasList
      <3>1. state' = "SEND_PLAY_SERVER"
        BY <1>2, <2>1, Zenon
      <3> QED
        BY <1>2, <1>5, <1>6, <1>10, <1>11, <1>12, <2>1, <3>1, Zenon
           DEF HandlerInv, ConformingNotDropped
    <2>2. CASE ~HasList
      <3>1. state' = "READY" /\ Taken = 2
        BY <1>2, <1>5, <2>2, Zenon
      <3>2. Upstream'
        <4>1. SubSeq(arrived["client"], Taken + 1, read["client"]) = <<>>
          BY <1>6, <3>1, SubSeqEmpty
        <4>2. Login \o <<>> \o <<>> = Login
          BY <1>9, ConcatEmptySeq
        <4>3. Taken' <= read'["client"]
          BY <1>2, <1>5, <1>6, <3>1
        <4> QED
          BY <1>2, <1>5, <1>10, <1>11, <2>2, <4>1, <4>2, <4>3, Zenon DEF Upstream
      <3>3. Downstream'
        <4>1. SubSeq(arrived["server"], 1, 0) = <<>>
          BY SubSeqEmpty
        <4>2. written'["client"] = <<>>
          BY <1>10, <2>2, Zenon DEF Greeting
        <4> QED
          BY <1>2, <1>5, <1>6, <2>2, <4>1, <4>2, Zenon DEF Downstream
      <3> QED
        BY <1>2, <1>12, <3>1, <3>2, <3>3, Zenon DEF HandlerInv, ConformingNotDropped
    <2> QED
      BY <2>1, <2>2
  <1> QED
    BY <1>1, <1>2, <1>3, <1>10, <1>13, <1>14, HandlerStep, Zenon DEF TypeOK

\* What arrives first from a game server.
LEMMA FirstUnits ==
  ASSUME SessionInv, Len(arrived["server"]) >= 1, Cmd(arrived["server"][1]) = "ServerList"
  PROVE  \E n \in Nat : /\ n >= 2 /\ ListOf(Sent("server"), n)
                        /\ Len(arrived["server"]) >= 2 => arrived["server"][2][3] = <<n>>
                        /\ Len(arrived["server"]) < n => torn
  <1> DEFINE a == arrived["server"]
             s == Sent("server")
             k == Len(a)
             m == Len(s)
  <1>1. "server" \in Peers /\ TypeOK /\ ServerShape(s)
    BY Zenon DEF Peers, SessionInv, StreamsInv
  <1>2. k \in Nat /\ a \in Seq(UnitType)
    BY <1>1, StreamsTyped, Zenon
  <1>3. /\ \A i \in 1..k : s[i] = a[i]
        /\ m \in Nat /\ m >= k /\ (m > k => torn)
    BY <1>1, SentFacts, Zenon
  <1>4. k >= 1 /\ Cmd(a[1]) = "ServerList"
    BY Zenon
  <1>5. ListOf(s, 0) \/ \E n \in 2..m : ListOf(s, n) /\ s[2][3] = <<n>>
    BY <1>1, Zenon DEF ServerShape
  <1>6. \A n : ListOf(s, n) <=> \A i \in 1..m : Cmd(s[i]) = "ServerList" <=> i <= n
    BY Zenon DEF ListOf
  <1> HIDE DEF a, s, k, m
  <1>7. ~ListOf(s, 0)
    <2>1. 1 \in 1..m /\ s[1] = a[1] /\ ~(1 <= 0)
      BY <1>2, <1>3, <1>4
    <2> QED
      BY <1>4, <1>6, <2>1, Zenon
  <1>8. PICK n \in 2..m : ListOf(s, n) /\ s[2][3] = <<n>>
    BY <1>5, <1>7
  <1>9. /\ n \in Nat /\ n >= 2 /\ (k < n => torn)
        /\ k >= 2 => a[2][3] = <<n>>
    BY <1>2, <1>3, <1>8
  <1> QED
    BY <1>8, <1>9, Zenon DEF a, s, k

\* The server list is cut out, or there is a reason to drop the Connection.
LEMMA ServerListStep ==
  ASSUME SessionInv, ReceiveServerList
  PROVE  SessionInv'
  <1> DEFINE s == arrived["server"]
             packet == Available("server")
             k == Len(s)
  <1>1. TypeOK /\ HandlerInv
    BY Zenon DEF SessionInv
  <1>2. /\ state = "SEND_PLAY_SERVER" /\ packet # <<>>
        /\ \/ /\ ServerListOk(packet)
              /\ read' = [read EXCEPT !["server"] = @ + ServerListRead(Arg(packet[2]))]
              /\ written' = [written EXCEPT !["server"] = @ \o PlayServer(0)]
              /\ state' = "READY"
              /\ UNCHANGED <<configVars, arrived, rest, outgoing_address, torn>>
           \/ ~ServerListOk(packet) /\ Drop
    BY Zenon DEF ReceiveServerList, AnswerServerList
  <1>3. phase = "running"
    BY <1>2, Running
  <1>4. "client" \in Peers /\ "server" \in Peers /\ "client" # "server"
    BY Zenon DEF Peers
  <1>5. /\ HasList /\ written["server"] = Login /\ read["client"] = Taken
        /\ written["client"] = OwnServerList /\ read["server"] = 0
    BY <1>1, <1>2, Zenon DEF HandlerInv, Greeting
  <1>6. /\ s \in Seq(UnitType) /\ k \in Nat
        /\ packet \in Seq(UnitType) /\ Len(packet) = k - 0
        /\ \A i \in 1..(k - 0) : packet[i] = s[0 + i]
        /\ k > 0
    BY <1>1, <1>2, <1>4, <1>5, StreamsTyped, AvailableFacts, Zenon
  <1> HIDE DEF packet, k
  <1>7. /\ Len(packet) = k /\ k >= 1 /\ packet[1] = s[1] /\ (k >= 2 => packet[2] = s[2])
    BY <1>6
  <1>8. Cmd(s[1]) = "ServerList" =>
          \E n \in Nat : /\ n >= 2 /\ ListOf(Sent("server"), n)
                         /\ k >= 2 => s[2][3] = <<n>>
                         /\ k < n => torn
    BY <1>7, FirstUnits, Zenon DEF k
  <1>9. ServerListOk(packet) <=>
           /\ Cmd(s[1]) = "ServerList" /\ k >= 2 /\ Arg(packet[2]) >= 3
           /\ k >= 2 + (Arg(packet[2]) - 2)
    BY <1>7, Zenon DEF ServerListOk, ServerListHead, ServerListMin, ServerListRead
  <1>10. ServerConforms => Cmd(s[1]) = "ServerList" /\ (k >= 2 => Arg(s[2]) >= 3)
    <2>1. s # <<>>
      BY <1>6, <1>7 DEF k
    <2> QED
      BY <2>1, Zenon DEF ServerConforms, ServerListMin, k
  <1>11. CASE ServerListOk(packet)
    <2>0. /\ read' = [read EXCEPT !["server"] = @ + ServerListRead(Arg(packet[2]))]
          /\ written' = [written EXCEPT !["server"] = @ \o PlayServer(0)]
          /\ state' = "READY" /\ outgoing_address' = outgoing_address
          /\ UNCHANGED <<configVars, arrived, rest, torn>> /\ UNCHANGED configVars
          /\ arrived' = arrived /\ rest' = rest /\ config' = config
      BY <1>2, <1>11, Zenon DEF configVars
    <2>1. PICK n \in Nat : /\ n >= 2 /\ ListOf(Sent("server"), n)
                           /\ k >= 2 => s[2][3] = <<n>>
      BY <1>8, <1>9, <1>11
    <2>2. Arg(packet[2]) = n /\ k >= n
      <3>1. Arg(packet[2]) = n
        BY <1>7, <1>9, <1>11, <2>1 DEF Arg
      <3> QED
        BY <1>6, <1>9, <1>11, <3>1
    <2>3. ServerListRead(Arg(packet[2])) = n
      BY <2>2 DEF ServerListRead, ServerListHead
    <2>4. /\ read' \in [Peers -> Nat] /\ read'["server"] = n /\ read'["client"] = read["client"]
          /\ \A p \in Peers : read'[p] <= Len(arrived[p])
      <3>1. read \in [Peers -> Nat] /\ \A p \in Peers : read[p] <= Len(arrived[p])
        BY <1>1, Zenon DEF TypeOK
      <3>2. read["server"] + n = n /\ n <= Len(arrived["server"])
        BY <1>5, <1>6, <2>2 DEF k
      <3>3. /\ read' \in [Peers -> Nat] /\ read'["server"] = n
            /\ \A p \in Peers \ {"server"} : read'[p] = read[p]
        BY <1>4, <2>0, <2>3, <3>1, <3>2, Zenon
      <3> QED
        BY <1>4, <3>1, <3>2, <3>3, Zenon
    <2>5. /\ HasList' = HasList /\ OwnServerList' = OwnServerList /\ Taken' = Taken
          /\ Taken = (IF HasList THEN 4 ELSE 2)
      BY <2>0, SettingsStay, Zenon
    <2>6. Taken = 4 /\ Len(arrived["client"]) >= 2
      <3>1. /\ read["client"] \in Nat /\ Len(arrived["client"]) \in Nat
            /\ read["client"] <= Len(arrived["client"])
        BY <1>1, <1>4, StreamsTyped, Zenon
      <3>2. Taken = 4
        BY <1>5, <2>5, Zenon
      <3> QED
        BY <1>5, <3>1, <3>2
    <2>7. Login \in Seq(UnitType) /\ PlayServer(0) \in Seq(UnitType)
      BY <1>1, <2>6, LoginTyped, SmallPackets
    <2>8. Login \o PlayServer(0) \in Seq(UnitType)
      BY <2>7, Added
    <2>9. /\ written' \in [Peers -> Seq(UnitType)]
          /\ written'["server"] = Login \o PlayServer(0)
          /\ written'["client"] = OwnServerList
      <3>1. written \in [Peers -> Seq(UnitType)]
        BY <1>1, Zenon DEF TypeOK
      <3> QED
        BY <1>4, <1>5, <2>0, <2>8, <3>1, Zenon
    <2>10. Upstream'
      <3>1. SubSeq(arrived["client"], Taken + 1, read["client"]) = <<>>
        BY <1>5, <2>6, SubSeqEmpty
      <3>2. (Login \o PlayServer(0)) \o <<>> = Login \o PlayServer(0)
        BY <2>8, ConcatEmptySeq
      <3>3. Login' = Login /\ PlayServer(0)' = PlayServer(0)
        BY <2>0, Zenon DEF Login, Extended, Unit, PlayServer
      <3>4. Taken' <= read'["client"]
        BY <1>5, <2>4, <2>5, <2>6
      <3> QED
        BY <1>5, <2>0, <2>4, <2>5, <2>9, <3>1, <3>2, <3>3, <3>4, Zenon DEF Upstream
    <2>11. Downstream'
      <3>1. SubSeq(arrived["server"], n + 1, n) = <<>>
        BY SubSeqEmpty
      <3>2. OwnServerList \o <<>> = OwnServerList
        BY <1>1, OwnListTyped, ConcatEmptySeq DEF TypeOK
      <3>3. Sent("server")' = Sent("server")
        BY <2>0, Zenon DEF Sent
      <3>4. n \in 2..n
        BY <2>1
      <3> QED
        BY <1>5, <2>0, <2>1, <2>4, <2>5, <2>9, <3>1, <3>2, <3>3, <3>4, Zenon DEF Downstream
    <2>12. outgoing_address' # Null => Chosen'
      BY <1>5, <2>0, <2>9, ChosenStays, Zenon
    <2>13. HandlerInv'
      BY <2>0, <2>10, <2>11, <2>12, Zenon DEF HandlerInv, ConformingNotDropped
    <2>14. state' \in States
      BY <2>0, Zenon DEF States
    <2> QED
      BY <1>1, <1>3, <2>0, <2>4, <2>9, <2>13, <2>14, HandlerStep, Zenon DEF TypeOK
  <1>12. CASE ~ServerListOk(packet)
    <2>1. Drop
      BY <1>2, <1>12, Zenon
    <2>2. torn \/ ~ServerConforms
      <3> SUFFICES ASSUME ServerConforms
                   PROVE  torn
        OBVIOUS
      <3>1. Cmd(s[1]) = "ServerList" /\ (k >= 2 => Arg(s[2]) >= 3)
        BY <1>10
      <3>2. PICK n \in Nat : /\ n >= 2 /\ (k >= 2 => s[2][3] = <<n>>) /\ (k < n => torn)
        BY <1>8, <3>1, Zenon
      <3>3. CASE k < n
        BY <3>2, <3>3
      <3>4. CASE k >= n
        <4>1. k >= 2
          BY <1>6, <3>2, <3>4
        <4>2. Arg(s[2]) = n /\ packet[2] = s[2]
          BY <1>7, <3>2, <4>1 DEF Arg
        <4>3. n >= 3 /\ k >= 2 + (n - 2)
          BY <1>6, <3>1, <3>4, <4>1, <4>2
        <4> QED
          BY <1>9, <1>12, <3>1, <4>1, <4>2, <4>3, Zenon
      <3> QED
        BY <1>6, <3>2, <3>3, <3>4
    <2> QED
      BY <1>3, <2>1, <2>2, DropStep, Zenon
  <1> QED
    BY <1>11, <1>12

\* What is forwarded is appended to what was forwarded.
LEMMA ForwardedOn ==
  ASSUME NEW head \in Seq(UnitType), NEW s \in Seq(UnitType), NEW r \in 0..Len(s),
         NEW k \in 0..r, NEW n \in 1..(Len(s) - r)
  PROVE  /\ SubSeq(SubSeq(s, r + 1, Len(s)), 1, n) \in Seq(UnitType)
         /\ (head \o SubSeq(s, k + 1, r)) \o SubSeq(SubSeq(s, r + 1, Len(s)), 1, n) =
               head \o SubSeq(s, k + 1, r + n)
  <1> DEFINE a == SubSeq(s, k + 1, r)
             t == SubSeq(s, r + 1, Len(s))
             b == SubSeq(t, 1, n)
  <1>1. a \in Seq(UnitType) /\ t \in Seq(UnitType)
    BY SubSeqProperties
  <1>2. Len(t) = Len(s) - r
    <2>1. \A i \in (r + 1)..Len(s) : s[i] \in UnitType
      OBVIOUS
    <2>2. Len(t) = IF r + 1 <= Len(s) THEN Len(s) - (r + 1) + 1 ELSE 0
      BY <2>1, SubSeqProperties
    <2> HIDE DEF t
    <2> QED
      BY <2>2
  <1>3. b \in Seq(UnitType)
    <2> HIDE DEF t
    <2>1. \A i \in 1..n : t[i] \in UnitType
      BY <1>1, <1>2
    <2> QED
      BY <2>1, SubSeqProperties
  <1>4. a \o b = SubSeq(s, k + 1, r + n)
    BY ReadOn
  <1> HIDE DEF a, b
  <1>5. (head \o a) \o b = head \o (a \o b)
    BY ONLY <1>1, <1>3, head \in Seq(UnitType)
  <1> QED
    BY <1>3, <1>4, <1>5, Zenon DEF a, b

\* Data of the READY state.
LEMMA ForwardStep ==
  ASSUME SessionInv, NEW p \in Peers, Forward(p)
  PROVE  SessionInv'
  <1> DEFINE s == arrived[p]
             r == read[p]
  <1>1. TypeOK /\ HandlerInv
    BY Zenon DEF SessionInv
  <1>2. PICK n \in 1..Len(Available(p)) :
           /\ read' = [read EXCEPT ![p] = @ + n]
           /\ written' = [written EXCEPT ![Peer(p)] = @ \o SubSeq(Available(p), 1, n)]
    BY Zenon DEF Forward
  <1>3. /\ state = "READY" /\ state' = state /\ outgoing_address' = outgoing_address
        /\ UNCHANGED <<configVars, arrived, rest, torn>> /\ UNCHANGED configVars
        /\ arrived' = arrived /\ rest' = rest /\ config' = config
    BY Zenon DEF Forward, configVars
  <1>4. phase = "running"
    BY <1>3, Running
  <1>5. /\ s \in Seq(UnitType) /\ r \in Nat /\ Len(s) \in Nat /\ r <= Len(s)
        /\ Len(Available(p)) = Len(s) - r /\ Available(p) = SubSeq(s, r + 1, Len(s))
    BY <1>1, StreamsTyped, AvailableFacts, Zenon DEF Available
  <1> DEFINE x == SubSeq(Available(p), 1, n)
  <1>6. r \in 0..Len(s) /\ n \in 1..(Len(s) - r) /\ r + n \in Nat /\ r + n <= Len(s)
    <2> HIDE DEF s, r
    <2> QED
      BY <1>5
  <1>7. /\ x \in Seq(UnitType)
        /\ \A h \in Seq(UnitType), k \in 0..r :
              (h \o SubSeq(s, k + 1, r)) \o x = h \o SubSeq(s, k + 1, r + n)
    <2>1. x = SubSeq(SubSeq(s, r + 1, Len(s)), 1, n)
      BY <1>5, Zenon
    <2> HIDE DEF x, s, r
    <2>2. \A h \in Seq(UnitType), k \in 0..r :
             /\ x \in Seq(UnitType)
             /\ (h \o SubSeq(s, k + 1, r)) \o x = h \o SubSeq(s, k + 1, r + n)
      BY <1>5, <1>6, <2>1, ForwardedOn, Zenon
    <2>3. <<>> \in Seq(UnitType) /\ 0 \in 0..r
      BY <1>5
    <2> QED
      BY <2>2, <2>3, Zenon
  <1>8. /\ HasList' = HasList /\ OwnServerList' = OwnServerList /\ Taken' = Taken
        /\ Taken = (IF HasList THEN 4 ELSE 2)
    BY <1>3, SettingsStay, Zenon
  <1>9. /\ Login' = Login /\ PlayServer(0)' = PlayServer(0)
        /\ Sent("server")' = Sent("server")
    BY <1>3, Zenon DEF Login, Extended, Unit, PlayServer, Sent
  <1>10. Upstream /\ Downstream
    BY <1>1, <1>3, Zenon DEF HandlerInv
  <1>11. /\ read \in [Peers -> Nat] /\ (\A q \in Peers : read[q] <= Len(arrived[q]))
         /\ written \in [Peers -> Seq(UnitType)] /\ \A q \in Peers : written[q] \in Seq(UnitType)
    BY <1>1, Zenon DEF TypeOK
  <1> HIDE DEF x
  <1>12. Peer(p) \in Peers /\ written' = [written EXCEPT ![Peer(p)] = @ \o x]
    BY <1>2, Zenon DEF Peer, Peers, x
  <1>13. /\ read' \in [Peers -> Nat] /\ read'[p] = r + n
         /\ \A q \in Peers \ {p} : read'[q] = read[q]
    BY <1>2, <1>6, <1>11, Zenon
  <1>14. \A q \in Peers : read'[q] <= Len(arrived[q])
    BY <1>6, <1>11, <1>13, Zenon
  <1>15. written[Peer(p)] \o x \in Seq(UnitType)
    BY <1>7, <1>11, <1>12, Added
  <1>16. /\ written' \in [Peers -> Seq(UnitType)] /\ written'[Peer(p)] = written[Peer(p)] \o x
         /\ \A q \in Peers \ {Peer(p)} : written'[q] = written[q]
    BY <1>11, <1>12, <1>15, Zenon
  <1>17. CASE p = "client"
    <2>1. /\ written'["client"] = written["client"] /\ read'["server"] = read["server"]
          /\ written'["server"] = written["server"] \o x
      BY <1>13, <1>16, <1>17, Zenon DEF Peer, Peers
    <2>2. Upstream'
      <3> DEFINE play == IF HasList THEN PlayServer(0) ELSE <<>>
                 h == Login \o play
      <3>1. Taken \in 0..r
        <4>1. Taken <= r
          BY <1>10, <1>17, Zenon DEF Upstream
        <4> HIDE DEF r
        <4> QED
          BY <1>5, <1>8, <4>1
      <3>2. Len(arrived["client"]) >= 2
        <4>1. Len(s) >= 2
          <5> HIDE DEF s, r
          <5> QED
            BY <1>5, <1>8, <3>1
        <4> QED
          BY <4>1, <1>17, Zenon
      <3>3. Login \in Seq(UnitType) /\ play \in Seq(UnitType)
        BY <1>1, <3>2, LoginTyped, SmallPackets
      <3>4. h \in Seq(UnitType)
        <4> HIDE DEF play
        <4> QED
          BY <3>3, Added
      <3>5. written["server"] = h \o SubSeq(s, Taken + 1, r)
        BY <1>10, <1>17, Zenon DEF Upstream
      <3> HIDE DEF h
      <3>6. written'["server"] = h \o SubSeq(s, Taken + 1, r + n)
        BY <1>7, <2>1, <3>1, <3>4, <3>5, Zenon
      <3>7. Taken <= r + n
        <4> HIDE DEF r
        <4> QED
          BY <1>5, <3>1
      <3> QED
        BY <1>3, <1>8, <1>9, <1>13, <1>17, <3>6, <3>7, Zenon DEF Upstream, h
    <2>3. Downstream'
      BY <1>3, <1>8, <1>9, <1>10, <2>1 DEF Downstream
    <2>4. outgoing_address' # Null => Chosen'
      BY <1>3, <2>1, ChosenStays, Zenon
    <2>5. HandlerInv'
      BY <1>3, <2>2, <2>3, <2>4, Zenon DEF HandlerInv, ConformingNotDropped
    <2> QED
      BY <1>1, <1>3, <1>4, <1>13, <1>14, <1>16, <2>5, HandlerStep, Zenon DEF TypeOK
  <1>18. CASE p = "server"
    <2>1. /\ written'["server"] = written["server"] /\ read'["client"] = read["client"]
          /\ written'["client"] = written["client"] \o x
          /\ written["client"] \in Seq(UnitType)
      BY <1>11, <1>13, <1>16, <1>18, Zenon DEF Peer, Peers
    <2>2. Upstream'
      BY <1>3, <1>8, <1>9, <1>10, <2>1, Zenon DEF Upstream
    <2>3. Downstream'
      <3>1. CASE HasList
        <4>1. PICK k \in 2..r :
                 /\ ListOf(Sent("server"), k)
                 /\ written["client"] = OwnServerList \o SubSeq(s, k + 1, r)
          BY <1>10, <1>18, <3>1, Zenon DEF Downstream
        <4>2. k \in 0..r /\ k \in 2..(r + n)
          <5> HIDE DEF r, s
          <5> QED
            BY <1>5, <1>6
        <4>3. OwnServerList \in Seq(UnitType)
          BY <1>1, OwnListTyped, Zenon DEF TypeOK
        <4>4. written'["client"] = OwnServerList \o SubSeq(s, k + 1, r + n)
          BY <1>7, <2>1, <4>1, <4>2, <4>3, Zenon
        <4> QED
          BY <1>3, <1>8, <1>9, <1>13, <1>18, <3>1, <4>1, <4>2, <4>4, Zenon DEF Downstream
      <3>2. CASE ~HasList
        <4>1. written["client"] = SubSeq(s, 0 + 1, r) /\ 0 + 1 = 1 /\ 0 \in 0..r
          BY <1>5, <1>10, <1>18, <3>2 DEF Downstream
        <4>2. (<<>> \o SubSeq(s, 0 + 1, r)) \o x = <<>> \o SubSeq(s, 0 + 1, r + n)
          <5>1. <<>> \in Seq(UnitType)
            OBVIOUS
          <5> QED
            BY <1>7, <4>1, <5>1, Zenon
        <4>3. <<>> \o SubSeq(s, 0 + 1, r) = SubSeq(s, 0 + 1, r)
          BY <2>1, <4>1, ConcatEmptySeq
        <4>4. SubSeq(s, 0 + 1, r + n) \in Seq(UnitType)
          <5> HIDE DEF r, s
          <5> QED
            BY <1>5, <1>6, SubSeqProperties
        <4>5. <<>> \o SubSeq(s, 0 + 1, r + n) = SubSeq(s, 0 + 1, r + n)
          BY <4>4, ConcatEmptySeq
        <4>6. written'["client"] = SubSeq(s, 1, r + n)
          BY <2>1, <4>1, <4>2, <4>3, <4>5, Zenon
        <4> QED
          BY <1>3, <1>8, <1>13, <1>18, <3>2, <4>6, Zenon DEF Downstream
      <3> QED
        BY <3>1, <3>2
    <2>4. outgoing_address' # Null => Chosen'
      <3>1. Len(written["client"]) >= 1 =>
               Len(written'["client"]) >= 1 /\ written'["client"][1] = written["client"][1]
        <4> DEFINE w == written["client"]
                   v == w \o x
        <4>1. /\ Len(w) \in Nat /\ Len(x) \in Nat /\ Len(v) = Len(w) + Len(x)
              /\ \A i \in 1..Len(w) : v[i] = w[i]
          BY <1>7, <2>1, Added, Zenon
        <4> HIDE DEF w, v
        <4>2. Len(w) >= 1 => Len(v) >= 1 /\ v[1] = w[1]
          BY <4>1
        <4> QED
          BY <2>1, <4>2, Zenon DEF w, v
      <3> QED
        BY <1>3, <3>1, ChosenStays, Zenon
    <2>5. HandlerInv'
      BY <1>3, <2>2, <2>3, <2>4, Zenon DEF HandlerInv, ConformingNotDropped
    <2> QED
      BY <1>1, <1>3, <1>4, <1>13, <1>14, <1>16, <2>5, HandlerStep, Zenon DEF TypeOK
  <1> QED
    BY <1>17, <1>18, Zenon DEF Peers

-----------------------------------------------------------------------------
(***************************************************************************)
(* The invariant is inductive.                                             *)
(***************************************************************************)

\* A step in which nothing happens.
LEMMA StutterStep ==
  ASSUME SessionInv, UNCHANGED vars
  PROVE  SessionInv'
  <1>1. /\ UNCHANGED configVars /\ phase' = phase /\ config' = config /\ state' = state
        /\ arrived' = arrived /\ rest' = rest /\ read' = read /\ written' = written
        /\ outgoing_address' = outgoing_address /\ torn' = torn
    BY Zenon DEF vars, configVars, sessionVars, streams
  <1>2. TypeOK'
    BY <1>1, SettingsStay, Zenon DEF SessionInv, TypeOK
  <1>3. StreamsInv'
    <2>1. Sent("client")' = Sent("client") /\ Sent("server")' = Sent("server")
      BY <1>1, Zenon DEF Sent
    <2>2. phase' # "running" => Fresh'
      BY <1>1, Zenon DEF SessionInv, StreamsInv, Fresh, Blank, Peers
    <2>3. \A p \in Peers : rest'[p] # <<>> => torn'
      BY <1>1 DEF SessionInv, StreamsInv
    <2> QED
      BY <2>1, <2>2, <2>3, Zenon DEF SessionInv, StreamsInv
  <1>4. HandlerInv'
    <2>1. /\ HasList' = HasList /\ OwnServerList' = OwnServerList
          /\ Taken' = Taken /\ Greeting' = Greeting /\ InitialSize' = InitialSize
      BY <1>1, SettingsStay, Zenon DEF InitialSize, Seed, AccountLogin, Unit
    <2>2. Login' = Login /\ PlayServer(0)' = PlayServer(0) /\ Sent("server")' = Sent("server")
      BY <1>1, Zenon DEF Login, Extended, Unit, PlayServer, Sent
    <2>3. HandlerInv
      BY Zenon DEF SessionInv
    <2>4. state' = "READY" => Upstream' /\ Downstream'
      BY <1>1, <2>1, <2>2, <2>3 DEF HandlerInv, Upstream, Downstream
    <2>5. outgoing_address' # Null => Chosen'
      BY <1>1, ChosenStays, Zenon
    <2>6. ConformingNotDropped'
      <3>1. ClientConforms' <=> ClientConforms
        BY <1>1, Zenon DEF ClientConforms, Cmd, Arg, HasList, InitialSize, Seed, AccountLogin, Unit
      <3>2. ServerConforms' <=> ServerConforms
        BY <1>1, Zenon DEF ServerConforms, Cmd, Arg, ServerListMin
      <3> QED
        BY <1>1, <2>3, <3>1, <3>2, Zenon DEF HandlerInv, ConformingNotDropped
    <2> QED
      BY <1>1, <2>1, <2>2, <2>3, <2>4, <2>5, <2>6 DEF HandlerInv, Unanswered
  <1> QED
    BY <1>1, <1>2, <1>3, <1>4, SettingsStay, Zenon DEF SessionInv

\* Every step keeps it.
LEMMA NextStep ==
  ASSUME SessionInv, [Next]_vars
  PROVE  SessionInv'
  <1>1. CASE Start
    BY <1>1, StartStep
  <1>2. CASE ClientSends \/ ServerSends
    BY <1>2, PeersStep
  <1>3. CASE \E p \in Peers : RestArrives(p)
    BY <1>3, RestStep
  <1>4. CASE OnReady
    BY <1>4, LoginPartStep, LoginPacketsStep, PlayServerStep, EarlyStep, ServerListStep,
       ForwardStep, Zenon DEF OnReady
  <1>5. CASE OnCheckCredentials
    BY <1>5, CheckStep, Zenon
  <1>6. CASE OnSocketConnectSuccess
    BY <1>6, ConnectStep, Zenon
  <1>7. CASE Dies
    BY <1>7, CloseStep, Zenon DEF Dies
  <1>8. CASE UNCHANGED vars
    BY <1>8, StutterStep
  <1> QED
    BY <1>1, <1>2, <1>3, <1>4, <1>5, <1>6, <1>7, <1>8, Zenon DEF Next

\* So it always holds.
LEMMA AlwaysSession == Spec => []SessionInv
  <1>1. SessionInv /\ [Next]_vars => SessionInv'
    BY NextStep
  <1> QED
    BY InitInv, <1>1, PTL DEF Spec

-----------------------------------------------------------------------------
(***************************************************************************)
(* What follows from it.                                                   *)
(***************************************************************************)

\* What the game server has been sent.
LEMMA UpstreamFollows ==
  ASSUME SessionInv
  PROVE  UpstreamExact
  <1>1. HandlerInv /\ state \in States
    BY Zenon DEF SessionInv, TypeOK
  <1> DEFINE play == IF HasList THEN PlayServer(0) ELSE <<>>
  <1>2. state = "READY" => written["server"] = Login \o play \o ClientGame
    BY <1>1, Zenon DEF HandlerInv, Upstream, ClientGame, Taken
  <1>3. state = "SEND_PLAY_SERVER" => written["server"] = Login
    BY <1>1, Zenon DEF HandlerInv
  <1>4. state \notin {"SEND_PLAY_SERVER", "READY", "dropped"} => written["server"] = <<>>
    BY <1>1, Zenon DEF HandlerInv, Unanswered, States, Ended
  <1> QED
    BY <1>2, <1>3, <1>4, Zenon DEF UpstreamExact, Login

\* What the client has been sent.
LEMMA DownstreamFollows ==
  ASSUME SessionInv
  PROVE  DownstreamExact
  <1> DEFINE s == arrived["server"]
             r == read["server"]
             all == SubSeq(s, 1, r)
  <1> SUFFICES ASSUME state = "READY"
               PROVE  IF HasList
                      THEN \E n \in 0..Len(all) :
                              /\ \A i \in DOMAIN all : Cmd(all[i]) = "ServerList" <=> i <= n
                              /\ written["client"] = OwnServerList \o SubSeq(all, n + 1, Len(all))
                      ELSE written["client"] = all
    BY Zenon DEF DownstreamExact
  <1>1. Downstream /\ TypeOK
    BY Zenon DEF SessionInv, HandlerInv
  <1>2. CASE ~HasList
    BY <1>1, <1>2, Zenon DEF Downstream
  <1>3. CASE HasList
    <2>1. PICK n \in 2..r : /\ ListOf(Sent("server"), n)
                            /\ written["client"] = OwnServerList \o SubSeq(s, n + 1, r)
      BY <1>1, <1>3, Zenon DEF Downstream
    <2>2. /\ s \in Seq(UnitType) /\ r \in Nat /\ Len(s) \in Nat /\ r <= Len(s)
          /\ \A i \in 1..Len(s) : Sent("server")[i] = s[i]
          /\ Len(Sent("server")) \in Nat /\ Len(Sent("server")) >= Len(s)
      BY <1>1, StreamsTyped, SentFacts, Zenon DEF Peers
    <2> DEFINE t == Sent("server")
    <2>3. \A i \in 1..Len(t) : Cmd(t[i]) = "ServerList" <=> i <= n
      BY <2>1, Zenon DEF ListOf
    <2> HIDE DEF s, r, t
    <2>4. \A i \in 1..r : s[i] \in UnitType
      BY <2>2
    <2>5. /\ all \in Seq(UnitType) /\ Len(all) = (IF 1 <= r THEN r - 1 + 1 ELSE 0)
          /\ \A i \in 1..(r - 1 + 1) : all[i] = s[1 + i - 1]
      BY <2>2, <2>4, SubSeqProperties
    <2> HIDE DEF all
    <2>6. Len(all) = r /\ DOMAIN all = 1..r
      BY <2>2, <2>5
    <2>7. \A i \in 1..r : all[i] = s[i]
      BY <2>2, <2>5
    <2>8. Extends(s, all)
      BY <2>2, <2>6, <2>7 DEF Extends
    <2>9. n + 1 \in Nat \ {0} /\ r \in 0..Len(all) /\ n \in 0..Len(all)
      BY <2>2, <2>6
    <2>10. SubSeq(s, n + 1, r) = SubSeq(all, n + 1, r)
      BY <2>2, <2>5, <2>8, <2>9, SubSeqExtended, Zenon
    <2>11. \A i \in 1..r : i \in 1..Len(t) /\ t[i] = s[i]
      BY <2>2 DEF t
    <2>12. \A i \in DOMAIN all : Cmd(all[i]) = "ServerList" <=> i <= n
      BY <2>3, <2>6, <2>7, <2>11, Zenon
    <2> QED
      BY <1>3, <2>1, <2>6, <2>9, <2>10, <2>12, Zenon
  <1> QED
    BY <1>2, <1>3

\* Where the client has been connected to.
LEMMA ServerFollows ==
  ASSUME SessionInv
  PROVE  RightServer
  <1> SUFFICES ASSUME outgoing_address # Null
               PROVE  RightServer
    BY Zenon DEF RightServer
  <1> DEFINE list == config.server_list
             c == arrived["client"]
  <1>1. Chosen /\ ConfigInv /\ config \in ConfigRecord /\ ParsedAsWritten
    BY SettingsWritten, Zenon DEF SessionInv, TypeOK, HandlerInv
  <1>2. PICK f \in Numberings : Lists(f)
    BY <1>1, Zenon DEF ConfigInv
  <1>3. list \in Seq([name : Names, address : Addresses]) /\ DOMAIN config = Options \cup {"server_list"}
    <2>1. config["server_list"] \in Seq([name : Names, address : Addresses])
          /\ DOMAIN config = Options \cup {"server_list"}
      BY <1>1, ConfigFields DEF FieldsOk
    <2> QED
      BY <2>1
  <1>4. /\ DOMAIN f = DOMAIN list
        /\ \A i \in DOMAIN f : list[i] = Server(lines[f[i]].name, lines[f[i]].value)
    BY <1>2, Zenon DEF Lists
  <1>5. /\ \A i \in DOMAIN f : f[i] \in NamedAt
        /\ \A k \in NamedAt : \E i \in DOMAIN f : f[i] = k
    <2>1. PICK m \in 0..Len(lines) : f \in [1..m -> NamedAt]
      BY Enumerations, Zenon DEF Numberings
    <2>2. \A k \in NamedAt : \E i \in DOMAIN f : f[i] = k
      BY Enumerations DEF Numberings
    <2> QED
      BY <2>1, <2>2, Zenon
  <1>6. NamedAt = {} <=> ~HasList
    <2>1. NamedAt = {} <=> DOMAIN f = {}
      BY <1>5, Zenon
    <2>2. DOMAIN list = {} <=> list = <<>>
      <3> HIDE DEF list
      <3>1. DOMAIN list = 1..Len(list) /\ Len(list) \in Nat
        BY <1>3
      <3>2. list = <<>> => DOMAIN list = {}
        OBVIOUS
      <3>3. ASSUME DOMAIN list = {}
            PROVE  list = <<>>
        <4>1. Len(list) = 0
          BY <3>1, <3>3
        <4> QED
          BY <1>3, <4>1, EmptySeq
      <3> QED
        BY <3>2, <3>3
    <2> QED
      BY <1>4, <2>1, <2>2, Zenon DEF HasList
  <1>7. CASE ~HasList
    <2>1. outgoing_address = config.game_server
      BY <1>1, <1>7, Zenon DEF Chosen
    <2>2. config["game_server"] = LastValue("game_server", Defaults["game_server"])
      BY <1>1, <1>3 DEF ParsedAsWritten, Options
    <2>3. Defaults["game_server"] = Null /\ config["game_server"] = config.game_server
      BY DEF Defaults
    <2> QED
      BY <1>6, <1>7, <2>1, <2>2, <2>3, Zenon DEF RightServer
  <1>8. CASE HasList
    <2>1. PICK index \in 0..(Len(list) - 1) :
             c[4][3] = <<index>> /\ outgoing_address = list[index + 1].address
      BY <1>1, <1>8, Zenon DEF Chosen
    <2>2. written["client"][1] = OwnServerList[1]
      BY <1>1, <1>8, Zenon DEF Chosen
    <2>3. InitialSize + 2 = 4
      BY SmallPackets DEF InitialSize
    <2>4. Arg(c[InitialSize + 2]) = index
      BY <2>1, <2>3 DEF Arg
    <2> DEFINE k == index + 1
    <2>5. k \in DOMAIN list
      <3> HIDE DEF list
      <3> QED
        BY <1>3, <2>1
    <2>6. k \in DOMAIN f /\ list[k] = Server(lines[f[k]].name, lines[f[k]].value)
      BY <1>4, <2>5, Zenon
    <2>7. outgoing_address = lines[f[k]].value /\ list[k].name = lines[f[k]].name
      BY <2>1, <2>6 DEF Server
    <2>8. written["client"][1][3][k] = list[k].name
      <3>1. OwnServerList[1][3] = [i \in DOMAIN list |-> list[i].name]
        BY DEF OwnServerList, Unit
      <3> QED
        BY <2>2, <2>5, <3>1, Zenon
    <2> QED
      BY <1>2, <1>6, <1>8, <2>4, <2>6, <2>7, <2>8, Zenon DEF RightServer
  <1> QED
    BY <1>7, <1>8

-----------------------------------------------------------------------------
(***************************************************************************)
(* The theorems.                                                           *)
(***************************************************************************)

\* Every setting stays within its C++ type (a port is a uint16_t whatever
\* number the file gives), and no handler reads more than has arrived.
THEOREM TypeCorrect == Spec => []TypeOK
  <1>1. SessionInv => TypeOK
    BY Zenon DEF SessionInv
  <1> QED
    BY AlwaysSession, <1>1, PTL

\* MyConfigParser leaves the settings that the file means: the last line of an
\* option wins, and the server list is that of the named game_server lines.
THEOREM ConfigParsed == Spec => []ParsedAsWritten
  <1>1. SessionInv => ParsedAsWritten
    BY SettingsWritten, Zenon DEF SessionInv, TypeOK
  <1> QED
    BY AlwaysSession, <1>1, PTL

\* SendInitialPackets, SendPlayServer and the splice towards the game server
\* together send it exactly the stream of a client that talks to it directly.
THEOREM StreamUp == Spec => []UpstreamExact
  <1>1. SessionInv => UpstreamExact
    BY UpstreamFollows
  <1> QED
    BY AlwaysSession, <1>1, PTL

\* SendServerList, the Discard of ReceiveServerList and the splice towards the
\* client replace the server list of the game server and nothing else.
THEOREM StreamDown == Spec => []DownstreamExact
  <1>1. SessionInv => DownstreamExact
    BY DownstreamFollows
  <1> QED
    BY AlwaysSession, <1>1, PTL

\* ReceivePlayServer connects the client to the address that the file gives
\* for the name it was shown at the index it chose.
THEOREM RightServerChosen == Spec => []RightServer
  <1>1. SessionInv => RightServer
    BY ServerFollows
  <1> QED
    BY AlwaysSession, <1>1, PTL

\* No handler destroys a Connection for what it has read unless a peer left
\* the protocol or a PlayServer or ServerList packet came in pieces.
THEOREM OnlyMisfitsDropped == Spec => []ConformingNotDropped
  <1>1. SessionInv => ConformingNotDropped
    BY Zenon DEF SessionInv, HandlerInv
  <1> QED
    BY AlwaysSession, <1>1, PTL
=============================================================================
