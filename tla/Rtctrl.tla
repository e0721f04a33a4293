------------------------------- MODULE Rtctrl -------------------------------
(***************************************************************************)
(* The control program rtctrl and the commands it has the router carry     *)
(* out: from the command line, or the FIB file it names, to requests, to   *)
(* what the control server reads in them and does to the tables, to the    *)
(* replies.  Requests of one command are sent one after the other, each    *)
(* after the reply to the one before; in between, faces come and go and    *)
(* subscriptions arrive.  (Sessions, time limits and lost connections of   *)
(* the control port are in module CmdServer, what a face does until it is  *)
(* gone in Router.)                                                        *)
(*                                                                         *)
(* A command line is its command and its options, pairs of an option and   *)
(* a value, as every command refuses an odd number of arguments.  Numbers  *)
(* and the lists of a FIB file are sequences of characters, names are URIs *)
(* as in CdUri.                                                            *)
(***************************************************************************)
EXTENDS St, Fib, CdUri, FiniteSets

CONSTANTS
  CommandLines,   \* what the operator may type: a function to command lines
  MaxCommands,    \* bound on the commands typed
  Remotes,        \* endpoints [type, ip, port] of faces that come by themselves
  Self,           \* the router's own endpoint [ip, port]
  AddressOf,      \* what the resolver knows: a function from host names
  DefaultPort,    \* ROUTER_PORT of the configuration, as text
  SubCds,         \* CDs of subscriptions that arrive
  MaxFaces        \* bound on the faces ever created

(* What is typed, and what is written in a FIB file, comes in sequences.   *)
IsList(s) == s \in Seq(Range(s))

IsFile(file) ==
  /\ IsList(file.entries) /\ IsList(file.faces)
  /\ \A entry \in Range(file.entries) :
       entry.name \in Uris /\ IsList(entry.nextHops) /\ IsList(entry.costs)

IsCommandLine(command) ==
  /\ IsList(command.options)
  /\ \A option \in Range(command.options) : option[1] = "-f" => IsFile(option[2])

ASSUME RtctrlAssumption ==
  /\ MaxCommands \in Nat /\ MaxFaces \in Nat
  /\ \A l \in DOMAIN CommandLines : IsCommandLine(CommandLines[l])

VARIABLES
  line,       \* which command line is carried out, or was last
  typed,      \* how many have been typed
  requests,   \* m_requests
  responses,  \* m_responses, in the order of the requests
  outcome,    \* of rtctrl: "none", "asking", "shown", "usage" or "failed"
  alive,      \* no exception left the router's io_service::run
  connecting, \* CmdServer::m_connection for the request that waits
  faces,      \* FaceManager::m_faceTable: the remote endpoint of each face
  serial,     \* FaceManager::m_faceSerial
  closing,    \* faces that were told to shut down
  st, fib     \* the tables

program == <<line, typed, requests, outcome>>
router  == <<alive, connecting, faces, serial, closing, st, fib>>
vars    == <<program, responses, router>>

-----------------------------------------------------------------------------
(* Texts *)

Digits == <<"0", "1", "2", "3", "4", "5", "6", "7", "8", "9">>

IsNumber(text) == text # <<>> /\ \A i \in 1..Len(text) : text[i] \in Range(Digits)

ValueOf(text) ==
  FoldLeft(LAMBDA n, c : 10 * n + ((CHOOSE d \in 1..10 : Digits[d] = c) - 1), 0, text)

(* lexical_cast<uint16_t> of PORT.                                         *)
IsPort(text) == IsNumber(text) /\ ValueOf(text) < 2^16

(* remove_if moves what is not a blank to the front and erases nothing:    *)
(* as many characters as there were blanks stay behind at the end.         *)
Squeezed(csv) ==
  LET kept == FoldLeft(LAMBDA text, c : IF c = " " THEN text ELSE Append(text, c), <<>>, csv)
  IN  kept \o SubSeq(csv, Len(kept) + 1, Len(csv))

(* splitCsv: the items between the commas, none of which may be empty.     *)
SplitCsv(csv) ==
  FoldLeft(LAMBDA items, c :
             IF c = "," THEN Append(items, <<>>)
             ELSE [items EXCEPT ![Len(items)] = Append(@, c)],
           << <<>> >>, Squeezed(csv))


-----------------------------------------------------------------------------
(* Parameters of a request: a map from keys to values. *)

NoParam == [k \in {} |-> ""]
Illegal == [ILLEGAL |-> ""]
IsParam(param) == "ILLEGAL" \notin DOMAIN param

With(param, new) ==
  IF IsParam(param) /\ IsParam(new)
  THEN [k \in DOMAIN param \cup DOMAIN new |-> IF k \in DOMAIN new THEN new[k] ELSE param[k]]
  ELSE Illegal

(* setParamName: the name is parsed and printed again.                     *)
ParamName(uri) == IF IsLegal(uri) THEN [NAME |-> ToUri(CdOf(uri))] ELSE Illegal

(* Mutant: TYPE is passed on as it was typed.                              *)
ParamTypeAsTyped(type) == IF type \in {"tcp", "TCP", "udp", "UDP"} THEN [TYPE |-> type] ELSE Illegal

ParamType(type) ==
  CASE type \in {"tcp", "TCP"} -> [TYPE |-> "tcp"]
    [] type \in {"udp", "UDP"} -> [TYPE |-> "udp"]
    [] OTHER -> Illegal

(* getIpPort of a text split at its colons: a host and the ports that      *)
(* follow it.  That of `host:' is empty, and not the default port.         *)
PortOf(remote) == IF remote.ports = <<>> THEN DefaultPort ELSE remote.ports[1]

(* A host that is no address is resolved, together with its port if it has *)
(* one, and no host is called host:port.                                   *)
ParamRemote(remote) ==
  CASE Len(remote.ports) > 1 -> Illegal
    [] Len(remote.ports) <= 1 /\ remote.isAddress -> [IP |-> remote.host, PORT |-> PortOf(remote)]
    [] remote.ports = <<>> /\ ~remote.isAddress /\ remote.host \in DOMAIN AddressOf ->
         [IP |-> AddressOf[remote.host], PORT |-> PortOf(remote)]
    [] OTHER -> Illegal

ParamCost(cost)   == IF IsNumber(cost) THEN [COST |-> cost] ELSE Illegal
ParamFaceID(id)   == IF IsNumber(id) THEN [FACE |-> id] ELSE Illegal

ParamOf(option) ==
  CASE option[1] = "-n" -> ParamName(option[2])
    [] option[1] = "-t" -> ParamType(option[2])
    [] option[1] = "-r" -> ParamRemote(option[2])
    [] option[1] = "-c" -> ParamCost(option[2])
    [] option[1] = "-i" -> ParamFaceID(option[2])
    [] OTHER -> Illegal

(* The loop over argv: options in any order.  An option that occurs twice  *)
(* leaves fewer parameters than there must be.                             *)
ParamsOf(options) == FoldLeft(LAMBDA param, option : With(param, ParamOf(option)), NoParam, options)

-----------------------------------------------------------------------------
(* From the command line to requests; there are none if it is refused. *)

Request(cmd, param) == [cmd |-> cmd, param |-> param]
RequestIf(cmd, options, keys) ==
  IF DOMAIN ParamsOf(options) = keys THEN <<Request(cmd, ParamsOf(options))>> ELSE <<>>

(* findTypeRemote: the first face of that id in the file.                  *)
FileFace(file, id) ==
  file.faces[CHOOSE i \in DOMAIN file.faces :
               /\ file.faces[i].id = id
               /\ \A j \in 1..i-1 : file.faces[j].id # id]

FileParam(file, entry, id, cost) ==
  IF \E i \in DOMAIN file.faces : file.faces[i].id = id
  THEN ParamsOf(<< <<"-n", entry.name>>, <<"-t", FileFace(file, id).protocol>>,
                   <<"-r", FileFace(file, id).remote>>, <<"-c", cost>> >>)
  ELSE Illegal

NextHopsIn(entry) == SplitCsv(entry.nextHops)
CostsIn(entry)    == SplitCsv(entry.costs)

EntryIsSplit(entry) ==
  /\ Len(NextHopsIn(entry)) = Len(CostsIn(entry))
  /\ \A item \in Range(NextHopsIn(entry)) \cup Range(CostsIn(entry)) : item # <<>>

EntryParams(file, entry) ==
  [i \in DOMAIN NextHopsIn(entry) |->
     FileParam(file, entry, NextHopsIn(entry)[i], CostsIn(entry)[i])]

FileParams(file) ==
  FoldLeft(LAMBDA params, entry :
             params \o IF EntryIsSplit(entry) THEN EntryParams(file, entry) ELSE <<Illegal>>,
           <<>>, file.entries)

(* Mutant: the routes of the file are added to those there are.            *)
FileRequestsAdded(file) ==
  IF FileParams(file) # <<>> /\ \A i \in DOMAIN FileParams(file) : IsParam(FileParams(file)[i])
  THEN [i \in DOMAIN FileParams(file) |-> Request("FIB-ADD", FileParams(file)[i])]
  ELSE <<>>

(* parseFromFile: the whole file is read before anything is sent.          *)
FileRequests(file) ==
  IF FileParams(file) # <<>> /\ \A i \in DOMAIN FileParams(file) : IsParam(FileParams(file)[i])
  THEN <<Request("FIB-DEL", NoParam)>>
         \o [i \in DOMAIN FileParams(file) |-> Request("FIB-ADD", FileParams(file)[i])]
  ELSE <<>>

AddRequests(options) == RequestIf("FIB-ADD", options, {"NAME", "TYPE", "IP", "PORT", "COST"})

FibAddRequests(options) ==
  CASE Len(options) = 1 /\ options[1][1] = "-f" -> FileRequests(options[1][2])
    [] Len(options) = 4 -> AddRequests(options)
    [] OTHER -> <<>>

DelNameRequests(options) == RequestIf("FIB-DEL", options, {"NAME"})
DelHopRequests(options)  == RequestIf("FIB-DEL", options, {"NAME", "TYPE", "IP", "PORT"})

FibDelRequests(options) ==
  CASE options = <<>> -> <<Request("FIB-DEL", NoParam)>>
    [] Len(options) = 1 -> DelNameRequests(options)
    [] Len(options) = 3 -> DelHopRequests(options)
    [] OTHER -> <<>>

FaceDelRequests(options) ==
  IF Len(options) = 1 THEN RequestIf("FACE-DEL", options, {"FACE"}) ELSE <<>>

(* Commands without options. *)
Bare(options, cmds) ==
  IF options = <<>> THEN [i \in DOMAIN cmds |-> Request(cmds[i], NoParam)] ELSE <<>>

StDelRequests(options)    == Bare(options, <<"ST-DEL">>)
StDumpRequests(options)   == Bare(options, <<"ST-DUMP", "FACE-DUMP">>)
FibDumpRequests(options)  == Bare(options, <<"FIB-DUMP", "FACE-DUMP">>)
FaceDumpRequests(options) == Bare(options, <<"FACE-DUMP">>)

RequestsOf(command) ==
  CASE command.cmd = "fibadd"   -> FibAddRequests(command.options)
    [] command.cmd = "fibdel"   -> FibDelRequests(command.options)
    [] command.cmd = "stdel"    -> StDelRequests(command.options)
    [] command.cmd = "facedel"  -> FaceDelRequests(command.options)
    [] command.cmd = "stdump"   -> StDumpRequests(command.options)
    [] command.cmd = "fibdump"  -> FibDumpRequests(command.options)
    [] command.cmd = "facedump" -> FaceDumpRequests(command.options)
    [] OTHER -> <<>>

-----------------------------------------------------------------------------
(* Dumps, one line per entry or face.  The next hops of an entry are       *)
(* printed as (id,cost) or (id,expiry): the items of a line are what comes *)
(* to stand between its "(" and ",", so an id is a number by itself and    *)
(* what follows it has the ")" at its end.                                 *)

Number(n) == [number |-> TRUE, n |-> n]
Closed(n) == [number |-> FALSE, n |-> n]
Date      == 0

FibHopToString(id, cost) == {Number(id), Closed(cost)}
StHopToString(id)        == {Number(id), Closed(Date)}

FibEntryToString(cd) ==
  [cd |-> cd, items |-> UNION {FibHopToString(id, fib[cd][id]) : id \in DOMAIN fib[cd]}]
StEntryToString(cd) ==
  [cd |-> cd, items |-> UNION {StHopToString(id) : id \in DOMAIN st[cd]}]
FaceToString(id) == [id |-> id, remote |-> faces[id]]

FibLines  == {FibEntryToString(cd) : cd \in DOMAIN fib}
StLines   == {StEntryToString(cd) : cd \in DOMAIN st}
FaceLines == {FaceToString(id) : id \in DOMAIN faces}

-----------------------------------------------------------------------------
(* rtctrl *)

FirstSerial == 100

Init ==
  /\ line = "none"
  /\ typed = 0 /\ requests = <<>> /\ responses = <<>> /\ outcome = "none"
  /\ alive = TRUE /\ connecting = FALSE /\ closing = {}
  /\ faces = [f \in {} |-> {}] /\ serial = FirstSerial
  /\ st = EmptyTable /\ fib = EmptyTable

(* parse and connect.                                                      *)
Start(l) ==
  /\ outcome # "asking"
  /\ typed < MaxCommands
  /\ line' = l
  /\ typed' = typed + 1
  /\ requests' = RequestsOf(CommandLines[l])
  /\ responses' = <<>>
  /\ outcome' = IF RequestsOf(CommandLines[l]) = <<>> THEN "usage"
                ELSE IF alive THEN "asking" ELSE "failed"
  /\ UNCHANGED router

(* The last reply has come, or the router ended before it.                 *)
Finish ==
  /\ outcome = "asking"
  /\ \/ Len(responses) = Len(requests) /\ outcome' = "shown"
     \/ ~alive /\ outcome' = "failed"
  /\ UNCHANGED <<line, typed, requests, responses, router>>

-----------------------------------------------------------------------------
(* The control server, for the request that waits for its reply. *)

Waiting == outcome = "asking" /\ alive /\ Len(responses) < Len(requests)
Asked   == requests[Len(responses) + 1]

(* The reply as setHeader and receiveBody read it. *)
Answer(result, reason, body) ==
  responses' = Append(responses, [result |-> result, reason |-> reason, body |-> body])
SendOk          == Answer("OK", "", {})
SendErr(reason) == Answer("ERR", reason, {})

FacesTo(r) == {f \in DOMAIN faces : faces[f] = r}

(* Mutant: the table of faces is walked from its end.                      *)
FindNewest(r) == CHOOSE f \in FacesTo(r) : \A g \in FacesTo(r) : f >= g

Find(r) == CHOOSE f \in FacesTo(r) : \A g \in FacesTo(r) : f <= g

Remote(param) == [type |-> param.TYPE, ip |-> param.IP, port |-> ValueOf(param.PORT)]
IsSelf(r)     == Self = [ip |-> r.ip, port |-> r.port]

HasArgs(param, keys) == keys \subseteq DOMAIN param
LegalType(param) == param.TYPE \in {"tcp", "udp"}

(* The arguments of every command that has some are looked for by key.  To *)
(* FIB-DEL an empty port is one that is missing, to FIB-ADD it is not.     *)
AddArgs(param) == HasArgs(param, {"NAME", "TYPE", "IP", "PORT", "COST"}) /\ LegalType(param)

DelArgs(param) ==
  \/ DOMAIN param \in {{}, {"NAME"}}
  \/ HasArgs(param, {"NAME", "TYPE", "IP", "PORT"}) /\ LegalType(param) /\ param.PORT # <<>>

FaceArgs(param) == HasArgs(param, {"FACE"})

Understood ==
  /\ Asked.cmd = "FIB-ADD"  => AddArgs(Asked.param)
  /\ Asked.cmd = "FIB-DEL"  => DelArgs(Asked.param)
  /\ Asked.cmd = "FACE-DEL" => FaceArgs(Asked.param)

CreateFace(r) ==
  /\ serial < FirstSerial + MaxFaces
  /\ serial' = serial + 1
  /\ faces' = [f \in DOMAIN faces \cup {serial + 1} |-> IF f = serial + 1 THEN r ELSE faces[f]]

(* lexical_cast throws a bad_cast, which handleReceive does not catch.     *)
BadCast ==
  /\ Waiting /\ ~connecting
  /\ Understood /\ HasArgs(Asked.param, {"PORT"})
  /\ \/ ~IsPort(Asked.param.PORT)
     \/ HasArgs(Asked.param, {"COST"}) /\ ~IsNumber(Asked.param.COST)
  /\ alive' = FALSE
  /\ UNCHANGED <<program, responses, connecting, faces, serial, closing, st, fib>>

(* A FIB-ADD whose arguments are in order, and the endpoint it names.      *)
Adding ==
  /\ Waiting /\ ~connecting
  /\ Asked.cmd = "FIB-ADD" /\ Understood
  /\ IsPort(Asked.param.PORT) /\ IsNumber(Asked.param.COST)

Target    == Remote(Asked.param)
Routed(f) == FibAdd(fib, CdOf(Asked.param.NAME), f, ValueOf(Asked.param.COST))

FibAddToFace ==
  /\ Adding
  /\ FacesTo(Target) # {}
  /\ fib' = Routed(Find(Target))
  /\ SendOk
  /\ UNCHANGED <<program, alive, connecting, faces, serial, closing, st>>

(* fibAddUdpFace, and fibAdd again, which finds the new face.              *)
FibAddUdpFace ==
  /\ Adding
  /\ Target.type = "udp" /\ FacesTo(Target) = {} /\ ~IsSelf(Target)
  /\ CreateFace(Target)
  /\ fib' = Routed(serial + 1)
  /\ SendOk
  /\ UNCHANGED <<program, alive, connecting, closing, st>>

FibAddTcpFace ==
  /\ Adding
  /\ Target.type = "tcp" /\ FacesTo(Target) = {}
  /\ connecting' = TRUE
  /\ UNCHANGED <<program, responses, alive, faces, serial, closing, st, fib>>

(* handleConnect: the new face is there, and fibAdd finds the first one to *)
(* the remote, which may be another that came in the meantime.             *)
HandleConnect ==
  /\ Waiting /\ connecting
  /\ ~IsSelf(Target)
  /\ CreateFace(Target)
  /\ connecting' = FALSE
  /\ fib' = Routed(IF FacesTo(Target) = {} THEN serial + 1 ELSE Find(Target))
  /\ SendOk
  /\ UNCHANGED <<program, alive, closing, st>>

(* Refused, timed out, or connected to itself.                             *)
HandleConnectFails ==
  /\ Waiting /\ connecting
  /\ connecting' = FALSE
  /\ SendErr("not connected")
  /\ UNCHANGED <<program, alive, faces, serial, closing, st, fib>>

FibDel ==
  /\ Waiting
  /\ Asked.cmd = "FIB-DEL" /\ Asked.param = NoParam
  /\ fib' = FibClear
  /\ SendOk
  /\ UNCHANGED <<program, alive, connecting, faces, serial, closing, st>>

FibDelName ==
  /\ Waiting
  /\ Asked.cmd = "FIB-DEL" /\ DOMAIN Asked.param = {"NAME"}
  /\ fib' = FibRemoveName(fib, CdOf(Asked.param.NAME))
  /\ SendOk
  /\ UNCHANGED <<program, alive, connecting, faces, serial, closing, st>>

DelHop ==
  /\ Asked.cmd = "FIB-DEL" /\ DOMAIN Asked.param \notin {{}, {"NAME"}}
  /\ Understood /\ IsPort(Asked.param.PORT)

FibDelHop ==
  /\ Waiting
  /\ DelHop
  /\ FacesTo(Target) # {}
  /\ fib' = FibRemoveHop(fib, CdOf(Asked.param.NAME), Find(Target))
  /\ SendOk
  /\ UNCHANGED <<program, alive, connecting, faces, serial, closing, st>>

(* The requests that are answered with an error and change nothing.  One   *)
(* of the calls on a new udp socket may throw.                             *)
Reasons ==
  IF ~Understood THEN {"illegal control command arg"}
  ELSE IF Adding /\ Target.type = "udp" /\ FacesTo(Target) = {}
  THEN {IF IsSelf(Target) THEN "same endpoint" ELSE "socket error"}
  ELSE IF DelHop /\ FacesTo(Target) = {} THEN {"face not found"}
  ELSE {}

Refuse ==
  /\ Waiting /\ ~connecting
  /\ \E reason \in Reasons : SendErr(reason)
  /\ UNCHANGED <<program, router>>

StDel ==
  /\ Waiting
  /\ Asked.cmd = "ST-DEL"
  /\ st' = StClear
  /\ SendOk
  /\ UNCHANGED <<program, alive, connecting, faces, serial, closing, fib>>

FaceDel ==
  /\ Waiting
  /\ Asked.cmd = "FACE-DEL" /\ Understood
  /\ closing' = closing \cup (DOMAIN faces \cap {ValueOf(Asked.param.FACE)})
  /\ SendOk
  /\ UNCHANGED <<program, alive, connecting, faces, serial, st, fib>>

StDump ==
  /\ Waiting
  /\ Asked.cmd = "ST-DUMP"
  /\ Answer("OK", "", StLines)
  /\ UNCHANGED <<program, router>>

FibDump ==
  /\ Waiting
  /\ Asked.cmd = "FIB-DUMP"
  /\ Answer("OK", "", FibLines)
  /\ UNCHANGED <<program, router>>

FaceDump ==
  /\ Waiting
  /\ Asked.cmd = "FACE-DUMP"
  /\ Answer("OK", "", FaceLines)
  /\ UNCHANGED <<program, router>>

Server ==
  \/ BadCast \/ Refuse
  \/ FibAddToFace \/ FibAddUdpFace
  \/ FibAddTcpFace \/ HandleConnect \/ HandleConnectFails
  \/ FibDel \/ FibDelName \/ FibDelHop
  \/ StDel \/ FaceDel
  \/ StDump \/ FibDump \/ FaceDump

-----------------------------------------------------------------------------
(* What else the router does between two requests. *)

FaceComes(r) ==
  /\ outcome = "asking" /\ alive
  /\ CreateFace(r)
  /\ UNCHANGED <<program, responses, alive, connecting, closing, st, fib>>

(* A face that was lost or told to shut down leaves all tables.            *)
FaceGoes(f) ==
  /\ outcome = "asking" /\ alive
  /\ f \in DOMAIN faces
  /\ faces' = [g \in DOMAIN faces \ {f} |-> faces[g]]
  /\ closing' = closing \ {f}
  /\ st' = StRemoveFace(st, f)
  /\ fib' = FibRemoveFace(fib, f)
  /\ UNCHANGED <<program, responses, alive, connecting, serial>>

SubArrives(f, cd) ==
  /\ outcome = "asking" /\ alive
  /\ f \in DOMAIN faces
  /\ st' = StAdd(st, cd, f)
  /\ UNCHANGED <<program, responses, alive, connecting, faces, serial, closing, fib>>

SubExpires(f, cd) ==
  /\ outcome = "asking" /\ alive
  /\ <<cd, f>> \in Hops(st)
  /\ st' = StRemoveHop(st, cd, f)
  /\ UNCHANGED <<program, responses, alive, connecting, faces, serial, closing, fib>>

Environment ==
  \/ \E r \in Remotes : FaceComes(r)
  \/ \E f \in DOMAIN faces :
       FaceGoes(f) \/ \E cd \in SubCds : SubArrives(f, cd) \/ SubExpires(f, cd)

Next ==
  \/ \E l \in DOMAIN CommandLines : Start(l)
  \/ Finish \/ Server \/ Environment

Spec == Init /\ [][Next]_vars

-----------------------------------------------------------------------------
(* The two programs agree about requests, but for the port of REMOTE:PORT, *)
(* the only argument rtctrl does not look at.  What rtctrl lets pass, the  *)
(* router calls illegal only in a FIB-DEL typed with an empty port, and no *)
(* request ends the router except by a port that is no number of 16 bits.  *)
LacksPort(request) ==
  request.cmd = "FIB-DEL" /\ HasArgs(request.param, {"PORT"}) /\ request.param.PORT = <<>>

RequestsAreUnderstood ==
  /\ \A i \in DOMAIN responses :
       responses[i].reason = "illegal control command arg" => LacksPort(requests[i])
  /\ outcome = "asking" /\ ~alive =>
       HasArgs(Asked.param, {"PORT"}) /\ ~IsPort(Asked.param.PORT) /\ ~LacksPort(Asked)

Command == CommandLines[line]
IsLoad  == Command.cmd = "fibadd" /\ Len(Command.options) = 1
File    == Command.options[1][2]

(* A file without blanks in its lists and without names that are escaped.  *)
IsPlainFile(file) ==
  \A i \in DOMAIN file.entries :
    /\ IsPlainUri(file.entries[i].name)
    /\ " " \notin Range(file.entries[i].nextHops) \cup Range(file.entries[i].costs)

(* What the file says, one route per next hop.                             *)
RoutesIn(file, entry) ==
  [i \in 1..Len(SplitCsv(entry.nextHops)) |->
     LET face == FileFace(file, SplitCsv(entry.nextHops)[i])
     IN  [name |-> CdOf(entry.name),
          to   |-> Remote(With(ParamType(face.protocol), ParamRemote(face.remote))),
          cost |-> ValueOf(SplitCsv(entry.costs)[i])]]

FileRoutes(file) ==
  FoldLeft(LAMBDA routes, entry : routes \o RoutesIn(file, entry), <<>>, file.entries)

Accepted(i) == i + 1 \in DOMAIN responses /\ responses[i + 1].result = "OK"

NoFaceWent == Cardinality(DOMAIN faces) = serial - FirstSerial

(* After `fibadd -f' the forwarding table is what the file says, whatever  *)
(* it was before and whatever faces came meanwhile: every route the router *)
(* accepted with the cost that is given last, and no other.                *)
LoadIsTheFile ==
  outcome = "shown" /\ IsLoad /\ IsPlainFile(File) /\ NoFaceWent =>
    LET routes == FileRoutes(File)
        last   == {i \in DOMAIN routes :
                     Accepted(i) /\ \A j \in i+1..Len(routes) :
                       Accepted(j) => <<routes[j].name, routes[j].to>> # <<routes[i].name, routes[i].to>>}
    IN  {<<hop[1], faces[hop[2]], fib[hop[1]][hop[2]]>> : hop \in Hops(fib)}
          = {<<routes[i].name, routes[i].to, routes[i].cost>> : i \in last}

(* After an accepted `fibdel -n NAME -t TYPE -r REMOTE' no face to that    *)
(* remote has the route, although there may be several and only one of     *)
(* them is looked up.                                                      *)
DeletedRouteIsGone ==
  outcome = "shown" /\ Command.cmd = "fibdel" /\ Len(requests) = 1
    /\ HasArgs(requests[1].param, {"NAME", "TYPE"}) /\ responses[1].result = "OK" =>
      \A hop \in Hops(fib) :
        hop[1] = CdOf(requests[1].param.NAME) => faces[hop[2]] # Remote(requests[1].param)

-----------------------------------------------------------------------------
(* What a dump prints: the table, and of the faces those it names. *)

TableBody == responses[1].body
FaceBody  == responses[Len(responses)].body

(* Mutant: a ")" separates items too, which makes a number of a cost.      *)
GetFaceIdOfAll(text) == {item.n : item \in text.items}

GetFaceId(text)        == {item.n : item \in {i \in text.items : i.number}}
MatchFaceId(text, ids) == text.id \in ids

NamedIds == UNION {GetFaceId(text) : text \in TableBody}
DumpShow == {text \in FaceBody : MatchFaceId(text, NamedIds)}

(* A dump asks twice, and the router goes on in between.  Still every next *)
(* hop that is printed is also printed as a face, with the endpoint it     *)
(* has, unless that face is gone; and no other face is printed, whatever   *)
(* costs and dates stand beside the ids.                                   *)
DumpNamesEveryHop ==
  LET hops  == {item.n : item \in {i \in UNION {text.items : text \in TableBody} : i.number}}
      shown == {text.id : text \in DumpShow}
  IN  outcome = "shown" /\ Command.cmd \in {"fibdump", "stdump"} =>
        /\ hops \cap DOMAIN faces \subseteq shown
        /\ shown \subseteq hops
        /\ \A text \in DumpShow : text.id \in DOMAIN faces => text.remote = faces[text.id]

(* What the usage text allows: a hostname or an address, with or without   *)
(* a port, wherever REMOTE is asked for.                                   *)
FollowsUsage(command) ==
  /\ command.cmd = "fibadd" /\ Len(command.options) = 4
  /\ {command.options[i][1] : i \in 1..4} = {"-n", "-t", "-r", "-c"}
  /\ \A i \in 1..4 :
       LET option == command.options[i]
       IN  CASE option[1] = "-r" ->
                  /\ option[2].isAddress \/ option[2].host \in DOMAIN AddressOf
                  /\ \/ option[2].ports = <<>>
                     \/ Len(option[2].ports) = 1 /\ IsPort(option[2].ports[1])
             [] OTHER -> IsParam(ParamOf(option))

UsageIsTrue == outcome = "usage" => ~FollowsUsage(Command)

=============================================================================
