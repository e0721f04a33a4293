----------------------------- MODULE MCRtctrl ------------------------------
(* Small instances of Rtctrl: command lines as in the usage text and in    *)
(* conf/fib.conf.sample, and some that go wrong.                           *)
EXTENDS Rtctrl

Line(cmd, options) == [cmd |-> cmd, options |-> options]

Address(host, ports)  == [host |-> host, isAddress |-> TRUE, ports |-> ports]
HostName(host, ports) == [host |-> host, isAddress |-> FALSE, ports |-> ports]

Slash1 == <<Word("1")>>
P9876  == <<"9", "8", "7", "6">>

Face(id, protocol, remote) == [id |-> <<id>>, protocol |-> protocol, remote |-> remote]
Entry(name, nextHops, costs) == [name |-> name, nextHops |-> nextHops, costs |-> costs]

FileFaces == <<Face("1", "tcp", Address("a1", <<>>)), Face("2", "UDP", Address("a2", <<>>))>>
FileOf(costs) ==
  [entries |-> <<Entry(<<>>, <<"1">>, <<"0">>), Entry(Slash1, <<"1", ",", "2">>, costs),
                 Entry(<<>>, <<"1">>, <<"7">>)>>,
   faces |-> FileFaces]
UnknownFace == [entries |-> <<Entry(Slash1, <<"3">>, <<"0">>)>>, faces |-> FileFaces]

AddLine(name, type, remote, cost) ==
  Line("fibadd", <<<<"-r", remote>>, <<"-n", name>>, <<"-t", type>>, <<"-c", cost>>>>)

MCCommandLines ==
  [load      |-> Line("fibadd", <<<<"-f", FileOf(<<"0", ",", "1", "0">>)>>>>),
   blank     |-> Line("fibadd", <<<<"-f", FileOf(<<"0", ",", " ", "1", "0">>)>>>>),
   uneven    |-> Line("fibadd", <<<<"-f", FileOf(<<"0">>)>>>>),
   unknown   |-> Line("fibadd", <<<<"-f", UnknownFace>>>>),
   addTcp    |-> AddLine(Slash1, "TCP", Address("a1", <<P9876>>), <<"1", "0", "2">>),
   addUdp    |-> AddLine(<<Word("a b")>>, "udp", HostName("h2", <<>>), <<"5">>),
   addSelf   |-> AddLine(Slash1, "udp", Address("a0", <<>>), <<"5">>),
   badPort   |-> AddLine(Slash1, "tcp", Address("a1", <<<<"6", "5", "5", "3", "6">>>>), <<"5">>),
   noPort    |-> AddLine(Slash1, "tcp", Address("a1", <<<<>>>>), <<"5">>),
   twoPorts  |-> AddLine(Slash1, "tcp", Address("a1", <<P9876, P9876>>), <<"5">>),
   badCost   |-> AddLine(Slash1, "tcp", Address("a1", <<>>), <<"x">>),
   badName   |-> AddLine(<<OpenWord("1")>>, "icmp", HostName("h9", <<>>), <<"1">>),
   twice     |-> Line("fibdel", <<<<"-n", Slash1>>, <<"-n", Slash1>>, <<"-t", "tcp">>>>),
   delTcp    |-> Line("fibdel", <<<<"-n", Slash1>>, <<"-t", "tcp">>, <<"-r", Address("a1", <<>>)>>>>),
   delNoPort |-> Line("fibdel", <<<<"-n", Slash1>>, <<"-t", "tcp">>, <<"-r", Address("a1", <<<<>>>>)>>>>),
   delName   |-> Line("fibdel", <<<<"-n", <<Word("a b")>>>>>>),
   delAll    |-> Line("fibdel", <<>>),
   stDel     |-> Line("stdel", <<>>),
   faceDel   |-> Line("facedel", <<<<"-i", <<"1", "0", "1">>>>>>),
   stDump    |-> Line("stdump", <<>>),
   fibDump   |-> Line("fibdump", <<>>),
   faceDump  |-> Line("facedump", <<>>),
   noCommand |-> Line("fibshow", <<>>)]

MCRemotes == {[type |-> "tcp", ip |-> "a1", port |-> 9876]}
MCSelf    == [ip |-> "a0", port |-> 9876]
MCAddresses == [h2 |-> "a2"]
MCSubs    == {<<Component("1")>>}

(* For the usage text: hosts by name. *)
RemoteLines ==
  [plain  |-> AddLine(Slash1, "tcp", HostName("h2", <<>>), <<"5">>),
   number |-> AddLine(Slash1, "tcp", Address("a1", <<P9876>>), <<"5">>),
   named  |-> AddLine(Slash1, "tcp", HostName("h2", <<P9876>>), <<"5">>)]
=============================================================================
