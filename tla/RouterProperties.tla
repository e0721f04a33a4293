-------------------------- MODULE RouterProperties --------------------------
(***************************************************************************)
(* What must hold of the router's tables and event queue.                  *)
(***************************************************************************)
EXTENDS Router

TypeOK ==
  /\ faces \subseteq Created
  /\ serial \in FirstSerial..LastSerial
  /\ peer \in [Created -> Remotes]
  /\ link \in [Created -> {"open", "closing", "closed"}]
  /\ reading \subseteq Created
  /\ queue \in Seq(Events)
  /\ \A i \in 1..Len(queue) : queue[i].face \in Created
  /\ IsTable(st, SubCds, TimerStates)
  /\ IsTable(fib, FibNames, Costs)
  /\ sent \subseteq [face : FaceIds, packet : Packets]

(***************************************************************************)
(* Consistency of the three tables.                                        *)
(***************************************************************************)

(* Every next hop of both tables is a face of the face table, although the *)
(* Sub that made it may have been handled after the shutdown of its        *)
(* transport began, and FIB-ADD accepts faces that are going away.         *)
HopsAreFaces ==
  /\ \A hop \in Hops(st) : hop[2] \in faces
  /\ \A hop \in Hops(fib) : hop[2] \in faces

(* No entry without next hops is left behind by any of the ways a next hop *)
(* is removed; Fib::match takes min_element of the set without a check.    *)
NoEmptyEntry ==
  /\ AllEntriesUsed(st)
  /\ AllEntriesUsed(fib)

(***************************************************************************)
(* The tables and the event queue.                                         *)
(***************************************************************************)

(* A subscription next hop always has something that will remove it: its   *)
(* timer runs, or the completion of its timer is in the queue.             *)
EveryHopWillExpire ==
  \A hop \in Hops(st) : st[hop[1]][hop[2]] = "armed" \/ Queued(Expired(hop[1], hop[2]))

(* A face whose transport began to shut down, or did, stays in the tables  *)
(* only as long as the next stage of its removal is in the queue.          *)
NoZombieFace ==
  \A f \in Created :
    /\ link[f] = "closing" => Queued(ShutdownPosted(f))
    /\ link[f] = "closed" /\ f \in faces => Queued(FaceShutdownPosted(f))

(* A face leaves the table after its socket is closed, never before: no    *)
(* socket goes on reading packets that nobody receives.                    *)
RemovedFaceIsClosed ==
  \A f \in Created \ faces : link[f] = "closed" /\ f \notin reading

(* A shutdown takes its three steps in order, however often it is asked    *)
(* for: never forgotten half way, never ahead of itself.                   *)
RemovalIsOrderly == NoZombieFace /\ RemovedFaceIsClosed

(* The two facts about the order of a shutdown on which the others rest.   *)
ShutdownInOrder ==
  \A f \in Created :
    /\ Queued(FaceShutdownPosted(f)) => link[f] = "closed"
    /\ link[f] = "closed" => f \notin reading

ReadCompletions(f) ==
  {i \in 1..Len(queue) : queue[i].op = "handleReceive" /\ queue[i].face = f}

(* No two reads of the transport of a face are under way at any time: at   *)
(* most one completion waits in the queue, and none while a read is        *)
(* outstanding.  A second asyncReceive would tear the byte stream.         *)
OneReadAtMost ==
  \A f \in Created :
    /\ \A i, j \in ReadCompletions(f) : i = j
    /\ f \in reading => ReadCompletions(f) = {}

(* Nor is an open face deaf: asyncReceive was called, or its completion or *)
(* the failure that closes the face waits in the queue.                    *)
OpenFaceIsRead ==
  \A f \in Created :
    link[f] = "open" => f \in reading \/ ReadCompletions(f) # {} \/ Queued(Failed(f))

(* Every open face is read, by exactly one read at a time.                 *)
FaceIsReadOnce == OneReadAtMost /\ OpenFaceIsRead

(***************************************************************************)
(* Steps.                                                                  *)
(***************************************************************************)

(* A subscription that is fresh, with no completion of an earlier timer in *)
(* the queue, survives everything but ST-DEL and the removal of its face.  *)
(* (With such a completion it does not: onExpired removes a next hop that  *)
(* was refreshed after the timer fired.)                                   *)
FreshHopSurvives ==
  [][\A cd \in SubCds, f \in faces :
       /\ <<cd, f>> \in Hops(st)
       /\ st[cd][f] = "armed"
       /\ ~Queued(Expired(cd, f))
       /\ ~StDel
       => <<cd, f>> \in Hops(st') \/ f \notin faces']_vars

(* Nothing that a table matches is dropped on the way out: a Sub or a      *)
(* publication with a route leaves on exactly one face, a publication from *)
(* the RP on the face of every subscription it matches, and the check that *)
(* FaceManager::find found a face never fails.                             *)
MatchedPacketsLeave ==
  [][\A f \in faces, p \in Packets :
       HandleReceive(f, p) =>
         IF p.type = "PubFromRp"
         THEN \A hop \in Hops(st) :
                MatchRegex(hop[1], p.cd) => [face |-> hop[2], packet |-> p] \in sent'
         ELSE (\E name \in DOMAIN fib : IsPrefixOf(name, p.cd)) =>
                \E g \in faces : sent' = {[face |-> g, packet |-> p]}]_vars

(***************************************************************************)
(* Liveness.                                                               *)
(***************************************************************************)

(* Once a transport shuts down, for whatever reason and however often, its *)
(* face disappears from all tables and does not come back.                 *)
LostFaceIsRemoved ==
  \A f \in FaceIds : (f \in Created /\ link[f] # "open") ~> [](f \notin faces)

(* What a subscriber adds: the resend timer of the client library writes   *)
(* its Subs for ever and the connection delivers them.                     *)
Resubscribing ==
  \A cd \in SubCds, f \in FaceIds :
    SF_vars(PacketArrives(f, [type |-> "Sub", cd |-> cd]))

(* A subscriber that goes on sending its Sub while it is connected is in   *)
(* the table again and again, whatever stale completions and ST-DEL do.    *)
ResubscriberIsHeard ==
  Resubscribing =>
    \A cd \in SubCds, f \in FaceIds :
      []<>(<<cd, f>> \in Hops(st)) \/ <>[](f \notin faces)

(***************************************************************************)
(* The abstract router.                                                    *)
(***************************************************************************)
PubSub == INSTANCE PubSubTable WITH
  Faces    <- FaceIds,
  Cds      <- SubCds,
  Names    <- FibNames,
  attached <- faces,
  former   <- Created \ faces,
  doomed   <- {f \in faces : link[f] # "open"},
  subs     <- Hops(st),
  routes   <- Hops(fib)

(* The router behaves as that abstract table.  (That it does detach what   *)
(* is lost is LostFaceIsRemoved.)                                          *)
ImplementsPubSubTable == PubSub!Spec

=============================================================================
