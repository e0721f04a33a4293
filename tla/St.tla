--------------------------------- MODULE St ---------------------------------
(***************************************************************************)
(* The subscription table, class StImpl.  A next hop carries a             *)
(* deadline_timer.  It is "armed" until it expires and "fired" from then   *)
(* on, while its completion waits in the queue of the io_service.          *)
(* Replacing or erasing a next hop destroys its timer, which cancels the   *)
(* wait of an armed timer; a completion that is already queued stays.      *)
(***************************************************************************)
EXTENDS HopTables

TimerStates == {"armed", "fired"}

StAdd(st, cd, id)       == AddHop(st, cd, id, "armed")
(* Mutant: remove(cd) instead of remove(cd, id). *)
StRemoveWholeEntry(st, cd, id) == RemoveEntry(st, cd)

StRemoveHop(st, cd, id) == RemoveHop(st, cd, id)
StRemoveFace(st, id)    == RemoveFace(st, id)
StClear                 == EmptyTable

StFire(st, cd, id) == [st EXCEPT ![cd][id] = "fired"]

(* Mutant: the search ends at the first entry that matches. *)
StMatchOne(st, cd) ==
  IF \E c \in DOMAIN st : MatchRegex(c, cd)
  THEN DOMAIN st[CHOOSE c \in DOMAIN st : MatchRegex(c, cd)]
  ELSE {}

(* The faces of every entry whose CD matches. *)
StMatch(st, cd) == UNION {DOMAIN st[c] : c \in {c \in DOMAIN st : MatchRegex(c, cd)}}

=============================================================================
