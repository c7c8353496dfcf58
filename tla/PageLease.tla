----------------------------- MODULE PageLease -----------------------------
(* What YjsDocService promises to those who hold a page, and nothing of how *)
(* it keeps the promise: whoever holds the page finds it loaded, all who    *)
(* wait for a load come in together or not at all, and the page may leave   *)
(* memory only when nobody is in.  Saves, timers, other writers of the row  *)
(* and the entry itself are not visible here.                               *)
EXTENDS FiniteSets

CONSTANT Holders  \* those who may acquire and release the page

VARIABLES
  lease,   \* holder -> out, opening (acquire waits), in, closing (release waits)
  loaded   \* `loaded` has the page

leaseVars == <<lease, loaded>>

Lessees(state) == {h \in Holders : lease[h] = state}

\* Everyone of `some` is in `state` now.
Move(some, state) ==
  lease' = [h \in Holders |-> IF h \in some THEN state ELSE lease[h]]

\* The page may be dropped in a step that leaves nobody in.
MayUnload(remain) ==
  \/ UNCHANGED loaded
  \/ remain = {} /\ loaded' = FALSE

Init ==
  /\ lease = [h \in Holders |-> "out"]
  /\ loaded = FALSE

\* acquire: at once on a loaded page, otherwise after the load.
Acquires(h) ==
  /\ lease[h] = "out"
  /\ Move({h}, IF loaded THEN "in" ELSE "opening")
  /\ UNCHANGED loaded

\* A holder gives up waiting, and is not let in.
Withdraws(h) ==
  /\ lease[h] = "opening"
  /\ Move({h}, "out")
  /\ UNCHANGED loaded

\* The load ends: everyone who waits comes in, and nobody was in before.
Opens ==
  /\ ~loaded /\ Lessees("in") = {}
  /\ Move(Lessees("opening"), "in")
  /\ loaded' = TRUE

\* The load fails: everyone who waited is refused.
Refuses ==
  /\ ~loaded
  /\ Move(Lessees("opening"), "out")
  /\ UNCHANGED loaded

\* release: at once, or after the save that the last one to leave waits for.
Releases(h) ==
  /\ lease[h] = "in"
  /\ \E state \in {"out", "closing"} : Move({h}, state)
  /\ MayUnload(Lessees("in") \ {h})

\* A save ends, and some of those who waited for it are gone.
Settles ==
  /\ \E some \in SUBSET Lessees("closing") : Move(some, "out")
  /\ MayUnload(Lessees("in"))

\* The process restarts and has forgotten everybody.
Restarts ==
  /\ Move(Holders, "out")
  /\ loaded' = FALSE

Next ==
  \/ \E h \in Holders : Acquires(h) \/ Withdraws(h) \/ Releases(h)
  \/ Opens
  \/ Refuses
  \/ Settles
  \/ Restarts

Spec == Init /\ [][Next]_leaseVars
=============================================================================
