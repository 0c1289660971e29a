-------------------------- MODULE SnapshotCatalog ---------------------------
(***************************************************************************)
(* What periodic snapshots promise, with files, crashes and retries left   *)
(* out: the run's database moves on, and now and then the state it is in   *)
(* becomes available for restoring, in the same instant in which the       *)
(* journal records it.  What is available stays available.                 *)
(***************************************************************************)
EXTENDS Naturals

VARIABLES tick, seq, available

catalogVars == <<tick, seq, available>>

CatalogInit ==
  /\ tick = 0
  /\ seq \in Nat
  /\ available = {}

(* Any other transaction of the run: a tick or other journaled work. *)
Proceed ==
  /\ tick' \in {tick, tick + 1}
  /\ seq' > seq
  /\ UNCHANGED available

(* A snapshot of the present state: it holds the journal up to and including
   the two events that announce it, and no tick has two. *)
Take ==
  /\ \A s \in available : s.tick # tick
  /\ seq' = seq + 2
  /\ available' = available \cup {[tick |-> tick, seq |-> seq']}
  /\ UNCHANGED tick

CatalogSpec == CatalogInit /\ [][Proceed \/ Take]_catalogVars

=============================================================================
