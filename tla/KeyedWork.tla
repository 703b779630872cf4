----------------------------- MODULE KeyedWork -----------------------------
(***************************************************************************)
(* What the controllers rely on when they use a client-go work queue: a    *)
(* set of keys that need work, of which every worker holds at most one and *)
(* no key is held by two workers.  A key added while it is held is worked  *)
(* on again after the current holder has finished, and keys that failed    *)
(* come back later.  No order between keys is promised.                    *)
(*                                                                         *)
(* WorkQueue (the FIFO queue of client-go) is shown to implement this      *)
(* specification, and IngressSync is built on its actions.                 *)
(***************************************************************************)
CONSTANTS Items, Workers, None

VARIABLES pending,   \* keys that need work
          busy,      \* busy[w]: the key worker w holds, or None
          later      \* keys a rate limiter holds back

kwVars == <<pending, busy, later>>

KWTypeOK ==
  /\ pending \subseteq Items
  /\ busy \in [Workers -> Items \cup {None}]
  /\ later \subseteq Items

KWInit ==
  /\ pending = {}
  /\ busy = [w \in Workers |-> None]
  /\ later = {}

Held == {busy[w] : w \in Workers} \ {None}

\* Keys are marked as needing work (Add; several calls in a row add a set).
Add(S) ==
  /\ pending' = pending \cup S
  /\ UNCHANGED <<busy, later>>

\* A free worker takes a key that no other worker holds (Get).
Take(w, x) ==
  /\ busy[w] = None
  /\ x \in pending \ Held
  /\ pending' = pending \ {x}
  /\ busy' = [busy EXCEPT ![w] = x]
  /\ UNCHANGED later

\* The holder hands its key to the rate limiter (AddRateLimited).
Retry(w) ==
  /\ busy[w] # None
  /\ later' = later \cup {busy[w]}
  /\ UNCHANGED <<pending, busy>>

\* The holder is done with its key (Done).
Finish(w) ==
  /\ busy[w] # None
  /\ busy' = [busy EXCEPT ![w] = None]
  /\ UNCHANGED <<pending, later>>

\* Retry and then Finish, with nothing in between.
RetryAndFinish(w) ==
  /\ busy[w] # None
  /\ later' = later \cup {busy[w]}
  /\ busy' = [busy EXCEPT ![w] = None]
  /\ UNCHANGED pending

\* The delay of a key is over and it needs work again.
Ripen(x) ==
  /\ x \in later
  /\ later' = later \ {x}
  /\ pending' = pending \cup {x}
  /\ UNCHANGED busy

KWNext ==
  \/ \E x \in Items : Add({x}) \/ Ripen(x)
  \/ \E w \in Workers : Retry(w) \/ Finish(w)
  \/ \E w \in Workers, x \in Items : Take(w, x)

KWSpec == KWInit /\ [][KWNext]_kwVars
=============================================================================
