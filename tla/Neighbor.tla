------------------------------ MODULE Neighbor ------------------------------
(***************************************************************************)
(* What a neighbour cache promises, whatever its timers, queues and cycles *)
(* do: an address is resolved by its host only, an answer clears the count *)
(* of probes, an unresolved address stays until MaxRetries probes went     *)
(* unanswered or the cache starts anew, and a resolved one until then or   *)
(* until its port is lost.                                                 *)
(***************************************************************************)
EXTENDS Integers

CONSTANTS Key, Mac, None, Gone, MaxRetries

VARIABLES
  nb,    \* Key -> [eth, tries], or Gone
  conf   \* the configuration and connection the cache belongs to

nvars == <<nb, conf>>

Learnt(k) == \E m \in Mac : nb'[k] = [eth |-> m, tries |-> 0]

\* Traffic for an address makes it unresolved, and may probe it at once.
Restarted(k) == \E n \in {0, 1} : nb'[k] = [eth |-> None, tries |-> n]

\* The count stops one past the limit.
Probed(k) ==
  /\ nb[k] # Gone
  /\ nb'[k] = [nb[k] EXCEPT !.tries = IF @ > MaxRetries THEN @ ELSE @ + 1]

GivenUp(k) == nb[k] # Gone /\ nb[k].tries >= MaxRetries /\ nb'[k] = Gone

PortLost(k) == nb[k] # Gone /\ nb[k].eth # None /\ nb'[k] = Gone

KeyStep(k) ==
  \/ nb'[k] = nb[k]
  \/ Learnt(k) \/ Restarted(k) \/ Probed(k) \/ GivenUp(k) \/ PortLost(k)

\* The neighbours are independent of each other: one step may concern several.
Work == conf' = conf /\ \A k \in Key : KeyStep(k)

\* A new configuration or connection may drop entries.
Renew == conf' # conf /\ \A k \in Key : KeyStep(k) \/ nb'[k] = Gone

NInit == nb = [k \in Key |-> Gone]
NSpec == NInit /\ [][Work \/ Renew]_nvars
=============================================================================
