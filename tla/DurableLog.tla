----------------------------- MODULE DurableLog -----------------------------
(***************************************************************************)
(* What a hub promises its browsers, with no channel, queue or goroutine:  *)
(* one log of updates that only grows, a durable copy of it that is always *)
(* replaced by the whole log, and browsers that know of a peer's update    *)
(* only once it is in the log.  A hub may lose an update its author typed  *)
(* (it never enters the log) and may leave a browser behind; it may not    *)
(* reorder, repeat or forget what it accepted, nor show anyone an update   *)
(* that the next write to the store would not contain.                     *)
(***************************************************************************)
EXTENDS Naturals, Sequences, Functions

CONSTANTS Browsers, Updates, Start   \* Start: the stored log the hub begins with

VARIABLES
  log,      \* the updates accepted, oldest first
  durable,  \* the log as last stored
  known     \* known[b]: the updates browser b typed or was shown

logVars == <<log, durable, known>>

LogInit ==
  /\ log = Start /\ durable = Start
  /\ known = [b \in Browsers |-> {}]

\* A browser types an update nobody has seen.
Type(b, u) ==
  /\ u \notin Range(log)
  /\ \A other \in Browsers : u \notin known[other]
  /\ known' = [known EXCEPT ![b] = @ \cup {u}]
  /\ UNCHANGED <<log, durable>>

\* An update some browser typed enters the log, once.
Accept(u) ==
  /\ \E b \in Browsers : u \in known[b]
  /\ u \notin Range(log)
  /\ log' = Append(log, u)
  /\ UNCHANGED <<durable, known>>

\* A browser is shown an accepted update.
Show(b, u) ==
  /\ u \in Range(log)
  /\ known' = [known EXCEPT ![b] = @ \cup {u}]
  /\ UNCHANGED <<log, durable>>

Persist ==
  /\ durable' = log
  /\ UNCHANGED <<log, known>>

LogNext ==
  \/ \E b \in Browsers, u \in Updates : Type(b, u) \/ Show(b, u)
  \/ \E u \in Updates : Accept(u)
  \/ Persist

LogSpec == LogInit /\ [][LogNext]_logVars
=============================================================================
