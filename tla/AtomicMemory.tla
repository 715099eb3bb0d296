------------------------------ MODULE AtomicMemory ------------------------------
(***************************************************************************)
(* What proposal-first memory promises, without operators, lease files or  *)
(* repositories: a draft is compared with the memory and written in one    *)
(* step, what is on record as applied was written, and once the promise is *)
(* void (disturbed) only that much is left of it.                          *)
(***************************************************************************)
CONSTANT Draft

VARIABLES
  memory,      \* the sections in memory
  drafted,     \* the drafts made so far
  base,        \* the memory each of them is for
  written,     \* the drafts that were written
  recorded,    \* those on record as applied
  disturbed

memoryVars == <<memory, drafted, base, written, recorded, disturbed>>

Init ==
  /\ memory = {}
  /\ drafted = {}
  /\ base = [d \in Draft |-> {}]
  /\ written = {}
  /\ recorded = {}
  /\ disturbed = FALSE

\* A reader does not wait for a writer: it may find nothing.
Propose(d) ==
  /\ d \notin drafted
  /\ drafted' = drafted \cup {d}
  /\ \E found \in {memory, {}} : base' = [base EXCEPT ![d] = found]
  /\ UNCHANGED <<memory, written, recorded, disturbed>>

Apply(d) ==
  /\ d \in drafted
  /\ memory = base[d]
  /\ memory' = memory \cup {d}
  /\ written' = written \cup {d}
  /\ UNCHANGED <<drafted, base, recorded, disturbed>>

\* Records may get lost and come back.
Record ==
  /\ recorded' \subseteq written
  /\ UNCHANGED <<memory, drafted, base, written, disturbed>>

Disturb ==
  /\ disturbed'
  /\ written \subseteq written'
  /\ recorded' \subseteq written'

Next ==
  \/ ~disturbed /\ (Record \/ \E d \in Draft : Propose(d) \/ Apply(d))
  \/ Disturb

Spec == Init /\ [][Next]_memoryVars

-----------------------------------------------------------------------------

\* What follows for the memory: it holds every draft that was written, and of the
\* drafts for one memory one at most was written.
AppliedOnce ==
  ~disturbed =>
    /\ written = memory
    /\ \A d, e \in written : base[d] = base[e] => d = e

\* Its inductive invariant: a draft is for a memory without it, and that memory
\* is still there once the draft was written.
AtomicInv ==
  /\ AppliedOnce
  /\ ~disturbed =>
       /\ drafted \subseteq Draft /\ memory \subseteq drafted
       /\ base \in [Draft -> SUBSET drafted]
       /\ \A d \in Draft : d \notin base[d]
       /\ \A d \in written : base[d] \subseteq memory
=============================================================================
