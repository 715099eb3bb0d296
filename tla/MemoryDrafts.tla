------------------------------ MODULE MemoryDrafts ------------------------------
(***************************************************************************)
(* Proposal-first memory (memory/service.py): drafts of one Markdown file, *)
(* their review, the lease around apply, and the JSON repositories the     *)
(* records live in (storage/json_store.py).                                *)
(*                                                                         *)
(* Content is the set of sections in the file; the draft d adds section d  *)
(* to the content it was based on, as draft and the dream proposals do.    *)
(* The order of sections is left out: a draft has one base, so two files   *)
(* with the same sections have them in the same order.  Drafts with        *)
(* content of their own (proposed_content), and the manifest that each     *)
(* listing rewrites, are left out.                                         *)
(*                                                                         *)
(* An operator is a process that runs one command after the other.  Files  *)
(* are written by truncating and filling them, except the repositories,    *)
(* which are replaced at once but read some time before.                   *)
(***************************************************************************)
EXTENDS FiniteSets

CONSTANTS
  Operator,   \* the processes that work on the workspace
  Draft,      \* draft ids
  Dreamed,    \* those a dream run makes, with a dream proposal each
  Nothing     \* no draft

ASSUME DraftAssumption == Dreamed \subseteq Draft /\ Nothing \notin Draft

VARIABLES
  file,       \* content of the memory file
  drafted,    \* the drafts made so far
  base,       \* the content each of them is compared with (its base_hash)
  content,    \* the content each of them writes (its proposed_content)
  store,      \* the repositories of drafts and of dream proposals
  lease,      \* the lock file
  op,         \* what each operator is doing
  written,    \* history: the drafts whose content was written
  torn,       \* history: a write of the memory file was cut
  overlapped  \* history: two operators were in the lease at once

vars == <<file, drafted, base, content, store, lease, op, written, torn, overlapped>>
history == <<written, torn, overlapped>>

\* "applied" is the status "approved" of a dream proposal.
Status  == {"absent", "proposed", "applied", "rejected"}
Records == [Draft -> Status]

\* The steps of a command, in the order of the code.
Step == {"idle", "dreaming", "checked", "opened", "leased", "compared", "writing",
         "saving", "listed", "leaving", "reviewing", "reviewed"}

\* review: the command came through a dream proposal.  items: the records
\* that the upsert in progress has read.
Operation == [step : Step, draft : Draft \cup {Nothing}, status : Status,
              review : BOOLEAN, items : Records]

TypeOK ==
  /\ file \subseteq Draft
  /\ drafted \subseteq Draft
  /\ base \in [Draft -> SUBSET Draft]
  /\ content \in [Draft -> SUBSET Draft]
  /\ store \in [drafts : Records, proposals : Records]
  /\ lease \in {"none", "unreadable", "live", "expired"}
  /\ op \in [Operator -> Operation]
  /\ written \subseteq Draft
  /\ torn \in BOOLEAN /\ overlapped \in BOOLEAN

NoRecords == [d \in Draft |-> "absent"]
Idle      == [step |-> "idle", draft |-> Nothing, status |-> "absent",
              review |-> FALSE, items |-> NoRecords]

Init ==
  /\ file = {}
  /\ drafted = {}
  /\ base = [d \in Draft |-> {}]
  /\ content = [d \in Draft |-> {d}]
  /\ store = [drafts |-> NoRecords, proposals |-> NoRecords]
  /\ lease = "none"
  /\ op = [o \in Operator |-> Idle]
  /\ written = {}
  /\ torn = FALSE /\ overlapped = FALSE

At(o, step)   == op[o].step = step
GoTo(o, step) == op' = [op EXCEPT ![o].step = step, ![o].items = NoRecords]
Ends(o)       == op' = [op EXCEPT ![o] = Idle]
Starts(o, step, d, status, review) ==
  /\ At(o, "idle")
  /\ op' = [op EXCEPT ![o] = [step |-> step, draft |-> d, status |-> status,
                              review |-> review, items |-> NoRecords]]

\* The draft is done with: a review goes on to the proposal.
Reviews(o) == IF op[o].review THEN GoTo(o, "reviewing") ELSE Ends(o)

\* From opening the lock file until it is unlinked.
InLease(o) ==
  \/ op[o].step \in {"opened", "leased", "compared", "writing", "leaving"}
  \/ op[o].step \in {"saving", "listed"} /\ op[o].status = "applied"

-----------------------------------------------------------------------------
(* draft, reject_draft, and the start of apply_draft                      *)

\* The file is read, its hash and the new section make the draft d.
Reads(d) ==
  /\ d \notin drafted
  /\ \A o \in Operator : op[o].draft # d
  /\ base' = [base EXCEPT ![d] = file]
  /\ content' = [content EXCEPT ![d] = file \cup {d}]

Propose(o, d) ==
  /\ d \notin Dreamed
  /\ Reads(d)
  /\ drafted' = drafted \cup {d}
  /\ Starts(o, "saving", d, "proposed", FALSE)
  /\ UNCHANGED <<file, store, lease, history>>

\* A dream run composes the new content first, and records a proposal with
\* the draft.
Dream(o, d) ==
  /\ d \in Dreamed
  /\ Reads(d)
  /\ Starts(o, "dreaming", d, "proposed", TRUE)
  /\ UNCHANGED <<file, drafted, store, lease, history>>

\* draft reads the file again for the hash.
ProposeDream(o) ==
  /\ At(o, "dreaming")
  /\ drafted' = drafted \cup {op[o].draft}
  /\ base' = [base EXCEPT ![op[o].draft] = file]
  /\ GoTo(o, "saving")
  /\ UNCHANGED <<file, content, store, lease, history>>

\* A review finds the draft through the dream proposal.
Found(d, review) ==
  /\ store.drafts[d] # "absent"
  /\ review => store.proposals[d] # "absent"

\* Whatever the status of the draft is.
Reject(o, d) ==
  /\ \E review \in BOOLEAN : Found(d, review) /\ Starts(o, "saving", d, "rejected", review)
  /\ UNCHANGED <<file, drafted, base, content, store, lease, history>>

\* The draft is looked up, its base never changes; then the lock file is.  On
\* a "Lock conflict", and on a lock file whose JSON does not parse (a ValueError
\* that is raised again), the command ends with nothing changed.
Apply(o, d) ==
  /\ lease \in {"none", "expired"}
  /\ \E review \in BOOLEAN : Found(d, review) /\ Starts(o, "checked", d, "applied", review)
  /\ UNCHANGED <<file, drafted, base, content, store, lease, history>>

-----------------------------------------------------------------------------
(* The lease                                                               *)

LeaseOpen(o) ==
  /\ At(o, "checked")
  /\ lease' = "unreadable"
  /\ GoTo(o, "opened")
  /\ overlapped' = (overlapped \/ \E p \in Operator \ {o} : InLease(p))
  /\ UNCHANGED <<file, drafted, base, content, store, written, torn>>

LeaseWrite(o) ==
  /\ At(o, "opened")
  /\ lease' = "live"
  /\ GoTo(o, "leased")
  /\ UNCHANGED <<file, drafted, base, content, store, history>>

\* The lock file is unlinked, whoever wrote it.
LeaseRelease(o) ==
  /\ At(o, "leaving")
  /\ lease' = "none"
  /\ Reviews(o)
  /\ UNCHANGED <<file, drafted, base, content, store, history>>

\* 900 seconds have passed, with the holder at work, asleep or gone.
LeaseExpires ==
  /\ lease = "live"
  /\ lease' = "expired"
  /\ UNCHANGED <<file, drafted, base, content, store, op, history>>

-----------------------------------------------------------------------------
(* apply_draft under the lease                                             *)

\* "Memory hash conflict": the lock file is unlinked, the command ends.
HashConflict(o) ==
  /\ At(o, "leased")
  /\ file # base[op[o].draft]
  /\ lease' = "none"
  /\ Ends(o)
  /\ UNCHANGED <<file, drafted, base, content, store, history>>

\* Fault: the hash of the file is not compared.
CompareNothing(o) ==
  /\ At(o, "leased")
  /\ GoTo(o, "compared")
  /\ UNCHANGED <<file, drafted, base, content, store, lease, history>>

\* Fault: a file that has changed is taken for one that was written before.
CompareLeniently(o) ==
  /\ At(o, "leased")
  /\ GoTo(o, IF file = base[op[o].draft] THEN "compared" ELSE "saving")
  /\ UNCHANGED <<file, drafted, base, content, store, lease, history>>

Compare(o) ==
  /\ At(o, "leased")
  /\ file = base[op[o].draft]
  /\ GoTo(o, "compared")
  /\ UNCHANGED <<file, drafted, base, content, store, lease, history>>

Truncate(o) ==
  /\ At(o, "compared")
  /\ file' = {}
  /\ GoTo(o, "writing")
  /\ UNCHANGED <<drafted, base, content, store, lease, history>>

Fill(o) ==
  /\ At(o, "writing")
  /\ file' = content[op[o].draft]
  /\ written' = written \cup {op[o].draft}
  /\ GoTo(o, "saving")
  /\ UNCHANGED <<drafted, base, content, store, lease, torn, overlapped>>

-----------------------------------------------------------------------------
(* JsonRepository.upsert, of the draft and then of the dream proposal      *)

List(o) ==
  /\ \/ /\ At(o, "saving")
        /\ op' = [op EXCEPT ![o].step = "listed", ![o].items = store.drafts]
     \/ /\ At(o, "reviewing")
        /\ op' = [op EXCEPT ![o].step = "reviewed", ![o].items = store.proposals]
  /\ UNCHANGED <<file, drafted, base, content, store, lease, history>>

Upserted(o) == [op[o].items EXCEPT ![op[o].draft] = op[o].status]

ReplaceDrafts(o) ==
  /\ At(o, "listed")
  /\ store' = [store EXCEPT !.drafts = Upserted(o)]
  /\ IF op[o].status = "applied" THEN GoTo(o, "leaving") ELSE Reviews(o)
  /\ UNCHANGED <<file, drafted, base, content, lease, history>>

ReplaceProposals(o) ==
  /\ At(o, "reviewed")
  /\ store' = [store EXCEPT !.proposals = Upserted(o)]
  /\ Ends(o)
  /\ UNCHANGED <<file, drafted, base, content, lease, history>>

\* The process stops.  What it was writing is cut.
Stop(o) ==
  /\ ~At(o, "idle")
  /\ Ends(o)
  /\ torn' = (torn \/ At(o, "writing"))
  /\ UNCHANGED <<file, drafted, base, content, store, lease, written, overlapped>>

Next ==
  \/ LeaseExpires
  \/ \E o \in Operator :
       \/ \E d \in Draft : Propose(o, d) \/ Dream(o, d) \/ Reject(o, d) \/ Apply(o, d)
       \/ ProposeDream(o)
       \/ LeaseOpen(o) \/ LeaseWrite(o)
       \/ HashConflict(o) \/ Compare(o) \/ Truncate(o) \/ Fill(o)
       \/ List(o) \/ ReplaceDrafts(o) \/ LeaseRelease(o) \/ ReplaceProposals(o)
       \/ Stop(o)

Spec == Init /\ [][Next]_vars

-----------------------------------------------------------------------------

\* No write was cut and no two operators got into the lease at once.
LeaseWorked == ~torn /\ ~overlapped

\* Nobody wrote the file between the two reads of a dream run either.
Undisturbed == LeaseWorked /\ \A d \in Draft : content[d] = base[d] \cup {d}

AllWritten == (\A o \in Operator : ~At(o, "writing")) => written \subseteq file

\* Whatever expires, stops or is retried, no applied section is lost.
\* (apply_draft:98-117.)
NothingLost == Undisturbed => AllWritten

\* Of the drafts on one content, as the proposals of one dream run are, one
\* at most gets into memory. (apply_draft:102-108, _proposal_from_insight:303-327.)
OneDraftPerBase ==
  Undisturbed => \A d, e \in written : base[d] = base[e] => d = e

\* A draft recorded as applied, and a proposal recorded as approved, were
\* written, even when the records of several processes overwrite each other.
\* (apply_draft:110-114, review_dream_proposal:213-225, JsonRepository.upsert:29-40.)
RecordsFollowMemory ==
  \A d \in Draft : store.drafts[d] = "applied" \/ store.proposals[d] = "applied"
                    => d \in written

\* "memory apply checks the target Markdown file hash before writing and
\* rejects stale drafts when another process has changed the file": what is
\* written over the file holds what the file does. (README.md:226.)
StaleDraftsAreRejected ==
  [][\A o \in Operator : At(o, "compared") /\ At(o, "writing")'
                          => file \subseteq content[op[o].draft]]_vars

\* What is in memory, based on, or on record was drafted; no draft is in the
\* content it is based on.
DraftedBefore ==
  /\ file \cup written \subseteq drafted
  /\ \A d \in Draft : d \notin base[d] /\ base[d] \subseteq drafted
  /\ \A d \in Draft : content[d] \subseteq drafted \cup {d}
  /\ \A d \in Draft \ drafted : content[d] = base[d] \cup {d}
  /\ \A d \in Draft : store.drafts[d] # "absent" => d \in drafted

\* What an operator is about to record has happened.
CommandsAreSound ==
  \A o \in Operator :
    /\ At(o, "dreaming") =>
         /\ op[o].draft \in Draft \ drafted
         /\ op[o].status = "proposed"
         /\ \A p \in Operator \ {o} : op[p].draft # op[o].draft
    /\ ~At(o, "idle") /\ ~At(o, "dreaming") => op[o].draft \in drafted
    /\ op[o].status = "applied"
         /\ op[o].step \in {"saving", "listed", "leaving", "reviewing", "reviewed"}
         => op[o].draft \in written
    /\ \A d \in Draft : op[o].items[d] = "applied" => d \in written
    /\ At(o, "listed") => \A d \in Draft : op[o].items[d] # "absent" => d \in drafted

\* The lease keeps what was compared, and what is half written.
LeaseProtects ==
  Undisturbed =>
    /\ \A o, p \in Operator : InLease(o) /\ InLease(p) => o = p
    /\ \A o \in Operator : At(o, "compared") => file = base[op[o].draft]
    /\ \A o \in Operator :
         At(o, "writing") => file = {} /\ written \subseteq base[op[o].draft]

\* The inductive invariant.
DraftsInv ==
  /\ TypeOK
  /\ DraftedBefore
  /\ CommandsAreSound
  /\ LeaseProtects
  /\ NothingLost
  /\ OneDraftPerBase
  /\ RecordsFollowMemory

\* The file, where one that is half written counts as what it was before.
Memory == file \cup UNION {base[op[o].draft] : o \in {p \in Operator : At(p, "writing")}}

\* What the drafts that were made are compared with.
BaseOf == [d \in Draft |-> IF d \in drafted THEN base[d] ELSE {}]

OnRecord == {d \in Draft : store.drafts[d] = "applied" \/ store.proposals[d] = "applied"}

Atomic == INSTANCE AtomicMemory WITH
  memory    <- Memory,
  base      <- BaseOf,
  recorded  <- OnRecord,
  disturbed <- ~Undisturbed

\* However reads, comparisons, writes and records of several operators interleave,
\* expire or stop, a draft is compared and written as if in one step, as long as
\* the lease worked. (apply_draft:92-117, _lease_lock:450-478.)
ImplementsAtomicMemory == Atomic!Spec
=============================================================================
