--------------------------- MODULE MemoryDraftsProofs ---------------------------
(***************************************************************************)
(* Theorems of the memory drafts, for any number of operators and drafts.  *)
(***************************************************************************)
EXTENDS MemoryDrafts, TLAPS

USE DraftAssumption

LEMMA DraftsInit == Init => DraftsInv
<1> SUFFICES ASSUME Init PROVE DraftsInv
  OBVIOUS
<1>1. NoRecords \in Records /\ Idle \in Operation
  BY DEF NoRecords, Records, Idle, Operation, Status, Step
<1>2. TypeOK
  BY <1>1 DEF Init, TypeOK
<1>3. \A o \in Operator : op[o] = Idle
  BY DEF Init
<1>4. DraftedBefore /\ RecordsFollowMemory /\ NothingLost /\ OneDraftPerBase
  BY DEF Init, DraftedBefore, RecordsFollowMemory, NothingLost, AllWritten, OneDraftPerBase,
         NoRecords
<1>5. CommandsAreSound /\ LeaseProtects
  BY <1>3 DEF CommandsAreSound, LeaseProtects, InLease, At, Idle, NoRecords
<1> QED
  BY <1>2, <1>4, <1>5 DEF DraftsInv

-----------------------------------------------------------------------------
(* What a step of one operator does to the operators                       *)

\* An operator moves on to another step of its command.
LEMMA Moves ==
  ASSUME TypeOK, NEW o \in Operator, NEW step \in Step, GoTo(o, step)
  PROVE  /\ op' \in [Operator -> Operation]
         /\ op'[o].step = step /\ op'[o].draft = op[o].draft
         /\ op'[o].status = op[o].status /\ op'[o].items = NoRecords
         /\ \A p \in Operator : p # o => op'[p] = op[p]
<1>1. NoRecords \in Records
  BY DEF NoRecords, Records, Status
<1> QED
  BY <1>1 DEF TypeOK, GoTo, Operation

\* A command of an operator is over.
LEMMA Ending ==
  ASSUME TypeOK, NEW o \in Operator, Ends(o)
  PROVE  /\ op' \in [Operator -> Operation]
         /\ op'[o].step = "idle" /\ op'[o].draft = Nothing
        /\ op'[o].status = "absent" /\ op'[o].items = NoRecords
         /\ \A p \in Operator : p # o => op'[p] = op[p]
<1>1. Idle \in Operation
  BY DEF Idle, NoRecords, Operation, Records, Status, Step
<1> QED
  BY <1>1 DEF TypeOK, Ends, Idle

\* A command of an operator begins.
LEMMA Starting ==
  ASSUME TypeOK, NEW o \in Operator, NEW step \in Step, NEW d \in Draft,
         NEW status \in Status, NEW review \in BOOLEAN, Starts(o, step, d, status, review)
  PROVE  /\ op' \in [Operator -> Operation]
         /\ op'[o].step = step /\ op'[o].draft = d
         /\ op'[o].status = status /\ op'[o].items = NoRecords
         /\ \A p \in Operator : p # o => op'[p] = op[p]
BY DEF TypeOK, Starts, Operation, NoRecords, Records, Status

\* What is true of every empty list of records.
LEMMA NothingRecorded == \A d \in Draft : NoRecords[d] = "absent"
BY DEF NoRecords

-----------------------------------------------------------------------------
(* The steps                                                               *)

LEMMA DraftsStep == DraftsInv /\ [Next]_vars => DraftsInv'
<1> SUFFICES ASSUME DraftsInv, [Next]_vars PROVE DraftsInv'
  OBVIOUS
<1> USE DEF DraftsInv, TypeOK, DraftedBefore, CommandsAreSound, LeaseProtects, NothingLost,
            OneDraftPerBase, RecordsFollowMemory, Undisturbed, LeaseWorked, AllWritten, InLease, At, history
<1>0. TypeOK
  OBVIOUS
<1>1. CASE UNCHANGED vars
  BY <1>1 DEF vars
<1>2. CASE LeaseExpires
  BY <1>2 DEF LeaseExpires
<1>3. ASSUME NEW o \in Operator, NEW d \in Draft, Propose(o, d)
      PROVE  DraftsInv'
  <2>1. Starts(o, "saving", d, "proposed", FALSE) /\ op[o].step = "idle"
    BY <1>3 DEF Propose, Starts
  <2>2. /\ op' \in [Operator -> Operation]
        /\ op'[o].step = "saving" /\ op'[o].draft = d
        /\ op'[o].status = "proposed" /\ op'[o].items = NoRecords
        /\ \A p \in Operator : p # o => op'[p] = op[p]
    BY <2>1, <1>0, Starting DEF Step, Status
  <2>3. /\ drafted' = drafted \cup {d} /\ d \notin drafted
        /\ \A p \in Operator : op[p].draft # d
        /\ base' \in [Draft -> SUBSET Draft] /\ base'[d] = file
        /\ content' \in [Draft -> SUBSET Draft] /\ content'[d] = file \cup {d}
        /\ \A e \in Draft : e # d => base'[e] = base[e] /\ content'[e] = content[e]
        /\ UNCHANGED <<file, store, lease, written, torn, overlapped>>
    BY <1>3 DEF Propose, Reads
  <2>4. \A e \in drafted : base'[e] = base[e] /\ e # d
    BY <2>3
  <2>5. TypeOK' /\ DraftedBefore' /\ RecordsFollowMemory'
    BY <2>2, <2>3
  <2>6. CommandsAreSound'
    BY <2>2, <2>3, NothingRecorded
  <2>7. Undisturbed' => Undisturbed
    BY <2>3
  <2>8. LeaseProtects'
    BY <2>2, <2>3, <2>4, <2>7
  <2>9. NothingLost' /\ OneDraftPerBase'
    BY <2>1, <2>2, <2>3, <2>4, <2>7
  <2> QED
    BY <2>5, <2>6, <2>8, <2>9
<1>12. ASSUME NEW o \in Operator, NEW d \in Draft, Dream(o, d)
       PROVE  DraftsInv'
  <2>1. Starts(o, "dreaming", d, "proposed", TRUE) /\ op[o].step = "idle"
    BY <1>12 DEF Dream, Starts
  <2>2. /\ op' \in [Operator -> Operation]
        /\ op'[o].step = "dreaming" /\ op'[o].draft = d
        /\ op'[o].status = "proposed" /\ op'[o].items = NoRecords
        /\ \A p \in Operator : p # o => op'[p] = op[p]
    BY <2>1, <1>0, Starting DEF Step, Status
  <2>3. /\ d \notin drafted
        /\ \A p \in Operator : op[p].draft # d
        /\ base' \in [Draft -> SUBSET Draft] /\ base'[d] = file
        /\ content' \in [Draft -> SUBSET Draft] /\ content'[d] = file \cup {d}
        /\ \A e \in Draft : e # d => base'[e] = base[e] /\ content'[e] = content[e]
        /\ UNCHANGED <<file, drafted, store, lease, written, torn, overlapped>>
    BY <1>12 DEF Dream, Reads
  <2>4. \A e \in drafted : base'[e] = base[e] /\ e # d
    BY <2>3
  <2>5. TypeOK' /\ DraftedBefore' /\ RecordsFollowMemory'
    BY <2>2, <2>3
  <2>6. CommandsAreSound'
    BY <2>2, <2>3, NothingRecorded
  <2>7. Undisturbed' => Undisturbed
    BY <2>3
  <2>8. LeaseProtects'
    BY <2>2, <2>3, <2>4, <2>7
  <2>9. NothingLost' /\ OneDraftPerBase'
    BY <2>1, <2>2, <2>3, <2>4, <2>7
  <2> QED
    BY <2>5, <2>6, <2>8, <2>9
<1>13. ASSUME NEW o \in Operator, ProposeDream(o)
       PROVE  DraftsInv'
  <2> DEFINE d == op[o].draft
  <2>1. /\ GoTo(o, "saving") /\ op[o].step = "dreaming" /\ op[o].status = "proposed"
        /\ d \in Draft /\ d \notin drafted
        /\ \A p \in Operator : p # o => op[p].draft # d
    BY <1>13 DEF ProposeDream
  <2>2. /\ op' \in [Operator -> Operation]
        /\ op'[o].step = "saving" /\ op'[o].draft = d
        /\ op'[o].status = op[o].status /\ op'[o].items = NoRecords
        /\ \A p \in Operator : p # o => op'[p] = op[p]
    BY <2>1, <1>0, Moves DEF Step
  <2>3. /\ drafted' = drafted \cup {d}
        /\ base' \in [Draft -> SUBSET Draft] /\ base'[d] = file
        /\ \A e \in Draft : e # d => base'[e] = base[e]
        /\ UNCHANGED <<file, content, store, lease, written, torn, overlapped>>
    BY <1>13, <2>1 DEF ProposeDream
  <2>4. \A e \in drafted : base'[e] = base[e] /\ e # d
    BY <2>1, <2>3
  <2>5. TypeOK' /\ DraftedBefore' /\ RecordsFollowMemory'
    BY <2>1, <2>2, <2>3
  <2>6. CommandsAreSound'
    BY <2>1, <2>2, <2>3, NothingRecorded
  <2>7. Undisturbed' => Undisturbed
    BY <2>1, <2>3
  <2>8. LeaseProtects'
    BY <2>1, <2>2, <2>3, <2>4, <2>7
  <2>9. NothingLost' /\ OneDraftPerBase'
    BY <2>1, <2>2, <2>3, <2>4, <2>7
  <2> QED
    BY <2>5, <2>6, <2>8, <2>9
<1>4. ASSUME NEW o \in Operator, NEW d \in Draft, Reject(o, d) \/ Apply(o, d)
      PROVE  DraftsInv'
  <2>1. PICK review \in BOOLEAN :
          \/ Starts(o, "saving", d, "rejected", review)
          \/ Starts(o, "checked", d, "applied", review)
    BY <1>4 DEF Reject, Apply
  <2>2. /\ op' \in [Operator -> Operation]
        /\ \/ op'[o].step = "saving" /\ op'[o].status = "rejected"
           \/ op'[o].step = "checked" /\ op'[o].status = "applied"
        /\ op'[o].draft = d /\ op'[o].items = NoRecords
        /\ \A p \in Operator : p # o => op'[p] = op[p]
    BY <2>1, <1>0, Starting DEF Step, Status
  <2>3. d \in drafted
    BY <1>4 DEF Reject, Apply, Found
  <2>4. UNCHANGED <<file, drafted, base, content, store, lease, written, torn, overlapped>>
    BY <1>4 DEF Reject, Apply
  <2>5. TypeOK' /\ DraftedBefore' /\ RecordsFollowMemory' /\ OneDraftPerBase'
    BY <2>2, <2>4
  <2>6. CommandsAreSound'
    BY <2>2, <2>3, <2>4, NothingRecorded
  <2>7. LeaseProtects' /\ NothingLost'
    <3>1. op[o].step = "idle"
      BY <2>1 DEF Starts
    <3> QED
      BY <2>2, <2>4, <3>1
  <2> QED
    BY <2>5, <2>6, <2>7
<1>5. ASSUME NEW o \in Operator, LeaseOpen(o)
      PROVE  DraftsInv'
  <2>1. GoTo(o, "opened") /\ op[o].step = "checked"
    BY <1>5 DEF LeaseOpen
  <2>2. /\ op' \in [Operator -> Operation]
        /\ op'[o].step = "opened" /\ op'[o].draft = op[o].draft
        /\ op'[o].status = op[o].status /\ op'[o].items = NoRecords
        /\ \A p \in Operator : p # o => op'[p] = op[p]
    BY <2>1, <1>0, Moves DEF Step
  <2>3. /\ UNCHANGED <<file, drafted, base, content, store, written, torn>> /\ lease' = "unreadable"
        /\ overlapped' = (overlapped \/ \E p \in Operator \ {o} : InLease(p))
    BY <1>5 DEF LeaseOpen
  <2>4. TypeOK' /\ DraftedBefore' /\ RecordsFollowMemory'
    BY <2>2, <2>3
  <2>5. CommandsAreSound'
    BY <2>1, <2>2, <2>3, NothingRecorded
  <2>6. LeaseProtects'
    <3> SUFFICES ASSUME ~torn, ~overlapped'
                 PROVE  LeaseProtects'
      BY <2>3
    <3>1. ~overlapped /\ \A p \in Operator : p # o => ~InLease(p)
      BY <2>3
    <3> QED
      BY <2>2, <2>3, <3>1
  <2>7. NothingLost' /\ OneDraftPerBase'
    BY <2>1, <2>2, <2>3
  <2> QED
    BY <2>4, <2>5, <2>6, <2>7
<1>6. ASSUME NEW o \in Operator, LeaseWrite(o) \/ Compare(o)
      PROVE  DraftsInv'
  <2>1. \/ GoTo(o, "leased") /\ op[o].step = "opened"
        \/ GoTo(o, "compared") /\ op[o].step = "leased" /\ file = base[op[o].draft]
    BY <1>6 DEF LeaseWrite, Compare
  <2>2. /\ op' \in [Operator -> Operation]
        /\ \/ op'[o].step = "leased" /\ op[o].step = "opened"
           \/ op'[o].step = "compared" /\ op[o].step = "leased" /\ file = base[op[o].draft]
        /\ op'[o].draft = op[o].draft
        /\ op'[o].status = op[o].status /\ op'[o].items = NoRecords
        /\ \A p \in Operator : p # o => op'[p] = op[p]
    BY <2>1, <1>0, Moves DEF Step
  <2>3. /\ UNCHANGED <<file, drafted, base, content, store, written, torn, overlapped>>
        /\ lease' \in {lease, "live"}
    BY <1>6 DEF LeaseWrite, Compare
  <2> QED
    BY <2>2, <2>3, NothingRecorded
<1>7. ASSUME NEW o \in Operator, Truncate(o)
      PROVE  DraftsInv'
  <2>1. GoTo(o, "writing") /\ op[o].step = "compared"
    BY <1>7 DEF Truncate
  <2>2. /\ op' \in [Operator -> Operation]
        /\ op'[o].step = "writing" /\ op'[o].draft = op[o].draft
        /\ op'[o].status = op[o].status /\ op'[o].items = NoRecords
        /\ \A p \in Operator : p # o => op'[p] = op[p]
    BY <2>1, <1>0, Moves DEF Step
  <2>3. UNCHANGED <<drafted, base, content, store, lease, written, torn, overlapped>> /\ file' = {}
    BY <1>7 DEF Truncate
  <2>4. ASSUME Undisturbed
        PROVE  /\ written \subseteq base[op[o].draft]
               /\ \A p \in Operator : p # o => ~InLease(p)
    BY <2>1, <2>4
  <2> QED
    BY <2>1, <2>2, <2>3, <2>4, NothingRecorded
<1>8. ASSUME NEW o \in Operator, Fill(o)
      PROVE  DraftsInv'
  <2> DEFINE d == op[o].draft
  <2>1. GoTo(o, "saving") /\ op[o].step = "writing" /\ d \in drafted /\ d \in Draft
    BY <1>8 DEF Fill
  <2>2. /\ op' \in [Operator -> Operation]
        /\ op'[o].step = "saving" /\ op'[o].draft = d
        /\ op'[o].status = op[o].status /\ op'[o].items = NoRecords
        /\ \A p \in Operator : p # o => op'[p] = op[p]
    BY <2>1, <1>0, Moves DEF Step
  <2>3. /\ UNCHANGED <<drafted, base, content, store, lease, torn, overlapped>>
        /\ file' = content[d] /\ written' = written \cup {d}
    BY <1>8 DEF Fill
  <2>4. ASSUME Undisturbed
        PROVE  /\ written \subseteq base[d]
               /\ \A p \in Operator : p # o => ~InLease(p)
    BY <2>1, <2>4
  <2>5. TypeOK' /\ DraftedBefore' /\ RecordsFollowMemory'
    BY <2>1, <2>2, <2>3
  <2>6. CommandsAreSound'
    BY <2>1, <2>2, <2>3, NothingRecorded
  <2>7. LeaseProtects' /\ NothingLost'
    BY <2>1, <2>2, <2>3, <2>4
  <2>8. OneDraftPerBase'
    <3> SUFFICES ASSUME Undisturbed, NEW e \in written, NEW f \in written \cup {d},
                        base[e] = base[f]
                 PROVE  e = f
      BY <2>3
    <3>1. CASE f \in written
      BY <3>1
    <3>2. CASE f = d
      BY <3>2, <2>4
    <3> QED
      BY <3>1, <3>2
  <2> QED
    BY <2>5, <2>6, <2>7, <2>8
<1>9. ASSUME NEW o \in Operator, List(o)
      PROVE  DraftsInv'
  <2>1. PICK step \in {"listed", "reviewed"}, items \in {store.drafts, store.proposals} :
          /\ op' = [op EXCEPT ![o].step = step, ![o].items = items]
          /\ \/ step = "listed" /\ op[o].step = "saving" /\ items = store.drafts
             \/ step = "reviewed" /\ op[o].step = "reviewing"
    BY <1>9 DEF List
  <2>2. items \in Records /\ step \in Step
    BY DEF Step
  <2>3. /\ op' \in [Operator -> Operation]
        /\ op'[o].step = step /\ op'[o].draft = op[o].draft
        /\ op'[o].status = op[o].status /\ op'[o].items = items
        /\ \A p \in Operator : p # o => op'[p] = op[p]
    <3>1. op \in [Operator -> Operation]
      OBVIOUS
    <3> HIDE DEF DraftsInv
    <3> QED
      BY <2>1, <2>2, <3>1 DEF Operation
  <2>4. \A d \in Draft : items[d] = "applied" => d \in written
    BY <2>1
  <2>5. UNCHANGED <<file, drafted, base, content, store, lease, written, torn, overlapped>>
    BY <1>9 DEF List
  <2> QED
    BY <2>1, <2>3, <2>4, <2>5
<1>10. ASSUME NEW o \in Operator, ReplaceDrafts(o) \/ ReplaceProposals(o)
       PROVE  DraftsInv'
  <2>1. op[o].step \in {"listed", "reviewed"} /\ op[o].draft \in drafted
    BY <1>10 DEF ReplaceDrafts, ReplaceProposals
  <2>2. /\ Upserted(o) \in Records
        /\ Upserted(o)[op[o].draft] = op[o].status
        /\ \A d \in Draft : d # op[o].draft => Upserted(o)[d] = op[o].items[d]
    BY <2>1 DEF Upserted, Records, Operation
  <2>3. \A d \in Draft : Upserted(o)[d] = "applied" => d \in written
    BY <2>1, <2>2
  <2>4. /\ store' \in [drafts : Records, proposals : Records]
        /\ \/ store'.drafts = store.drafts
           \/ store'.drafts = Upserted(o) /\ op[o].step = "listed"
        /\ store'.proposals \in {store.proposals, Upserted(o)}
    BY <1>10, <2>2 DEF ReplaceDrafts, ReplaceProposals
  <2>5. \A d \in Draft : store'.drafts[d] # "absent" => d \in drafted
    BY <2>1, <2>2, <2>4
  <2>6. \/ GoTo(o, "leaving") /\ op[o].step = "listed" /\ op[o].status = "applied"
        \/ GoTo(o, "reviewing") /\ op[o].step = "listed"
        \/ Ends(o)
    BY <1>10 DEF ReplaceDrafts, ReplaceProposals, Reviews
  <2>7. /\ op' \in [Operator -> Operation]
        /\ op'[o].items = NoRecords
        /\ \/ op'[o].step = "leaving" /\ op[o].step = "listed" /\ op[o].status = "applied"
           \/ op'[o].step = "reviewing" /\ op[o].step = "listed"
           \/ op'[o].step = "idle" /\ op'[o].draft = Nothing
        /\ op'[o].step # "idle" => op'[o].draft = op[o].draft /\ op'[o].status = op[o].status
        /\ \A p \in Operator : p # o => op'[p] = op[p]
    BY <2>6, <1>0, Moves, Ending DEF Step
  <2>8. UNCHANGED <<file, drafted, base, content, lease, written, torn, overlapped>>
    BY <1>10 DEF ReplaceDrafts, ReplaceProposals
  <2>9. TypeOK' /\ DraftedBefore' /\ RecordsFollowMemory'
    BY <2>3, <2>4, <2>5, <2>7, <2>8
  <2>10. CommandsAreSound'
    BY <2>1, <2>7, <2>8, NothingRecorded
  <2>11. LeaseProtects' /\ NothingLost' /\ OneDraftPerBase'
    BY <2>1, <2>7, <2>8
  <2> QED
    BY <2>9, <2>10, <2>11
<1>11. ASSUME NEW o \in Operator, LeaseRelease(o) \/ HashConflict(o) \/ Stop(o)
       PROVE  DraftsInv'
  <2>1. /\ op' \in [Operator -> Operation]
        /\ op'[o].items = NoRecords
        /\ \/ op'[o].step = "reviewing" /\ op[o].step = "leaving"
              /\ op'[o].draft = op[o].draft /\ op'[o].status = op[o].status
           \/ op'[o].step = "idle" /\ op'[o].draft = Nothing
        /\ \A p \in Operator : p # o => op'[p] = op[p]
    BY <1>11, <1>0, Moves, Ending DEF LeaseRelease, HashConflict, Stop, Reviews, Step
  <2>2. /\ UNCHANGED <<file, drafted, base, content, store, written, overlapped>>
        /\ lease' \in {lease, "none"}
        /\ torn' \in BOOLEAN
        /\ ~torn' => ~torn /\ op[o].step # "writing"
    BY <1>11 DEF LeaseRelease, HashConflict, Stop
  <2>3. TypeOK' /\ DraftedBefore' /\ RecordsFollowMemory' /\ OneDraftPerBase'
    BY <2>1, <2>2
  <2>4. CommandsAreSound'
    BY <2>1, <2>2, NothingRecorded
  <2>5. LeaseProtects'
    BY <2>1, <2>2
  <2>6. NothingLost'
    BY <2>1, <2>2
  <2> QED
    BY <2>3, <2>4, <2>5, <2>6
<1> QED
  BY <1>1, <1>2, <1>3, <1>12, <1>13, <1>4, <1>5, <1>6, <1>7, <1>8, <1>9, <1>10, <1>11 DEF Next

\* The invariant of the drafts, their records and the lease.
THEOREM DraftsKept == Spec => []DraftsInv
BY DraftsInit, DraftsStep, PTL DEF Spec

\* The lease and the hash together lose no applied section, as long as no
\* write is cut and no two operators get into the lease.
THEOREM AppliedStays == Spec => []NothingLost
<1>1. DraftsInv => NothingLost
  BY DEF DraftsInv
<1> QED
  BY <1>1, DraftsKept, PTL

\* Of rival drafts on one content at most one gets into memory.
THEOREM OnePerBase == Spec => []OneDraftPerBase
<1>1. DraftsInv => OneDraftPerBase
  BY DEF DraftsInv
<1> QED
  BY <1>1, DraftsKept, PTL

\* No record runs ahead of the memory, whatever updates the repositories lose.
THEOREM RecordsFollow == Spec => []RecordsFollowMemory
<1>1. DraftsInv => RecordsFollowMemory
  BY DEF DraftsInv
<1> QED
  BY <1>1, DraftsKept, PTL

-----------------------------------------------------------------------------
(* The refinement of the atomic memory                                     *)

atomicVars == <<Memory, drafted, BaseOf, written, OnRecord, ~Undisturbed>>

\* Nothing is taken back that was written, and no promise that is void.
LEMMA Onward ==
  ASSUME DraftsInv, [Next]_vars
  PROVE  written \subseteq written' /\ (Undisturbed' => Undisturbed)
<1> USE DEF Undisturbed, LeaseWorked
<1>1. CASE UNCHANGED vars
  BY <1>1 DEF vars
<1>2. ASSUME NEW o \in Operator, NEW d \in Draft, Propose(o, d) \/ Dream(o, d)
      PROVE  written \subseteq written' /\ (Undisturbed' => Undisturbed)
  <2>1. /\ d \notin drafted /\ UNCHANGED <<written, torn, overlapped>>
        /\ \A e \in Draft : e # d => base'[e] = base[e] /\ content'[e] = content[e]
    BY <1>2 DEF Propose, Dream, Reads, history, DraftsInv, TypeOK
  <2>2. content[d] = base[d] \cup {d}
    BY <2>1 DEF DraftsInv, DraftedBefore
  <2> QED
    BY <2>1, <2>2
<1>3. ASSUME NEW o \in Operator, ProposeDream(o)
      PROVE  written \subseteq written' /\ (Undisturbed' => Undisturbed)
  BY <1>3 DEF ProposeDream, At, history, DraftsInv, TypeOK, DraftedBefore, CommandsAreSound
<1>4. CASE LeaseExpires
  BY <1>4 DEF LeaseExpires, history
<1>5. ASSUME NEW o \in Operator, NEW d \in Draft, Reject(o, d) \/ Apply(o, d)
      PROVE  written \subseteq written' /\ (Undisturbed' => Undisturbed)
  BY <1>5 DEF Reject, Apply, history
<1>6. ASSUME NEW o \in Operator,
             \/ LeaseOpen(o) \/ LeaseWrite(o) \/ LeaseRelease(o) \/ HashConflict(o)
             \/ Compare(o) \/ Truncate(o) \/ Fill(o) \/ List(o) \/ ReplaceDrafts(o)
             \/ ReplaceProposals(o) \/ Stop(o)
      PROVE  written \subseteq written' /\ (Undisturbed' => Undisturbed)
  <2> USE DEF history, LeaseOpen, LeaseWrite, LeaseRelease, HashConflict, Compare, Truncate,
              Fill, List, ReplaceDrafts, ReplaceProposals, Stop
  <2>1. UNCHANGED <<base, content>> /\ written \subseteq written'
    BY <1>6
  <2>2. (torn => torn') /\ (overlapped => overlapped')
    <3>1. CASE LeaseOpen(o)
      BY <3>1, Zenon DEF DraftsInv, TypeOK
    <3>2. CASE Stop(o)
      BY <3>2, Zenon DEF DraftsInv, TypeOK
    <3> QED
      BY <1>6, <3>1, <3>2
  <2> QED
    BY <2>1, <2>2
<1> QED
  BY <1>1, <1>2, <1>3, <1>4, <1>5, <1>6 DEF Next

\* While nobody is writing, the memory is the file; while somebody is, it is what
\* the draft was compared with.
LEMMA MemoryIs ==
  ASSUME DraftsInv, Undisturbed
  PROVE  /\ (\A o \in Operator : ~At(o, "writing")) => Memory = file
         /\ \A o \in Operator : At(o, "writing") => Memory = base[op[o].draft]
<1>1. ASSUME \A o \in Operator : ~At(o, "writing")
      PROVE  Memory = file
  BY <1>1 DEF Memory
<1>2. ASSUME NEW o \in Operator, At(o, "writing")
      PROVE  Memory = base[op[o].draft]
  <2>1. file = {}
    BY <1>2 DEF DraftsInv, LeaseProtects
  <2>2. {p \in Operator : At(p, "writing")} = {o}
    BY <1>2 DEF DraftsInv, LeaseProtects, InLease, At
  <2> QED
    BY <2>1, <2>2 DEF Memory
<1> QED
  BY <1>1, <1>2

\* Neither the file nor anyone who writes it has changed.
LEMMA SameMemory ==
  ASSUME UNCHANGED file,
         \A p \in Operator : At(p, "writing")' <=> At(p, "writing"),
         \A p \in Operator : At(p, "writing") =>
           op'[p].draft = op[p].draft /\ base'[op[p].draft] = base[op[p].draft]
  PROVE  UNCHANGED Memory
<1> DEFINE W == {p \in Operator : At(p, "writing")}
<1>1. W' = W
  OBVIOUS
<1>2. {base'[op'[o].draft] : o \in W} = {base[op[o].draft] : o \in W}
  OBVIOUS
<1> QED
  BY <1>1, <1>2 DEF Memory

\* What leaves the file, the drafts and the records alone and does not begin or
\* end a write is nothing to the memory.
LEMMA HiddenStep ==
  ASSUME DraftsInv, [Next]_vars, Undisturbed',
         UNCHANGED <<file, drafted, written, store>>,
         \A d \in drafted : base'[d] = base[d],
         \A p \in Operator : At(p, "writing")' <=> At(p, "writing"),
         \A p \in Operator : At(p, "writing") => op'[p].draft = op[p].draft
  PROVE  UNCHANGED atomicVars
<1>1. Undisturbed
  BY Onward
<1>2. \A p \in Operator : At(p, "writing") => op[p].draft \in drafted
  BY DEF DraftsInv, CommandsAreSound, At
<1>3. UNCHANGED Memory
  BY <1>2, SameMemory
<1>4. UNCHANGED BaseOf
  BY DEF BaseOf
<1>5. UNCHANGED OnRecord
  BY DEF OnRecord
<1>6. (~Undisturbed)' = ~Undisturbed
  BY <1>1
<1> QED
  BY <1>3, <1>4, <1>5, <1>6 DEF atomicVars

\* The draft of d is made of what the file holds.
LEMMA ProposeStep ==
  ASSUME DraftsInv, [Next]_vars, Undisturbed', NEW o \in Operator, NEW d \in Draft,
         Propose(o, d) \/ (ProposeDream(o) /\ d = op[o].draft)
  PROVE  Atomic!Propose(d)
<1>1. Undisturbed
  BY Onward
<1>2. /\ d \notin drafted /\ drafted' = drafted \cup {d}
      /\ base'[d] = file
      /\ \A e \in drafted : base'[e] = base[e]
      /\ UNCHANGED <<file, written, store>>
  BY DEF Propose, ProposeDream, Reads, history, DraftsInv, TypeOK, CommandsAreSound
<1>3. /\ op'[o].step = "saving" /\ op[o].step \in {"idle", "dreaming"}
      /\ \A p \in Operator : p # o => op'[p] = op[p]
  <2>1. TypeOK
    BY DEF DraftsInv
  <2> QED
    BY <2>1, Starting, Moves DEF Propose, Starts, ProposeDream, At, Step, Status
<1>4. \A p \in Operator : At(p, "writing") => op[p].draft \in drafted
  BY DEF DraftsInv, CommandsAreSound, At
<1>5. UNCHANGED Memory
  <2>1. \A p \in Operator : At(p, "writing")' <=> At(p, "writing")
    BY <1>3 DEF At
  <2>2. \A p \in Operator : At(p, "writing") =>
          op'[p].draft = op[p].draft /\ base'[op[p].draft] = base[op[p].draft]
    BY <1>2, <1>3, <1>4 DEF At
  <2> QED
    BY <1>2, <2>1, <2>2, SameMemory
<1>6. file \in {Memory, {}}
  BY <1>1, MemoryIs DEF DraftsInv, LeaseProtects
<1>7. BaseOf' = [BaseOf EXCEPT ![d] = file]
  BY <1>2 DEF BaseOf
<1>8. UNCHANGED OnRecord
  BY <1>2 DEF OnRecord
<1>9. (~Undisturbed)' = ~Undisturbed
  BY <1>1
<1> QED
  BY <1>2, <1>5, <1>6, <1>7, <1>8, <1>9 DEF Atomic!Propose

\* The draft is written when the file is filled.
LEMMA FillStep ==
  ASSUME DraftsInv, [Next]_vars, Undisturbed', NEW o \in Operator, Fill(o)
  PROVE  Atomic!Apply(op[o].draft)
<1> DEFINE d == op[o].draft
<1>1. Undisturbed
  BY Onward
<1>2. At(o, "writing") /\ d \in drafted /\ d \in Draft
  BY DEF Fill, DraftsInv, CommandsAreSound, DraftedBefore, TypeOK, At
<1>3. Memory = base[d] /\ BaseOf[d] = base[d]
  BY <1>1, <1>2, MemoryIs DEF BaseOf
<1>4. \A p \in Operator : ~At(p, "writing")'
  <2>1. op'[o].step = "saving" /\ \A p \in Operator : p # o => op'[p] = op[p]
    BY DEF Fill, GoTo, At, DraftsInv, TypeOK
  <2>2. \A p \in Operator : p # o => ~At(p, "writing")
    BY <1>1, <1>2 DEF DraftsInv, LeaseProtects, InLease, At
  <2> QED
    BY <2>1, <2>2 DEF At
<1>5. file' = base[d] \cup {d}
  BY <1>1, <1>2 DEF Fill, Undisturbed
<1>6. Memory' = Memory \cup {d}
  <2>1. Memory' = file'
    BY <1>4 DEF Memory
  <2> QED
    BY <2>1, <1>3, <1>5
<1>7. UNCHANGED <<drafted, BaseOf, OnRecord>> /\ written' = written \cup {d}
  BY DEF Fill, BaseOf, OnRecord
<1>8. (~Undisturbed)' = ~Undisturbed
  BY <1>1
<1> QED
  BY <1>2, <1>3, <1>6, <1>7, <1>8 DEF Atomic!Apply

LEMMA AtomicStep ==
  ASSUME DraftsInv, DraftsInv', [Next]_vars
  PROVE  [Atomic!Next]_atomicVars
<1> USE DEF history
<1>1. written \subseteq written' /\ OnRecord' \subseteq written'
  BY Onward DEF DraftsInv, RecordsFollowMemory, OnRecord
<1>2. CASE ~Undisturbed'
  BY <1>1, <1>2 DEF Atomic!Next, Atomic!Disturb
<1>3. CASE Undisturbed'
  <2>1. Undisturbed /\ TypeOK
    BY <1>3, Onward DEF DraftsInv
  <2>2. CASE UNCHANGED vars
    BY <2>2 DEF vars, atomicVars, Memory, BaseOf, OnRecord, Undisturbed, LeaseWorked, At
  <2>3. CASE LeaseExpires
    BY <1>3, <2>3, HiddenStep DEF LeaseExpires, At
  <2>4. ASSUME NEW o \in Operator, NEW d \in Draft, Propose(o, d)
        PROVE  Atomic!Next
    BY <1>3, <2>1, <2>4, ProposeStep DEF Atomic!Next
  <2>5. ASSUME NEW o \in Operator, ProposeDream(o)
        PROVE  Atomic!Next
    <3>1. op[o].draft \in Draft
      BY <2>5 DEF ProposeDream, DraftsInv, CommandsAreSound, At
    <3> QED
      BY <1>3, <2>1, <2>5, <3>1, ProposeStep DEF Atomic!Next
  <2>6. ASSUME NEW o \in Operator, NEW d \in Draft, Dream(o, d) \/ Reject(o, d) \/ Apply(o, d)
        PROVE  UNCHANGED atomicVars
    <3>1. PICK step \in {"dreaming", "saving", "checked"}, status \in Status, review \in BOOLEAN :
            Starts(o, step, d, status, review)
      BY <2>6 DEF Dream, Reject, Apply, Status
    <3>2. /\ op[o].step = "idle" /\ op'[o].step = step
          /\ \A p \in Operator : p # o => op'[p] = op[p]
      BY <2>1, <3>1, Starting DEF Starts, At, Step
    <3>3. /\ UNCHANGED <<file, drafted, written, store>>
          /\ \A e \in drafted : base'[e] = base[e]
      BY <2>1, <2>6 DEF Dream, Reads, Reject, Apply, TypeOK
    <3> QED
      BY <1>3, <3>2, <3>3, HiddenStep DEF At
  <2>7. ASSUME NEW o \in Operator, LeaseOpen(o) \/ LeaseWrite(o) \/ Compare(o)
        PROVE  UNCHANGED atomicVars
    <3>1. PICK step \in {"opened", "leased", "compared"} : GoTo(o, step) /\ ~At(o, "writing")
      BY <2>7 DEF LeaseOpen, LeaseWrite, Compare, At
    <3>2. op'[o].step = step /\ \A p \in Operator : p # o => op'[p] = op[p]
      BY <2>1, <3>1, Moves DEF Step
    <3>3. UNCHANGED <<file, drafted, base, written, store>>
      BY <2>7 DEF LeaseOpen, LeaseWrite, Compare
    <3> QED
      BY <1>3, <3>1, <3>2, <3>3, HiddenStep DEF At
  <2>8. ASSUME NEW o \in Operator, LeaseRelease(o) \/ HashConflict(o) \/ Stop(o)
        PROVE  UNCHANGED atomicVars
    <3>1. ~At(o, "writing")
      BY <1>3, <2>8 DEF LeaseRelease, HashConflict, Stop, Undisturbed, LeaseWorked, At
    <3>2. op'[o].step \in {"idle", "reviewing"} /\ \A p \in Operator : p # o => op'[p] = op[p]
      BY <2>1, <2>8, Moves, Ending DEF LeaseRelease, HashConflict, Stop, Reviews, Step
    <3>3. UNCHANGED <<file, drafted, base, written, store>>
      BY <2>8 DEF LeaseRelease, HashConflict, Stop
    <3> QED
      BY <1>3, <3>1, <3>2, <3>3, HiddenStep DEF At
  <2>9. ASSUME NEW o \in Operator, List(o)
        PROVE  UNCHANGED atomicVars
    <3>1. /\ op'[o].step \in {"listed", "reviewed"} /\ op[o].step # "writing"
          /\ \A p \in Operator : p # o => op'[p] = op[p]
      <4>1. op \in [Operator -> Operation]
        BY <2>1 DEF TypeOK
      <4>2. PICK step \in {"listed", "reviewed"}, items \in {store.drafts, store.proposals} :
              op' = [op EXCEPT ![o].step = step, ![o].items = items]
        BY <2>9 DEF List
      <4> QED
        BY <2>9, <4>1, <4>2 DEF List, At, Operation
    <3>2. UNCHANGED <<file, drafted, base, written, store>>
      BY <2>9 DEF List
    <3> QED
      BY <1>3, <3>1, <3>2, HiddenStep DEF At
  <2>10. ASSUME NEW o \in Operator, ReplaceDrafts(o) \/ ReplaceProposals(o)
         PROVE  Atomic!Record
    <3>1. /\ op'[o].step \in {"leaving", "reviewing", "idle"} /\ op[o].step # "writing"
          /\ \A p \in Operator : p # o => op'[p] = op[p]
      BY <2>1, <2>10, Moves, Ending DEF ReplaceDrafts, ReplaceProposals, Reviews, At, Step
    <3>2. UNCHANGED <<file, drafted, base, written>>
      BY <2>10 DEF ReplaceDrafts, ReplaceProposals
    <3>3. UNCHANGED Memory
      BY <3>1, <3>2, SameMemory DEF At
    <3>4. UNCHANGED BaseOf /\ (~Undisturbed)' = ~Undisturbed
      BY <1>3, <2>1, <3>2 DEF BaseOf
    <3> QED
      BY <1>1, <3>2, <3>3, <3>4 DEF Atomic!Record
  <2>11. ASSUME NEW o \in Operator, Truncate(o)
         PROVE  UNCHANGED atomicVars
    <3>1. /\ At(o, "compared") /\ At(o, "writing")'
          /\ op'[o].draft = op[o].draft
          /\ \A p \in Operator : p # o => op'[p] = op[p]
      BY <2>1, <2>11, Moves DEF Truncate, At, Step
    <3>2. \A p \in Operator : ~At(p, "writing")
      BY <2>1, <3>1 DEF DraftsInv, LeaseProtects, InLease, At
    <3>3. UNCHANGED <<drafted, base, written, store>>
      BY <2>11 DEF Truncate
    <3>4. Memory = base[op[o].draft]
      BY <2>1, <3>1, <3>2, MemoryIs DEF DraftsInv, LeaseProtects
    <3>5. file' = {} /\ {p \in Operator : At(p, "writing")'} = {o}
      BY <2>11, <3>1, <3>2 DEF Truncate, At
    <3>6. Memory' = base[op[o].draft]
      BY <3>1, <3>3, <3>5 DEF Memory
    <3>7. UNCHANGED <<BaseOf, OnRecord>> /\ (~Undisturbed)' = ~Undisturbed
      BY <1>3, <2>1, <3>3 DEF BaseOf, OnRecord
    <3> QED
      BY <3>3, <3>4, <3>6, <3>7 DEF atomicVars
  <2>12. ASSUME NEW o \in Operator, Fill(o)
         PROVE  Atomic!Next
    <3>1. op[o].draft \in Draft
      BY <2>12 DEF Fill, DraftsInv, CommandsAreSound, DraftedBefore, TypeOK, At
    <3> QED
      BY <1>3, <2>1, <2>12, <3>1, FillStep DEF Atomic!Next
  <2>13. Atomic!Record => Atomic!Next
    BY <2>1 DEF Atomic!Next
  <2> QED
    BY <2>2, <2>3, <2>4, <2>5, <2>6, <2>7, <2>8, <2>9, <2>10, <2>11, <2>12, <2>13 DEF Next
<1> QED
  BY <1>2, <1>3

LEMMA AtomicInit == Init => Atomic!Init
<1> SUFFICES ASSUME Init PROVE Atomic!Init
  OBVIOUS
<1>1. Memory = {} /\ BaseOf = [d \in Draft |-> {}] /\ OnRecord = {}
  BY DEF Init, Memory, BaseOf, OnRecord, NoRecords, Idle, At
<1>2. Undisturbed
  BY DEF Init, Undisturbed, LeaseWorked
<1> QED
  BY <1>1, <1>2 DEF Init, Atomic!Init

\* Drafts, lease, truncated writes and records of several operators implement a
\* memory that is compared and written in one step, while the lease works.
THEOREM DraftsImplementAtomicMemory == Spec => ImplementsAtomicMemory
<1>1. DraftsInv /\ DraftsInv' /\ [Next]_vars => [Atomic!Next]_(Atomic!memoryVars)
  BY AtomicStep DEF atomicVars, Atomic!memoryVars
<1> QED
  BY <1>1, AtomicInit, DraftsKept, PTL DEF Spec, ImplementsAtomicMemory, Atomic!Spec

LEMMA AtomicInvStep ==
  ASSUME Atomic!AtomicInv, Atomic!Next
  PROVE  Atomic!AtomicInv'
<1> USE DEF Atomic!AtomicInv, Atomic!AppliedOnce
<1>1. ASSUME NEW d \in Draft, ~(~Undisturbed), Atomic!Propose(d)
      PROVE  Atomic!AtomicInv'
  <2>1. PICK found \in {Memory, {}} : BaseOf' = [BaseOf EXCEPT ![d] = found]
    BY <1>1 DEF Atomic!Propose
  <2>2. /\ drafted' = drafted \cup {d} /\ d \notin drafted
        /\ UNCHANGED <<Memory, written, ~Undisturbed>>
    BY <1>1 DEF Atomic!Propose
  <2>3. /\ BaseOf' \in [Draft -> SUBSET drafted'] /\ BaseOf'[d] = found
        /\ \A e \in Draft : e # d => BaseOf'[e] = BaseOf[e]
    BY <1>1, <2>1, <2>2
  <2> QED
    BY <1>1, <2>2, <2>3
<1>2. ASSUME NEW d \in Draft, ~(~Undisturbed), Atomic!Apply(d)
      PROVE  Atomic!AtomicInv'
  BY <1>2 DEF Atomic!Apply
<1>3. CASE Atomic!Record \/ Atomic!Disturb
  BY <1>3 DEF Atomic!Record, Atomic!Disturb
<1> QED
  BY <1>1, <1>2, <1>3 DEF Atomic!Next

\* Whatever implements the atomic memory holds every draft that was written, and
\* of the drafts for one memory one at most.
THEOREM AtomicMemoryAppliesOnce == Atomic!Spec => []Atomic!AppliedOnce
<1>1. Atomic!Init => Atomic!AtomicInv
  BY DEF Atomic!Init, Atomic!AtomicInv, Atomic!AppliedOnce
<1>2. Atomic!AtomicInv /\ [Atomic!Next]_(Atomic!memoryVars) => Atomic!AtomicInv'
  BY AtomicInvStep DEF Atomic!AtomicInv, Atomic!AppliedOnce, Atomic!memoryVars
<1>3. Atomic!AtomicInv => Atomic!AppliedOnce
  BY DEF Atomic!AtomicInv
<1> QED
  BY <1>1, <1>2, <1>3, PTL DEF Atomic!Spec
=============================================================================
