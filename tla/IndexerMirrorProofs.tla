------------------------ MODULE IndexerMirrorProofs -------------------------
(***************************************************************************)
(* Proofs about IndexerMirror, for any number of notes, blocks, events,    *)
(* restarts, undecodable batches and failed writes: IndexerInv is          *)
(* inductive, and implies that the checkpoint and the served trees are     *)
(* trees of the vault.                                                     *)
(***************************************************************************)
EXTENDS IndexerMirror, FiniteSetTheorems, TLAPS

\* What is said of the vault's log.
LogInv == LogIsOrdered /\ RootsFollowEvents /\ RootsDifferByEvents /\ VaultMatchesLog

\* The number of notes, and that ids are the numbers below it.
LEMMA NoteIds ==
  /\ Cardinality(Notes) \in Nat
  /\ Notes = 0..(Cardinality(Notes) - 1)
BY FS_CardinalityType, IndexerAssumption

\* The empty mirror has the leaves of a log without events.
LEMMA EmptyFollows ==
  /\ EmptyMirror \in TreeMirror /\ Coherent(EmptyMirror)
  /\ Follows(EmptyMirror, 0, 0)
BY NoteIds DEF EmptyMirror, TreeMirror, Coherent, Follows, DepositsUpTo, RootAfter

-----------------------------------------------------------------------------
(* What the mirror follows *)

\* A later block has no fewer events before it.
LEMMA EventsBeforeMonotone ==
  ASSUME LogIsOrdered, NEW a \in 0..(MaxHeight + 1), NEW b \in 0..(MaxHeight + 1), a <= b,
         IndexerTypeOK
  PROVE  EventsBefore(a) <= EventsBefore(b)
<1>1. EventsBefore(a) \in 0..Len(chain) /\ EventsBefore(b) \in 0..Len(chain)
  BY DEF LogIsOrdered
<1>2. CASE EventsBefore(a) = 0
  BY <1>1, <1>2
<1>3. CASE EventsBefore(a) # 0
  <2> DEFINE i == EventsBefore(a)
  <2>1. i \in 1..Len(chain) /\ i <= i
    BY <1>1, <1>3
  <2>2. chain[i].block < a
    BY <2>1 DEF LogIsOrdered
  <2>3. chain[i] \in VaultEvent
    BY <2>1 DEF IndexerTypeOK
  <2>4. chain[i].block \in Nat
    BY <2>3 DEF VaultEvent
  <2>5. chain[i].block < b
    BY <2>2, <2>4, IndexerAssumption
  <2> QED BY <2>1, <2>5 DEF LogIsOrdered
<1> QED BY <1>2, <1>3

\* A mirror that may be ahead by the events up to q may be so by more.
LEMMA FollowsFurther ==
  ASSUME NEW m, NEW k \in Nat, NEW q \in Nat, NEW r \in Nat, q <= r, Follows(m, k, q)
  PROVE  Follows(m, k, r)
<1>1. DepositsUpTo(q) \subseteq DepositsUpTo(r)
  BY DEF DepositsUpTo
<1>2. \A i \in (k + 1)..q : i \in (k + 1)..r
  OBVIOUS
<1> QED BY <1>1, <1>2 DEF Follows

\* A mirror that has applied k events still has the leaves after fewer, except of the
\* notes touched in between.
LEMMA FollowsBack ==
  ASSUME NEW m, NEW j \in 0..Len(chain), NEW k \in 0..Len(chain), NEW q \in Nat,
         j <= k, Follows(m, k, q), RootsDifferByEvents, IndexerTypeOK
  PROVE  Follows(m, j, q)
<1> Len(chain) \in Nat
  BY DEF IndexerTypeOK
<1>1. DepositsUpTo(j) \subseteq DepositsUpTo(k)
  BY DEF DepositsUpTo
<1>2. (\A i \in (j + 1)..k : i \in (j + 1)..q) /\ (\A i \in (k + 1)..q : i \in (j + 1)..q) /\ j <= q
  BY DEF Follows
<1>3. ASSUME NEW n \in Notes
      PROVE  (n \in m.leaves <=> n \in RootAfter(j)) \/ \E i \in (j + 1)..q : Touches(chain[i], n)
  <2>1. (n \in RootAfter(j) <=> n \in RootAfter(k)) \/ \E i \in (j + 1)..k : Touches(chain[i], n)
    BY DEF RootsDifferByEvents
  <2>2. (n \in m.leaves <=> n \in RootAfter(k)) \/ \E i \in (k + 1)..q : Touches(chain[i], n)
    BY DEF Follows
  <2> QED BY <2>1, <2>2, <1>2
<1> QED BY <1>1, <1>2, <1>3 DEF Follows

\* The tree of the vault is a set of notes.
LEMMA RootType ==
  ASSUME IndexerTypeOK, NEW k \in 0..Len(chain)
  PROVE  RootAfter(k) \in SUBSET Notes
<1>1. CASE k = 0
  BY <1>1 DEF RootAfter
<1>2. CASE k # 0
  <2>1. k \in 1..Len(chain)
    BY <1>2 DEF IndexerTypeOK
  <2>2. chain[k] \in VaultEvent
    BY <2>1 DEF IndexerTypeOK
  <2> QED BY <2>2, <1>2 DEF RootAfter, VaultEvent
<1> QED BY <1>1, <1>2

\* A mirror that is ahead of nothing has exactly the vault's leaves.
LEMMA FollowsExactly ==
  ASSUME IndexerTypeOK, NEW m \in TreeMirror, NEW k \in 0..Len(chain), Follows(m, k, k)
  PROVE  m.leaves = RootAfter(k) /\ m.original_leaves = DepositsUpTo(k)
<1>1. RootAfter(k) \in SUBSET Notes
  BY RootType
<1>2. m.leaves \in SUBSET Notes
  BY DEF TreeMirror
<1>3. (k + 1)..k = {}
  BY DEF IndexerTypeOK
<1>4. \A n \in Notes : n \in m.leaves <=> n \in RootAfter(k)
  BY <1>3 DEF Follows
<1>5. m.original_leaves = DepositsUpTo(k)
  BY DEF Follows
<1> QED BY <1>1, <1>2, <1>4, <1>5

\* A snapshot keeps a coherent mirror as it is.
LEMMA SnapshotKeeps ==
  ASSUME NEW m \in TreeMirror, Coherent(m)
  PROVE  snapshot(m) = m
<1>1. m.next_note_id \in Nat
  BY NoteIds DEF TreeMirror
<1>2. \A n \in m.leaves : n < m.next_note_id
  BY <1>1 DEF Coherent
<1>3. {n \in m.leaves : n < m.next_note_id} = m.leaves
  BY <1>2
<1> QED BY <1>3 DEF snapshot, TreeMirror

\* The notes deposited after one more event.
LEMMA DepositsStep ==
  ASSUME NEW k \in Nat
  PROVE  DepositsUpTo(k + 1) = IF chain[k + 1].kind = "NoteDeposited"
                                 THEN DepositsUpTo(k) \cup {chain[k + 1].note}
                                 ELSE DepositsUpTo(k)
<1>1. 1..(k + 1) = (1..k) \cup {k + 1}
  OBVIOUS
<1> QED BY <1>1 DEF DepositsUpTo

(***************************************************************************)
(* process_event takes a mirror from k events to k + 1, although it may    *)
(* have applied some of the events up to q before.                         *)
(***************************************************************************)
LEMMA ApplyFollows ==
  ASSUME IndexerTypeOK, RootsFollowEvents,
         NEW m \in TreeMirror, Coherent(m),
         NEW k \in Nat, NEW q \in 0..Len(chain), k < q, Follows(m, k, q)
  PROVE  /\ process_event(m, chain[k + 1]) \in TreeMirror
         /\ Coherent(process_event(m, chain[k + 1]))
         /\ Follows(process_event(m, chain[k + 1]), k + 1, q)
<1> DEFINE e == chain[k + 1]
           before == RootAfter(k)
<1> PICK m2 : m2 = process_event(m, e)
  OBVIOUS
<1> SUFFICES m2 \in TreeMirror /\ Coherent(m2) /\ Follows(m2, k + 1, q)
  OBVIOUS
<1> Len(chain) \in Nat /\ k + 1 \in 1..Len(chain) /\ k + 1 - 1 = k /\ k + 1 # 0
  BY DEF IndexerTypeOK
<1>1. e \in VaultEvent
  BY DEF IndexerTypeOK
<1>2. e.note \in Notes /\ e.note \in 0..(Cardinality(Notes) - 1) /\ e.note \in Nat
  BY <1>1, NoteIds DEF VaultEvent
<1>3. m.leaves \in SUBSET Notes /\ m.original_leaves \in SUBSET Notes
      /\ m.next_note_id \in 0..Cardinality(Notes) /\ m.next_note_id \in Nat
  BY NoteIds DEF TreeMirror
<1>4. /\ e.root = CASE e.kind \in {"NoteDeposited", "EscapeWithdrawalChallenged"} -> before \cup {e.note}
                    [] e.kind = "EscapeWithdrawalFinalized" -> before
                    [] OTHER -> before \ {e.note}
      /\ e.kind = "NoteDeposited" => DepositsUpTo(k) = 0..(e.note - 1)
      /\ e.kind # "NoteDeposited" => e.note \in DepositsUpTo(k)
  <2> PICK i \in 1..Len(chain) : i = k + 1
    OBVIOUS
  <2>1. /\ chain[i].root =
             CASE chain[i].kind \in {"NoteDeposited", "EscapeWithdrawalChallenged"} ->
                    RootAfter(i - 1) \cup {chain[i].note}
               [] chain[i].kind = "EscapeWithdrawalFinalized" -> RootAfter(i - 1)
               [] OTHER -> RootAfter(i - 1) \ {chain[i].note}
        /\ IF chain[i].kind = "NoteDeposited" THEN DepositsUpTo(i - 1) = 0..(chain[i].note - 1)
                                              ELSE chain[i].note \in DepositsUpTo(i - 1)
    BY Zenon DEF RootsFollowEvents
  <2>2. i - 1 = k
    OBVIOUS
  <2> QED BY <2>1, <2>2
<1>5. RootAfter(k + 1) = e.root
  BY DEF RootAfter
<1>6. DepositsUpTo(k) \subseteq m.original_leaves /\ m.original_leaves \subseteq DepositsUpTo(q)
  BY DEF Follows
<1>7. m.original_leaves = 0..(m.next_note_id - 1) /\ m.leaves \subseteq m.original_leaves
  BY DEF Coherent
<1>8. DepositsUpTo(k + 1) \subseteq DepositsUpTo(q)
  BY DEF DepositsUpTo
<1>9. DepositsUpTo(k + 1) = IF e.kind = "NoteDeposited" THEN DepositsUpTo(k) \cup {e.note}
                                                       ELSE DepositsUpTo(k)
  BY DepositsStep
<1>10. \A n \in Notes : ~Touches(e, n) =>
         \/ n \in m.leaves <=> n \in before
         \/ \E i \in (k + 2)..q : Touches(chain[i], n)
  <2> SUFFICES ASSUME NEW n \in Notes, ~Touches(e, n), NEW i \in (k + 1)..q, Touches(chain[i], n)
               PROVE  \E x \in (k + 2)..q : Touches(chain[x], n)
    BY DEF Follows
  <2>1. i # k + 1
    OBVIOUS
  <2>2. i \in (k + 2)..q
    BY <2>1
  <2> QED BY <2>2
\* It is enough to know the new mirror, note by note.
<1>11. ASSUME m2.leaves \in SUBSET Notes, m2.original_leaves \in SUBSET Notes,
              m2.next_note_id \in 0..Cardinality(Notes), m2 \in TreeMirror, Coherent(m2),
              DepositsUpTo(k + 1) \subseteq m2.original_leaves,
              m2.original_leaves \subseteq DepositsUpTo(q),
              \A n \in Notes : IF Touches(e, n) THEN n \in m2.leaves <=> n \in e.root
                               ELSE /\ n \in m2.leaves <=> n \in m.leaves
                                    /\ n \in e.root <=> n \in before
       PROVE  m2 \in TreeMirror /\ Coherent(m2) /\ Follows(m2, k + 1, q)
  <2>1. ASSUME NEW n \in Notes
        PROVE  (n \in m2.leaves <=> n \in RootAfter(k + 1)) \/ \E i \in ((k + 1) + 1)..q : Touches(chain[i], n)
    <3>1. (k + 1) + 1 = k + 2
      OBVIOUS
    <3> QED BY <3>1, <1>5, <1>10, <1>11
  <2>2. k + 1 <= q
    OBVIOUS
  <2> QED BY <2>1, <2>2, <1>11 DEF Follows
<1>12. CASE e.kind = "NoteDeposited"
  <2> DEFINE next == IF m.next_note_id > e.note THEN m.next_note_id ELSE e.note + 1
  <2>1. m2 = [leaves |-> m.leaves \cup {e.note}, original_leaves |-> m.original_leaves \cup {e.note},
              next_note_id |-> next]
    BY <1>12 DEF process_event
  <2>2. next \in 0..Cardinality(Notes)
    BY <1>2, <1>3, NoteIds
  <2>3. m2 \in TreeMirror
    BY <2>1, <2>2, <1>2, <1>3 DEF TreeMirror
  <2>4. 0..(e.note - 1) \subseteq 0..(m.next_note_id - 1)
    BY <1>4, <1>6, <1>7, <1>12
  <2>5. e.note <= m.next_note_id
    <3>1. CASE e.note = 0
      BY <3>1, <1>3
    <3>2. CASE e.note # 0
      <4>1. e.note - 1 \in 0..(e.note - 1)
        BY <3>2, <1>2
      <4>2. e.note - 1 \in 0..(m.next_note_id - 1)
        BY <4>1, <2>4
      <4> QED BY <4>2, <1>2, <1>3
    <3> QED BY <3>1, <3>2
  <2>6. (0..(m.next_note_id - 1)) \cup {e.note} = 0..(next - 1)
    BY <2>5, <1>2, <1>3
  <2>7. Coherent(m2)
    BY <2>1, <2>6, <1>7 DEF Coherent
  <2>8. DepositsUpTo(k + 1) \subseteq m2.original_leaves
    BY <1>6, <1>9, <1>12, <2>1
  <2>9. m2.original_leaves \subseteq DepositsUpTo(q)
    BY <1>6, <1>8, <1>9, <1>12, <2>1
  <2>10. e.root = before \cup {e.note}
    BY <1>4, <1>12
  <2> HIDE DEF e, before, next
  <2>11. \A n \in Notes : IF Touches(e, n) THEN n \in m2.leaves <=> n \in e.root
                          ELSE /\ n \in m2.leaves <=> n \in m.leaves
                               /\ n \in e.root <=> n \in before
    BY <2>1, <2>10, <1>12 DEF Touches
  <2> QED BY <1>2, <1>3, <2>1, <2>2, <2>3, <2>7, <2>8, <2>9, <2>11, <1>11
<1>13. CASE e.kind = "EscapeWithdrawalFinalized"
  <2>1. m2 = m
    BY <1>13 DEF process_event
  <2>2. e.root = before
    BY <1>4, <1>13
  <2> HIDE DEF e, before
  <2>3. \A n \in Notes : IF Touches(e, n) THEN n \in m2.leaves <=> n \in e.root
                          ELSE /\ n \in m2.leaves <=> n \in m.leaves
                               /\ n \in e.root <=> n \in before
    BY <2>1, <2>2, <1>13 DEF Touches
  <2>4. DepositsUpTo(k + 1) = DepositsUpTo(k)
    BY <1>9, <1>13
  <2> QED BY <1>3, <1>6, <2>1, <2>3, <2>4, <1>11
<1>14. CASE e.kind = "EscapeWithdrawalChallenged"
  <2>1. e.note \in m.original_leaves
    BY <1>4, <1>6, <1>14
  <2>2. m2 = [m EXCEPT !.leaves = @ \cup {e.note}]
    <3>1. m.original_leaves \cap {e.note} = {e.note}
      BY <2>1
    <3>2. m2 = [m EXCEPT !.leaves = @ \cup (m.original_leaves \cap {e.note})]
      BY <1>14 DEF process_event
    <3> QED BY <3>1, <3>2
  <2>3. /\ m2.leaves = m.leaves \cup {e.note} /\ m2.original_leaves = m.original_leaves
        /\ m2.next_note_id = m.next_note_id /\ m2 \in TreeMirror
    BY <2>2, <1>2 DEF TreeMirror
  <2>4. Coherent(m2)
    BY <2>1, <2>3, <1>7 DEF Coherent
  <2>5. e.root = before \cup {e.note}
    BY <1>4, <1>14
  <2> HIDE DEF e, before
  <2>6. \A n \in Notes : IF Touches(e, n) THEN n \in m2.leaves <=> n \in e.root
                          ELSE /\ n \in m2.leaves <=> n \in m.leaves
                               /\ n \in e.root <=> n \in before
    BY <2>3, <2>5, <1>14 DEF Touches
  <2>7. DepositsUpTo(k + 1) = DepositsUpTo(k)
    BY <1>9, <1>14
  <2> QED BY <1>2, <1>3, <1>6, <2>3, <2>4, <2>6, <2>7, <1>11
<1>15. CASE e.kind \notin {"NoteDeposited", "EscapeWithdrawalFinalized", "EscapeWithdrawalChallenged"}
  <2>1. m2 = [m EXCEPT !.leaves = @ \ {e.note}]
    BY <1>15 DEF process_event
  <2>3. /\ m2.leaves = m.leaves \ {e.note} /\ m2.original_leaves = m.original_leaves
        /\ m2.next_note_id = m.next_note_id /\ m2 \in TreeMirror
    BY <2>1 DEF TreeMirror
  <2>4. Coherent(m2)
    BY <2>3, <1>7 DEF Coherent
  <2>5. e.root = before \ {e.note}
    BY <1>4, <1>15
  <2> HIDE DEF e, before
  <2>6. \A n \in Notes : IF Touches(e, n) THEN n \in m2.leaves <=> n \in e.root
                          ELSE /\ n \in m2.leaves <=> n \in m.leaves
                               /\ n \in e.root <=> n \in before
    BY <2>3, <2>5, <1>15 DEF Touches
  <2>7. DepositsUpTo(k + 1) = DepositsUpTo(k)
    BY <1>9, <1>15
  <2> QED BY <1>3, <1>6, <2>3, <2>4, <2>6, <2>7, <1>11
<1> QED BY <1>12, <1>13, <1>14, <1>15

-----------------------------------------------------------------------------
(* The chain *)

\* What is said of the log is kept when nothing is logged.
LEMMA SameLog ==
  ASSUME chain' = chain
  PROVE  /\ \A b : EventsBefore(b)' = EventsBefore(b)
         /\ \A k : RootAfter(k)' = RootAfter(k)
         /\ \A k : DepositsUpTo(k)' = DepositsUpTo(k)
         /\ \A m, k, q : Follows(m, k, q)' = Follows(m, k, q)
<1>1. \A b : EventsBefore(b)' = EventsBefore(b)
  BY Zenon DEF EventsBefore
<1>2. \A k : RootAfter(k)' = RootAfter(k)
  BY Zenon DEF RootAfter
<1>3. \A k : DepositsUpTo(k)' = DepositsUpTo(k)
  BY Zenon DEF DepositsUpTo
<1>4. \A m, k, q : Follows(m, k, q)' = Follows(m, k, q)
  BY <1>2, <1>3, Zenon DEF Follows
<1> QED BY <1>1, <1>2, <1>3, <1>4

\* A step that logs nothing keeps what is said of the log, also when a block is mined.
LEMMA QuietLog ==
  ASSUME IndexerTypeOK, LogInv, chain' = chain, vault' = vault,
         height' \in Nat, height <= height'
  PROVE  LogInv'
<1>1. LogIsOrdered'
  <2>1. \A i \in 1..Len(chain) : 0 < chain[i].block /\ chain[i].block <= height' + 1
    <3> SUFFICES ASSUME NEW i \in 1..Len(chain)
                 PROVE  0 < chain[i].block /\ chain[i].block <= height' + 1
      OBVIOUS
    <3>1. chain[i] \in VaultEvent
      BY DEF IndexerTypeOK
    <3>2. chain[i].block \in Nat /\ height \in Nat
      BY <3>1, IndexerAssumption DEF VaultEvent, IndexerTypeOK
    <3>3. 0 < chain[i].block /\ chain[i].block <= height + 1
      BY DEF LogInv, LogIsOrdered
    <3> QED BY <3>2, <3>3
  <2> QED BY <2>1, SameLog DEF LogInv, LogIsOrdered
<1>2. RootsFollowEvents'
  BY SameLog, Zenon DEF LogInv, RootsFollowEvents
<1>3. RootsDifferByEvents'
  BY SameLog DEF LogInv, RootsDifferByEvents
<1>4. VaultMatchesLog'
  BY SameLog DEF LogInv, VaultMatchesLog, ActiveNotes
<1> QED BY <1>1, <1>2, <1>3, <1>4 DEF LogInv

\* One more event at the end of the log leaves what is said of the events before it.
LEMMA LongerLog ==
  ASSUME IndexerTypeOK, NEW e \in VaultEvent, chain' = Append(chain, e), e.block = height + 1
  PROVE  /\ Len(chain) \in Nat /\ Len(chain') = Len(chain) + 1
         /\ \A i \in 1..Len(chain) : chain'[i] = chain[i]
         /\ chain'[Len(chain) + 1] = e
         /\ \A k \in 0..Len(chain) : RootAfter(k)' = RootAfter(k)
         /\ \A k \in 0..Len(chain) : DepositsUpTo(k)' = DepositsUpTo(k)
         /\ \A b \in 0..(height + 1) : EventsBefore(b)' = EventsBefore(b)
         /\ \A m : \A k, q \in 0..Len(chain) : Follows(m, k, q)' = Follows(m, k, q)
<1>1. /\ Len(chain) \in Nat /\ Len(chain') = Len(chain) + 1
      /\ \A i \in 1..Len(chain) : chain'[i] = chain[i]
      /\ chain'[Len(chain) + 1] = e
  BY DEF IndexerTypeOK
<1>2. ASSUME NEW k \in 0..Len(chain)
      PROVE  RootAfter(k)' = RootAfter(k)
  BY <1>1 DEF RootAfter
<1>3. ASSUME NEW k \in 0..Len(chain)
      PROVE  DepositsUpTo(k)' = DepositsUpTo(k)
  <2>1. \A i \in 1..k : i \in 1..Len(chain)
    BY <1>1
  <2>2. \A i \in 1..k : chain'[i] = chain[i]
    BY <2>1, <1>1
  <2>3. {j \in 1..k : chain'[j].kind = "NoteDeposited"} = {j \in 1..k : chain[j].kind = "NoteDeposited"}
    BY <2>2
  <2> QED BY <2>2, <2>3 DEF DepositsUpTo
<1>4. ASSUME NEW b \in 0..(height + 1)
      PROVE  EventsBefore(b)' = EventsBefore(b)
  <2>1. ~(height + 1 < b) /\ height \in Nat
    BY IndexerAssumption DEF IndexerTypeOK
  <2>2. 1..(Len(chain) + 1) = (1..Len(chain)) \cup {Len(chain) + 1}
    BY <1>1
  <2>3. \A i \in 1..(Len(chain) + 1) :
          chain'[i].block < b <=> i \in 1..Len(chain) /\ chain[i].block < b
    BY <1>1, <2>1, <2>2
  <2>4. {i \in 1..Len(chain') : chain'[i].block < b} = {i \in 1..Len(chain) : chain[i].block < b}
    BY <1>1, <2>2, <2>3
  <2> QED BY <2>4 DEF EventsBefore
<1>5. ASSUME NEW m, NEW k \in 0..Len(chain), NEW q \in 0..Len(chain)
      PROVE  Follows(m, k, q)' = Follows(m, k, q)
  <2>1. \A i \in (k + 1)..q : i \in 1..Len(chain)
    BY <1>1
  <2>2. \A i \in (k + 1)..q : chain'[i] = chain[i]
    BY <2>1, <1>1
  <2> QED BY <1>2, <1>3, <2>2 DEF Follows, Touches
<1> QED BY <1>1, <1>2, <1>3, <1>4, <1>5

\* The events the vault may log next for note n, and the status n has after it.
MayLog(kind, n, to) ==
  \/ /\ kind = "NoteDeposited" /\ to = "active" /\ vault[n] = "none"
     /\ \A m \in Notes : m < n => vault[m] # "none"
  \/ kind = "EscapeWithdrawalChallenged" /\ to = "active" /\ vault[n] = "escaping"
  \/ kind = "EscapeWithdrawalFinalized" /\ to = "closed" /\ vault[n] = "escaping"
  \/ /\ kind \in {"MutualClose", "EscapeWithdrawalInitiated", "ExpiredClaimed"}
     /\ to \in {"closed", "escaping"} /\ vault[n] = "active"

\* The log says what the vault did, after one more event too.
LEMMA EmitLog ==
  ASSUME IndexerTypeOK, LogInv, NEW n \in Notes, NEW kind, NEW from, NEW to,
         Emit(kind, n, from, to), MayLog(kind, n, to)
  PROVE  /\ LogInv'
         /\ \E e \in VaultEvent : chain' = Append(chain, e) /\ e.block = height + 1
         /\ Len(chain') <= MaxEvents
         /\ vault' \in [Notes -> {"none", "active", "escaping", "closed"}]
<1> PICK e : e = [block |-> height + 1, kind |-> kind, note |-> n, root |-> ActiveNotes(vault')]
  OBVIOUS
<1> PICK L : L = Len(chain)
  OBVIOUS
<1>1. /\ e.block = height + 1 /\ e.kind = kind /\ e.note = n /\ e.root = ActiveNotes(vault')
      /\ chain' = Append(chain, e) /\ L < MaxEvents /\ height < MaxHeight
      /\ vault' = [vault EXCEPT ![n] = to] /\ height' = height
  BY DEF Emit
<1>2. kind \in EventKind /\ to \in {"none", "active", "escaping", "closed"}
  BY DEF MayLog, EventKind
<1>3. /\ height \in Nat /\ height + 1 \in Nat /\ MaxHeight \in Nat /\ MaxEvents \in Nat
      /\ vault \in [Notes -> {"none", "active", "escaping", "closed"}]
  BY IndexerAssumption DEF IndexerTypeOK
<1>4. ActiveNotes(vault') \in SUBSET Notes
  BY DEF ActiveNotes
<1>5. e \in VaultEvent
  BY <1>2, <1>3, <1>4 DEF VaultEvent
<1>6. /\ L \in Nat /\ Len(chain') = L + 1
      /\ \A i \in 1..L : chain'[i] = chain[i]
      /\ chain'[L + 1] = e
      /\ \A k \in 0..L : RootAfter(k)' = RootAfter(k)
      /\ \A k \in 0..L : DepositsUpTo(k)' = DepositsUpTo(k)
      /\ \A b \in 0..(height + 1) : EventsBefore(b)' = EventsBefore(b)
  BY <1>1, <1>5, LongerLog
<1>7. /\ vault' \in [Notes -> {"none", "active", "escaping", "closed"}]
      /\ vault'[n] = to /\ \A m \in Notes \ {n} : vault'[m] = vault[m]
  BY <1>1, <1>2, <1>3
<1>8. Len(chain') <= MaxEvents
  BY <1>1, <1>3, <1>6
<1>9. 1..(L + 1) = (1..L) \cup {L + 1} /\ 0..(L + 1) = (0..L) \cup {L + 1} /\ L \in 0..L /\ L + 1 \notin 1..L
  BY <1>6
<1>10. RootAfter(L) = ActiveNotes(vault) /\ DepositsUpTo(L) = {m \in Notes : vault[m] # "none"}
  BY DEF LogInv, VaultMatchesLog
<1>11. RootAfter(L + 1)' = e.root
  <2>1. chain'[L + 1].root = e.root /\ L + 1 # 0
    BY <1>6
  <2> QED BY <2>1 DEF RootAfter
<1>12. DepositsUpTo(L + 1)' = IF kind = "NoteDeposited" THEN DepositsUpTo(L) \cup {n} ELSE DepositsUpTo(L)
  <2>1. DepositsUpTo(L + 1)' = {chain'[i].note : i \in {j \in 1..(L + 1) : chain'[j].kind = "NoteDeposited"}}
    BY DEF DepositsUpTo
  <2>2. DepositsUpTo(L) = {chain[i].note : i \in {j \in 1..L : chain[j].kind = "NoteDeposited"}}
    BY DEF DepositsUpTo
  <2>3. chain'[L + 1].note = n /\ chain'[L + 1].kind = kind
    BY <1>1, <1>6
  <2>4. \A x : x \in DepositsUpTo(L + 1)' <=>
          \E i \in 1..(L + 1) : chain'[i].kind = "NoteDeposited" /\ chain'[i].note = x
    BY <2>1
  <2>5. \A x : x \in DepositsUpTo(L) <=>
          \E i \in 1..L : chain'[i].kind = "NoteDeposited" /\ chain'[i].note = x
    BY <2>2, <1>6
  <2>6. \A x : x \in DepositsUpTo(L + 1)' <=>
          x \in DepositsUpTo(L) \/ (kind = "NoteDeposited" /\ x = n)
    BY <2>3, <2>4, <2>5, <1>9
  <2> QED BY <2>6
<1>13. e.root = CASE kind \in {"NoteDeposited", "EscapeWithdrawalChallenged"} -> RootAfter(L) \cup {n}
                  [] kind = "EscapeWithdrawalFinalized" -> RootAfter(L)
                  [] OTHER -> RootAfter(L) \ {n}
  <2>1. CASE to = "active"
    <3>1. kind \in {"NoteDeposited", "EscapeWithdrawalChallenged"}
      BY <2>1 DEF MayLog
    <3>2. ActiveNotes(vault') = ActiveNotes(vault) \cup {n}
      BY <2>1, <1>7 DEF ActiveNotes
    <3> QED BY <3>1, <3>2, <1>1, <1>10
  <2>2. CASE vault[n] = "active"
    <3>1. kind \in {"MutualClose", "EscapeWithdrawalInitiated", "ExpiredClaimed"} /\ to # "active"
      BY <2>2 DEF MayLog
    <3>2. ActiveNotes(vault') = ActiveNotes(vault) \ {n}
      BY <3>1, <1>7 DEF ActiveNotes
    <3> QED BY <3>1, <3>2, <1>1, <1>10
  <2>3. CASE to # "active" /\ vault[n] # "active"
    <3>1. kind = "EscapeWithdrawalFinalized"
      BY <2>3 DEF MayLog
    <3>2. ActiveNotes(vault') = ActiveNotes(vault)
      BY <2>3, <1>7 DEF ActiveNotes
    <3> QED BY <3>1, <3>2, <1>1, <1>10
  <2> QED BY <2>1, <2>2, <2>3
<1>14. IF kind = "NoteDeposited" THEN DepositsUpTo(L) = 0..(n - 1) ELSE n \in DepositsUpTo(L)
  <2>1. CASE kind = "NoteDeposited"
    <3>1. vault[n] = "none" /\ \A m \in Notes : m < n => vault[m] # "none"
      BY <2>1 DEF MayLog
    <3>2. \A m \in Notes : n < m => vault[m] = "none"
      BY <3>1 DEF LogInv, VaultMatchesLog
    <3>3. Notes \subseteq Nat /\ n \in Nat /\ 0..(n - 1) \subseteq Notes
      BY NoteIds
    <3>4. \A m \in Notes : vault[m] # "none" <=> m < n
      BY <3>1, <3>2, <3>3
    <3>5. /\ \A m \in Notes : vault[m] # "none" => m \in 0..(n - 1)
          /\ \A m \in 0..(n - 1) : m \in Notes /\ vault[m] # "none"
      <4>1. \A m \in Notes : vault[m] # "none" => m \in 0..(n - 1)
        BY <3>3, <3>4
      <4>2. \A m \in 0..(n - 1) : m \in Notes /\ m < n
        BY <3>3
      <4> QED BY <4>1, <4>2, <3>4
    <3>6. {m \in Notes : vault[m] # "none"} = 0..(n - 1)
      BY <3>5, Zenon
    <3> QED BY <2>1, <3>6, <1>10
  <2>2. CASE kind # "NoteDeposited"
    BY <2>2, <1>10 DEF MayLog
  <2> QED BY <2>1, <2>2
<1>15. LogIsOrdered'
  <2>1. \A i \in 1..(L + 1) : 0 < chain'[i].block /\ chain'[i].block <= height + 1
    <3>1. \A i \in 1..L : 0 < chain[i].block /\ chain[i].block <= height + 1
      BY DEF LogInv, LogIsOrdered
    <3> QED BY <3>1, <1>1, <1>3, <1>6, <1>9
  <2>2. ASSUME NEW b \in 0..(MaxHeight + 1)
        PROVE  /\ EventsBefore(b)' \in 0..(L + 1)
               /\ \A i \in 1..(L + 1) : chain'[i].block < b <=> i <= EventsBefore(b)'
    <3>1. CASE b <= height + 1
      <4>1. EventsBefore(b)' = EventsBefore(b)
        BY <3>1, <1>3, <1>6
      <4>2. EventsBefore(b) \in 0..L /\ \A i \in 1..L : chain[i].block < b <=> i <= EventsBefore(b)
        BY DEF LogInv, LogIsOrdered
      <4>3. ~(chain'[L + 1].block < b)
        BY <3>1, <1>1, <1>3, <1>6
      <4> QED BY <4>1, <4>2, <4>3, <1>6, <1>9
    <3>2. CASE ~(b <= height + 1)
      <4>1. \A i \in 1..(L + 1) : chain'[i].block < b
        <5> TAKE i \in 1..(L + 1)
        <5>1. chain'[i].block <= height + 1
          BY <2>1
        <5>2. chain'[i] \in VaultEvent
          <6>1. \A j \in 1..L : chain[j] \in VaultEvent
            BY DEF IndexerTypeOK
          <6> QED BY <6>1, <1>5, <1>6, <1>9
        <5>3. chain'[i].block \in Nat
          BY <5>2 DEF VaultEvent
        <5> QED BY <5>1, <5>3, <3>2, <1>3
      <4>2. {i \in 1..(L + 1) : chain'[i].block < b} = 1..(L + 1)
        BY <4>1
      <4>3. EventsBefore(b)' = Cardinality(1..(L + 1))
        BY <4>2, <1>6 DEF EventsBefore
      <4>4. EventsBefore(b)' = L + 1
        BY <4>3, <1>6, FS_Interval
      <4> QED BY <4>1, <4>4, <1>6
    <3> QED BY <3>1, <3>2
  <2> QED BY <2>1, <2>2, <1>1, <1>6 DEF LogIsOrdered
<1>16. RootsFollowEvents'
  <2> SUFFICES ASSUME NEW i \in 1..(L + 1)
               PROVE  /\ chain'[i].root =
                           CASE chain'[i].kind \in {"NoteDeposited", "EscapeWithdrawalChallenged"} ->
                                  RootAfter(i - 1)' \cup {chain'[i].note}
                             [] chain'[i].kind = "EscapeWithdrawalFinalized" -> RootAfter(i - 1)'
                             [] OTHER -> RootAfter(i - 1)' \ {chain'[i].note}
                      /\ IF chain'[i].kind = "NoteDeposited"
                           THEN DepositsUpTo(i - 1)' = 0..(chain'[i].note - 1)
                           ELSE chain'[i].note \in DepositsUpTo(i - 1)'
    BY <1>6, Zenon DEF RootsFollowEvents
  <2>1. i - 1 \in 0..L
    BY <1>6
  <2>2. RootAfter(i - 1)' = RootAfter(i - 1) /\ DepositsUpTo(i - 1)' = DepositsUpTo(i - 1)
    BY <2>1, <1>6
  <2>3. CASE i = L + 1
    <3>1. i - 1 = L /\ chain'[i] = e
      BY <2>3, <1>6
    <3> QED BY <3>1, <2>2, <1>1, <1>13, <1>14
  <2>4. CASE i \in 1..L
    <3>1. chain'[i] = chain[i]
      BY <2>4, <1>6
    <3>2. /\ chain[i].root =
                           CASE chain[i].kind \in {"NoteDeposited", "EscapeWithdrawalChallenged"} ->
                                  RootAfter(i - 1) \cup {chain[i].note}
                             [] chain[i].kind = "EscapeWithdrawalFinalized" -> RootAfter(i - 1)
                             [] OTHER -> RootAfter(i - 1) \ {chain[i].note}
          /\ IF chain[i].kind = "NoteDeposited"
                           THEN DepositsUpTo(i - 1) = 0..(chain[i].note - 1)
                           ELSE chain[i].note \in DepositsUpTo(i - 1)
      BY <2>4, Zenon DEF LogInv, RootsFollowEvents
    <3> QED BY <3>1, <3>2, <2>2
  <2> QED BY <2>3, <2>4, <1>9
<1>17. RootsDifferByEvents'
  <2> SUFFICES ASSUME NEW j \in 0..(L + 1), NEW k \in 0..(L + 1), NEW x \in Notes, j <= k
               PROVE  \/ x \in RootAfter(j)' <=> x \in RootAfter(k)'
                      \/ \E i \in (j + 1)..k : Touches(chain'[i], x)
    BY <1>6 DEF RootsDifferByEvents
  <2>1. ASSUME NEW u \in 0..L, NEW v \in 0..L, u <= v
        PROVE  \/ x \in RootAfter(u)' <=> x \in RootAfter(v)'
               \/ \E i \in (u + 1)..v : Touches(chain'[i], x)
    <3>1. \/ x \in RootAfter(u) <=> x \in RootAfter(v)
          \/ \E i \in (u + 1)..v : Touches(chain[i], x)
      BY <2>1 DEF LogInv, RootsDifferByEvents
    <3>2. \A i \in (u + 1)..v : i \in 1..L
      BY <1>6
    <3> QED BY <3>1, <3>2, <1>6
  <2>2. CASE k \in 0..L
    BY <2>1, <2>2, <1>6
  <2>3. CASE j = L + 1 /\ k = L + 1
    BY <2>3
  <2>4. CASE j \in 0..L /\ k = L + 1
    <3>1. CASE Touches(e, x)
      <4>1. L + 1 \in (j + 1)..k
        BY <2>4, <1>6
      <4> QED BY <3>1, <4>1, <1>6
    <3>2. CASE ~Touches(e, x)
      <4>1. x \in RootAfter(L) <=> x \in e.root
        BY <3>2, <1>1, <1>13 DEF Touches
      <4>2. x \in RootAfter(k)' <=> x \in RootAfter(L)'
        BY <4>1, <2>4, <1>6, <1>9, <1>11
      <4>3. \A i \in (j + 1)..L : i \in (j + 1)..k
        BY <2>4, <1>6
      <4> QED BY <2>1, <2>4, <4>2, <4>3, <1>6, <1>9
    <3> QED BY <3>1, <3>2
  <2> QED BY <2>2, <2>3, <2>4, <1>6
<1>18. VaultMatchesLog'
  <2>1. RootAfter(L + 1)' = ActiveNotes(vault)'
    BY <1>1, <1>11 DEF ActiveNotes
  <2>2. DepositsUpTo(L + 1)' = {m \in Notes : vault'[m] # "none"}
    <3>1. \A m \in Notes : vault'[m] # "none" <=> vault[m] # "none" \/ m = n
      BY <1>7 DEF MayLog
    <3>2. kind # "NoteDeposited" => vault[n] # "none"
      BY DEF MayLog
    <3> QED BY <3>1, <3>2, <1>10, <1>12
  <2>3. \A l, m \in Notes : l < m /\ vault'[m] # "none" => vault'[l] # "none"
    <3>1. \A l, m \in Notes : l < m /\ vault[m] # "none" => vault[l] # "none"
      BY DEF LogInv, VaultMatchesLog
    <3>2. vault[n] = "none" => \A m \in Notes : m < n => vault[m] # "none"
      BY DEF MayLog
    <3>3. to # "none"
      BY DEF MayLog
    <3> QED BY <3>1, <3>2, <3>3, <1>7
  <2> QED BY <2>1, <2>2, <2>3, <1>6 DEF VaultMatchesLog
<1> QED BY <1>1, <1>5, <1>7, <1>8, <1>15, <1>16, <1>17, <1>18 DEF LogInv

-----------------------------------------------------------------------------
(* The steps *)

\* The end of a batch: no later than the latest block, and not before the cursor.
LEMMA BatchEnd ==
  ASSUME IndexerTypeOK, NEW h \in Nat
  PROVE  /\ ToBlock(h) \in Int /\ ToBlock(h) <= h
         /\ next_from_block <= h + 1 => ToBlock(h) + 1 \in Nat /\ next_from_block <= ToBlock(h) + 1
         /\ next_from_block <= h => ToBlock(h) \in Nat /\ next_from_block <= ToBlock(h)
         /\ \A g \in Nat : h <= g => ToBlock(h) <= ToBlock(g)
<1>1. next_from_block \in Nat /\ MaxBlockRange \in Nat \ {0}
  BY IndexerAssumption DEF IndexerTypeOK
<1> QED BY <1>1 DEF ToBlock

\* The points of the log that the invariant speaks of.
LEMMA Points ==
  ASSUME IndexerInv
  PROVE  /\ Len(chain) \in Nat /\ height \in Nat /\ MaxHeight \in Nat
         /\ \A b \in 0..(height + 1) : b \in 0..(MaxHeight + 1)
         /\ \A b \in 0..(height + 1) : EventsBefore(b) \in 0..Len(chain)
         /\ next_from_block \in 0..(height + 1)
         /\ ToBlock(height) + 1 \in 0..(height + 1)
         /\ poll.pc \in {"logs", "apply"} => poll.to \in Nat /\ poll.to + 1 \in 0..(height + 1)
         /\ checkpoint.next > 0 => checkpoint.next \in 0..(height + 1)
<1>1. Len(chain) \in Nat /\ height \in Nat /\ MaxHeight \in Nat /\ height <= MaxHeight
  BY IndexerAssumption DEF IndexerInv, IndexerTypeOK
<1>2. \A b \in 0..(height + 1) : b \in 0..(MaxHeight + 1)
  BY <1>1
<1>3. \A b \in 0..(height + 1) : EventsBefore(b) \in 0..Len(chain)
  BY <1>2 DEF IndexerInv, LogIsOrdered
<1>4. next_from_block \in 0..(height + 1)
  BY <1>1 DEF IndexerInv, IndexerTypeOK, CursorIsSound
<1>5. ToBlock(height) + 1 \in 0..(height + 1)
  <2>1. ToBlock(height) \in Int /\ ToBlock(height) <= height /\ ToBlock(height) + 1 \in Nat
    BY <1>1, <1>4, BatchEnd DEF IndexerInv
  <2> QED BY <2>1, <1>1
<1>6. poll.pc \in {"logs", "apply"} => poll.to \in Nat /\ poll.to + 1 \in 0..(height + 1)
  <2> HAVE poll.pc \in {"logs", "apply"}
  <2>1. /\ poll.latest <= height /\ poll.to = ToBlock(poll.latest)
        /\ poll.latest \in Nat /\ poll.to \in Nat
    BY DEF IndexerInv, PollFollows, IndexerTypeOK, Poll
  <2>2. ToBlock(poll.latest) <= poll.latest
    BY <2>1, BatchEnd DEF IndexerInv
  <2> QED BY <2>1, <2>2, <1>1
<1>7. checkpoint.next > 0 => checkpoint.next \in 0..(height + 1)
  <2>1. checkpoint.next \in Nat
    BY DEF IndexerInv, IndexerTypeOK, Checkpoint
  <2> QED BY <2>1, <1>1 DEF IndexerInv, CheckpointFollows
<1> QED BY <1>1, <1>2, <1>3, <1>4, <1>5, <1>6, <1>7

(***************************************************************************)
(* A step of the chain, which logs an event or mines a block, keeps what   *)
(* is said of the file, the cursor and the poll.                           *)
(***************************************************************************)
LEMMA ChainStep ==
  ASSUME IndexerInv, height' \in Nat, height <= height', height' <= MaxHeight,
         \A b \in 0..(height + 1) : EventsBefore(b)' = EventsBefore(b),
         NEW c, c = ToBlock(height') + 1, EventsBefore(c)' = EventsBefore(c),
         \A m : \A k, q \in 0..Len(chain) : Follows(m, k, q)' = Follows(m, k, q),
         \A j \in 1..Len(chain) : chain'[j] = chain[j],
         UNCHANGED <<mirror, ready, next_from_block, poll, checkpoint, faults, bootHeight>>
  PROVE  Coherent(mirror)' /\ CheckpointFollows' /\ CursorIsSound' /\ PollFollows'
<1>1. Coherent(mirror)'
  BY DEF IndexerInv, Coherent
<1>2. CheckpointFollows'
  <2> SUFFICES ASSUME checkpoint.next > 0
               PROVE  /\ checkpoint.next <= height' + 1
                      /\ Coherent(checkpoint.mirror)
                      /\ Follows(checkpoint.mirror, EventsBefore(checkpoint.next), EventsBefore(checkpoint.next))'
    BY DEF CheckpointFollows, Coherent
  <2> PICK m, k, b : m = checkpoint.mirror /\ b = checkpoint.next /\ k = EventsBefore(b)
    OBVIOUS
  <2>1. b \in 0..(height + 1) /\ k \in 0..Len(chain) /\ height \in Nat
    BY Points
  <2>2. Coherent(m) /\ Follows(m, k, k)
    BY DEF IndexerInv, CheckpointFollows
  <2>3. Follows(m, k, k)' /\ EventsBefore(b)' = k
    BY <2>1, <2>2
  <2>4. Follows(checkpoint.mirror, EventsBefore(checkpoint.next), EventsBefore(checkpoint.next))'
    BY <2>3
  <2> QED BY <2>1, <2>2, <2>4
<1>3. CursorIsSound'
  <2>1. height \in Nat /\ next_from_block \in Nat /\ bootHeight \in Nat
    BY IndexerAssumption DEF IndexerInv, IndexerTypeOK
  <2>2. next_from_block <= height + 1 /\ bootHeight <= height
    BY Zenon DEF IndexerInv, CursorIsSound
  <2>3. ready => bootHeight < next_from_block
    BY Zenon DEF IndexerInv, CursorIsSound
  <2>4. next_from_block <= height' + 1 /\ bootHeight <= height'
    <3>1. \A x, y, h, g \in Nat : x <= h + 1 /\ y <= h /\ h <= g => x <= g + 1 /\ y <= g
      OBVIOUS
    <3> QED BY <2>1, <2>2, <3>1
  <2> QED BY <2>3, <2>4, Zenon DEF CursorIsSound
<1>4. PollFollows'
  <2> PICK m, a, t, k, to : /\ m = mirror /\ a = next_from_block /\ t = faults.torn
                            /\ k = EventsBefore(a) /\ to = poll.to
    OBVIOUS
  <2>1. a \in 0..(height + 1) /\ height \in Nat /\ Len(chain) \in Nat /\ k \in 0..Len(chain)
    BY Points
  <2>2. EventsBefore(a)' = k
    BY <2>1
  <2>3. ASSUME poll.pc \in {"idle", "stopped"}
        PROVE  Mirrors(EventsBefore(next_from_block), EventsBefore(ToBlock(height) + 1))'
    <3> PICK b : b = ToBlock(height) + 1
      OBVIOUS
    <3>1. ToBlock(height)' = ToBlock(height')
      BY DEF ToBlock
    <3>2. b \in 0..(MaxHeight + 1) /\ c \in 0..(MaxHeight + 1) /\ b <= c
      <4>1. /\ ToBlock(height) \in Int /\ ToBlock(height') \in Int
            /\ ToBlock(height') <= height' /\ ToBlock(height) <= ToBlock(height')
        BY <2>1, BatchEnd DEF IndexerInv
      <4>2. b \in 0..(height + 1)
        BY Points
      <4> QED BY <4>1, <4>2, <2>1, IndexerAssumption
    <3>3. EventsBefore(b) <= EventsBefore(c)
      BY <3>2, EventsBeforeMonotone DEF IndexerInv
    <3>4. EventsBefore(b) \in 0..Len(chain) /\ EventsBefore(c) \in 0..Len(chain)
      BY <3>2 DEF IndexerInv, LogIsOrdered
    <3>5. Follows(m, k, IF t = 0 THEN k ELSE EventsBefore(b))
      BY <2>3 DEF IndexerInv, PollFollows, Mirrors
    <3> PICK q : q = IF t = 0 THEN k ELSE EventsBefore(c)
      OBVIOUS
    <3>6. q \in 0..Len(chain)
      BY <3>4, <2>1
    <3>7. Follows(m, k, q)
      <4>1. CASE t = 0
        BY <4>1, <3>5
      <4>2. CASE t # 0
        BY <4>2, <3>3, <3>4, <3>5, <2>1, FollowsFurther
      <4> QED BY <4>1, <4>2
    <3>8. Follows(m, k, q)'
      BY <3>6, <3>7, <2>1
    <3>10. EventsBefore(ToBlock(height) + 1)' = EventsBefore(c)
      BY <3>1
    <3>11. Follows(mirror, EventsBefore(next_from_block),
                   IF faults.torn = 0 THEN EventsBefore(next_from_block)
                                      ELSE EventsBefore(ToBlock(height) + 1))'
      BY <3>8, <3>10, <2>2
    <3> QED BY <3>11 DEF Mirrors
  <2>4. ASSUME poll.pc \in {"logs", "apply"}
        PROVE  /\ bootHeight <= poll.latest /\ poll.latest <= height'
               /\ poll.to = ToBlock(poll.latest)' /\ next_from_block <= poll.to
    <3>1. /\ bootHeight <= poll.latest /\ poll.latest <= height
          /\ poll.to = ToBlock(poll.latest) /\ next_from_block <= poll.to
      BY <2>4 DEF IndexerInv, PollFollows
    <3>2. ToBlock(poll.latest)' = ToBlock(poll.latest)
      BY DEF ToBlock
    <3>3. poll.latest \in Nat
      BY DEF IndexerInv, IndexerTypeOK, Poll
    <3> QED BY <3>1, <3>2, <3>3, <2>1
  <2>5. ASSUME poll.pc \in {"logs", "apply"}
        PROVE  /\ to + 1 \in 0..(height + 1) /\ EventsBefore(to + 1) \in 0..Len(chain)
               /\ EventsBefore(to + 1)' = EventsBefore(to + 1)
    BY <2>5, Points
  <2>6. ASSUME poll.pc \in {"logs", "apply"}, NEW j \in 0..Len(chain),
               Mirrors(j, EventsBefore(poll.to + 1))
        PROVE  Mirrors(j, EventsBefore(poll.to + 1))'
    <3> PICK q : q = IF t = 0 THEN j ELSE EventsBefore(to + 1)
      OBVIOUS
    <3>1. q \in 0..Len(chain) /\ Follows(m, j, q)
      BY <2>5, <2>6 DEF Mirrors
    <3>2. Follows(m, j, q)'
      BY <3>1
    <3>3. Follows(mirror, j, IF faults.torn = 0 THEN j ELSE EventsBefore(poll.to + 1))'
      BY <3>2, <2>5, <2>6
    <3> QED BY <3>3 DEF Mirrors
  <2>7. ASSUME poll.pc = "logs"
        PROVE  Mirrors(EventsBefore(next_from_block), EventsBefore(poll.to + 1))'
    <3>1. Mirrors(k, EventsBefore(poll.to + 1))
      BY <2>7 DEF IndexerInv, PollFollows
    <3>2. Mirrors(k, EventsBefore(poll.to + 1))'
      BY <3>1, <2>1, <2>6, <2>7
    <3> QED BY <3>2, <2>2
  <2>8. ASSUME poll.pc = "apply"
        PROVE  \E j \in k..EventsBefore(to + 1) :
                 /\ Len(poll.todo) = EventsBefore(to + 1) - j
                 /\ \A i \in 1..Len(poll.todo) : poll.todo[i] = chain'[j + i]
                 /\ Mirrors(j, EventsBefore(poll.to + 1))'
    <3> PICK j \in k..EventsBefore(to + 1) :
               /\ Len(poll.todo) = EventsBefore(to + 1) - j
               /\ \A i \in 1..Len(poll.todo) : poll.todo[i] = chain[j + i]
               /\ Mirrors(j, EventsBefore(poll.to + 1))
      BY <2>8 DEF IndexerInv, PollFollows
    <3>1. j \in 0..Len(chain)
      BY <2>1, <2>5, <2>8
    <3>2. Mirrors(j, EventsBefore(poll.to + 1))'
      BY <3>1, <2>6, <2>8
    <3>3. \A i \in 1..Len(poll.todo) : j + i \in 1..Len(chain)
      BY <3>1, <2>1, <2>5, <2>8
    <3> QED BY <3>2, <3>3
  <2>9. ASSUME poll.pc = "apply"
        PROVE  (\E j \in EventsBefore(next_from_block)..EventsBefore(poll.to + 1) :
                 /\ Len(poll.todo) = EventsBefore(poll.to + 1) - j
                 /\ \A i \in 1..Len(poll.todo) : poll.todo[i] = chain[j + i]
                 /\ Mirrors(j, EventsBefore(poll.to + 1)))'
    BY <2>2, <2>5, <2>8, <2>9
  <2> QED BY <2>3, <2>4, <2>7, <2>9 DEF PollFollows
<1> QED BY <1>1, <1>2, <1>3, <1>4

\* The vault logs an event.
LEMMA VaultStepInv ==
  ASSUME IndexerInv, VaultStep
  PROVE  IndexerInv'
<1>0. PICK n \in Notes :
        \/ (\A m \in Notes : m < n => vault[m] # "none") /\ Emit("NoteDeposited", n, {"none"}, "active")
        \/ Emit("MutualClose", n, {"active"}, "closed")
        \/ Emit("EscapeWithdrawalInitiated", n, {"active"}, "escaping")
        \/ Emit("EscapeWithdrawalChallenged", n, {"escaping"}, "active")
        \/ Emit("EscapeWithdrawalFinalized", n, {"escaping"}, "closed")
        \/ Emit("ExpiredClaimed", n, {"active"}, "closed")
  BY DEF VaultStep
<1>1. PICK kind, from, to : Emit(kind, n, from, to) /\ MayLog(kind, n, to)
  <2>0. \A kind, from, to : Emit(kind, n, from, to) => vault[n] \in from
    BY DEF Emit
  <2>1. CASE (\A m \in Notes : m < n => vault[m] # "none") /\ Emit("NoteDeposited", n, {"none"}, "active")
    <3>1. MayLog("NoteDeposited", n, "active")
      BY <2>0, <2>1 DEF MayLog
    <3> QED BY <2>1, <3>1
  <2>2. CASE Emit("MutualClose", n, {"active"}, "closed")
    <3>1. MayLog("MutualClose", n, "closed")
      BY <2>0, <2>2 DEF MayLog
    <3> QED BY <2>2, <3>1
  <2>3. CASE Emit("EscapeWithdrawalInitiated", n, {"active"}, "escaping")
    <3>1. MayLog("EscapeWithdrawalInitiated", n, "escaping")
      BY <2>0, <2>3 DEF MayLog
    <3> QED BY <2>3, <3>1
  <2>4. CASE Emit("EscapeWithdrawalChallenged", n, {"escaping"}, "active")
    <3>1. MayLog("EscapeWithdrawalChallenged", n, "active")
      BY <2>0, <2>4 DEF MayLog
    <3> QED BY <2>4, <3>1
  <2>5. CASE Emit("EscapeWithdrawalFinalized", n, {"escaping"}, "closed")
    <3>1. MayLog("EscapeWithdrawalFinalized", n, "closed")
      BY <2>0, <2>5 DEF MayLog
    <3> QED BY <2>5, <3>1
  <2>6. CASE Emit("ExpiredClaimed", n, {"active"}, "closed")
    <3>1. MayLog("ExpiredClaimed", n, "closed")
      BY <2>0, <2>6 DEF MayLog
    <3> QED BY <2>6, <3>1
  <2> QED BY <1>0, <2>1, <2>2, <2>3, <2>4, <2>5, <2>6
<1>2. /\ height' = height
      /\ UNCHANGED <<mirror, ready, next_from_block, poll, checkpoint, faults, bootHeight>>
  BY <1>1 DEF Emit
<1>3. /\ LogInv'
      /\ \E e \in VaultEvent : chain' = Append(chain, e) /\ e.block = height + 1
      /\ Len(chain') <= MaxEvents
      /\ vault' \in [Notes -> {"none", "active", "escaping", "closed"}]
  BY <1>1, EmitLog DEF IndexerInv, LogInv
<1>4. PICK e \in VaultEvent : chain' = Append(chain, e) /\ e.block = height + 1
  BY <1>3
<1>5. IndexerTypeOK'
  <2>1. chain' \in Seq(VaultEvent)
    BY <1>4 DEF IndexerInv, IndexerTypeOK
  <2> QED BY <2>1, <1>2, <1>3 DEF IndexerInv, IndexerTypeOK
<1>6. /\ \A b \in 0..(height + 1) : EventsBefore(b)' = EventsBefore(b)
      /\ \A m : \A k, q \in 0..Len(chain) : Follows(m, k, q)' = Follows(m, k, q)
      /\ \A j \in 1..Len(chain) : chain'[j] = chain[j]
  BY <1>4, LongerLog DEF IndexerInv
<1>7. Coherent(mirror)' /\ CheckpointFollows' /\ CursorIsSound' /\ PollFollows'
  <2> PICK c : c = ToBlock(height') + 1
    OBVIOUS
  <2>1. c \in 0..(height + 1) /\ height' \in Nat /\ height <= height' /\ height' <= MaxHeight
    BY <1>2, Points DEF IndexerInv, IndexerTypeOK
  <2>2. EventsBefore(c)' = EventsBefore(c)
    BY <2>1, <1>6
  <2> QED BY <2>1, <2>2, <1>2, <1>6, ChainStep
<1> QED BY <1>3, <1>5, <1>7 DEF IndexerInv, LogInv

\* A block is mined.
LEMMA MineInv ==
  ASSUME IndexerInv, Mine
  PROVE  IndexerInv'
<1>1. /\ height < MaxHeight /\ height' = height + 1
      /\ UNCHANGED <<chain, vault, mirror, ready, next_from_block, poll, checkpoint, faults, bootHeight>>
  BY DEF Mine
<1>2. height \in Nat /\ height' \in Nat /\ height <= height' /\ height' <= MaxHeight /\ height' \in 0..MaxHeight
  BY <1>1, IndexerAssumption DEF IndexerInv, IndexerTypeOK
<1>3. IndexerTypeOK'
  BY <1>1, <1>2 DEF IndexerInv, IndexerTypeOK
<1>4. LogInv'
  BY <1>1, <1>2, QuietLog DEF IndexerInv, LogInv
<1>5. Coherent(mirror)' /\ CheckpointFollows' /\ CursorIsSound' /\ PollFollows'
  <2> PICK c : c = ToBlock(height') + 1
    OBVIOUS
  <2>1. /\ \A b \in 0..(height + 1) : EventsBefore(b)' = EventsBefore(b)
        /\ EventsBefore(c)' = EventsBefore(c)
        /\ \A m : \A k, q \in 0..Len(chain) : Follows(m, k, q)' = Follows(m, k, q)
    BY <1>1, SameLog
  <2> QED BY <2>1, <1>1, <1>2, ChainStep
<1> QED BY <1>3, <1>4, <1>5 DEF IndexerInv, LogInv

\* A step of the process leaves the chain alone.
LEMMA ProcessStep ==
  ASSUME IndexerInv, UNCHANGED <<height, chain, vault>>
  PROVE  /\ LogInv'
         /\ height' = height
         /\ \A b : EventsBefore(b)' = EventsBefore(b)
         /\ \A m, k, q : Follows(m, k, q)' = Follows(m, k, q)
<1>1. height \in Nat
  BY Points
<1>2. height' \in Nat /\ height <= height'
  BY <1>1
<1> QED BY <1>2, QuietLog, SameLog DEF IndexerInv, LogInv

\* What is said of the file is kept by a step that does not write it.
LEMMA SameFile ==
  ASSUME IndexerInv, UNCHANGED <<height, chain, vault, checkpoint>>
  PROVE  CheckpointFollows'
<1> PICK m, b : m = checkpoint.mirror /\ b = checkpoint.next
  OBVIOUS
<1>1. b > 0 => b <= height + 1 /\ Coherent(m) /\ Follows(m, EventsBefore(b), EventsBefore(b))
  BY DEF IndexerInv, CheckpointFollows
<1>2. b > 0 => b <= height + 1 /\ Coherent(m) /\ Follows(m, EventsBefore(b), EventsBefore(b))'
  <2> PICK k : k = EventsBefore(b)
    OBVIOUS
  <2>1. EventsBefore(b)' = k /\ Follows(m, k, k)' = Follows(m, k, k)
    BY ProcessStep
  <2> QED BY <1>1, <2>1
<1> QED BY <1>2 DEF CheckpointFollows, Coherent

(***************************************************************************)
(* A poll that ends leaves a mirror that follows the log from the cursor,  *)
(* perhaps ahead by events of the batch that the next poll begins with.    *)
(***************************************************************************)
LEMMA EnterIdle ==
  ASSUME IndexerInv, UNCHANGED <<height, chain, vault>>, poll' = NotPolling,
         NEW m, m = mirror', NEW a \in 0..(height + 1), a = next_from_block',
         NEW b \in 0..(MaxHeight + 1), b <= ToBlock(height)' + 1,
         Follows(m, EventsBefore(a), IF faults'.torn = 0 THEN EventsBefore(a) ELSE EventsBefore(b))
  PROVE  PollFollows'
<1> PICK c, t, k : c = ToBlock(height)' + 1 /\ t = faults'.torn /\ k = EventsBefore(a)
  OBVIOUS
<1>1. height \in Nat /\ MaxHeight \in Nat /\ height <= MaxHeight /\ Len(chain) \in Nat /\ k \in 0..Len(chain)
  BY Points DEF IndexerInv, IndexerTypeOK
<1>2. c \in 0..(MaxHeight + 1) /\ b <= c
  <2> PICK x : x = ToBlock(height)'
    OBVIOUS
  <2>1. x = IF height <= a + MaxBlockRange - 1 THEN height ELSE a + MaxBlockRange - 1
    BY DEF ToBlock
  <2>2. a \in Nat /\ MaxBlockRange \in Nat
    BY <1>1, IndexerAssumption
  <2>3. x \in Int /\ x <= height
    <3>1. CASE height <= a + MaxBlockRange - 1
      <4>1. x = height
        BY <2>1, <3>1, Zenon
      <4> QED BY <4>1, <1>1
    <3>2. CASE ~(height <= a + MaxBlockRange - 1)
      <4>1. x = a + MaxBlockRange - 1
        BY <2>1, <3>2, Zenon
      <4>2. \A y, r, h \in Nat : ~(h <= y + r - 1) => y + r - 1 \in Int /\ y + r - 1 <= h
        OBVIOUS
      <4>3. a + MaxBlockRange - 1 \in Int /\ a + MaxBlockRange - 1 <= height
        BY <4>2, <3>2, <2>2, <1>1, Zenon
      <4> QED BY <4>1, <4>3, Zenon
    <3> QED BY <3>1, <3>2
  <2> QED BY <2>3, <1>1
<1>3. EventsBefore(b) <= EventsBefore(c)
  BY <1>2, EventsBeforeMonotone DEF IndexerInv
<1>4. EventsBefore(b) \in 0..Len(chain) /\ EventsBefore(c) \in 0..Len(chain)
  BY <1>2 DEF IndexerInv, LogIsOrdered
<1> PICK q : q = IF t = 0 THEN k ELSE EventsBefore(c)
  OBVIOUS
<1>5. Follows(m, k, q)
  <2>1. CASE t = 0
    BY <2>1
  <2>2. CASE t # 0
    BY <2>2, <1>1, <1>3, <1>4, FollowsFurther
  <2> QED BY <2>1, <2>2
<1>6. Follows(m, k, q)' /\ EventsBefore(a)' = k /\ EventsBefore(c)' = EventsBefore(c)
  BY <1>5, ProcessStep
<1>7. Follows(mirror, EventsBefore(next_from_block),
              IF faults.torn = 0 THEN EventsBefore(next_from_block)
                                 ELSE EventsBefore(ToBlock(height) + 1))'
  BY <1>6
<1> QED BY <1>7 DEF PollFollows, Mirrors, NotPolling

\* Nothing new, or a batch to fetch.
LEMMA FetchBlockNumberInv ==
  ASSUME IndexerInv, fetch_block_number
  PROVE  IndexerInv'
<1>1. /\ poll.pc = "idle"
      /\ UNCHANGED <<height, chain, vault, bootHeight, mirror, next_from_block, checkpoint, faults>>
  BY DEF fetch_block_number, PollFrame
<1>2. LogInv' /\ CheckpointFollows'
  BY <1>1, ProcessStep, SameFile
<1>3. Coherent(mirror)'
  BY <1>1 DEF IndexerInv, Coherent
<1>4. /\ height \in Nat /\ next_from_block \in Nat /\ bootHeight \in Nat
      /\ next_from_block <= height + 1 /\ bootHeight <= height
  BY Points, IndexerAssumption DEF IndexerInv, IndexerTypeOK, CursorIsSound
<1>5. \A h : ToBlock(h)' = ToBlock(h)
  BY <1>1 DEF ToBlock
<1> PICK m, a, b, k, q, t :
      /\ m = mirror /\ a = next_from_block /\ b = ToBlock(height) + 1 /\ t = faults.torn
      /\ k = EventsBefore(a) /\ q = IF t = 0 THEN k ELSE EventsBefore(b)
  OBVIOUS
<1>6. Follows(m, k, q)
  BY <1>1 DEF IndexerInv, PollFollows, Mirrors
<1>7. Follows(m, k, q)' /\ EventsBefore(a)' = k /\ EventsBefore(b)' = EventsBefore(b)
  BY <1>1, <1>6, ProcessStep
<1>8. CASE height < next_from_block /\ ready' = TRUE /\ UNCHANGED poll
  <2>1. IndexerTypeOK'
    BY <1>1, <1>8 DEF IndexerInv, IndexerTypeOK
  <2>2. CursorIsSound'
    <3>1. bootHeight < next_from_block
      BY <1>4, <1>8
    <3> QED BY <3>1, <1>1, <1>4 DEF CursorIsSound
  <2>3. ToBlock(height)' = ToBlock(height)
    BY <1>1 DEF ToBlock
  <2>4. Follows(mirror, EventsBefore(next_from_block),
              IF faults.torn = 0 THEN EventsBefore(next_from_block)
                                 ELSE EventsBefore(ToBlock(height) + 1))'
    BY <1>1, <1>7, <2>3
  <2>5. PollFollows'
    BY <2>4, <1>1, <1>8 DEF PollFollows, Mirrors
  <2> QED BY <1>2, <1>3, <2>1, <2>2, <2>5 DEF IndexerInv, LogInv
<1>9. CASE /\ height >= next_from_block
           /\ poll' = [pc |-> "logs", latest |-> height, to |-> ToBlock(height), todo |-> <<>>]
           /\ UNCHANGED ready
  <2>1. next_from_block <= ToBlock(height) /\ ToBlock(height) \in Nat
    BY <1>4, <1>9, BatchEnd DEF IndexerInv
  <2>2. poll' \in Poll
    BY <2>1, <1>4, <1>9 DEF Poll
  <2>3. IndexerTypeOK'
    BY <1>1, <1>9, <2>2 DEF IndexerInv, IndexerTypeOK
  <2>4. CursorIsSound'
    BY <1>1, <1>9, Zenon DEF IndexerInv, CursorIsSound
  <2>5. poll'.pc = "logs" /\ poll'.latest = height /\ poll'.to = ToBlock(height)
    BY <1>9
  <2>6. ToBlock(poll.latest)' = ToBlock(height)
    BY <1>1, <2>5 DEF ToBlock
  <2>7. Follows(mirror, EventsBefore(next_from_block),
              IF faults.torn = 0 THEN EventsBefore(next_from_block)
                                 ELSE EventsBefore(poll.to + 1))'
    BY <1>1, <1>7, <2>5
  <2>8. PollFollows'
    BY <2>1, <2>5, <2>6, <2>7, <1>1, <1>4 DEF PollFollows, Mirrors
  <2> QED BY <1>2, <1>3, <2>3, <2>4, <2>8 DEF IndexerInv, LogInv
<1> QED BY <1>8, <1>9 DEF fetch_block_number

\* The batch's events are those between the cursor and the end of its last block.
LEMMA FetchLogsInv ==
  ASSUME IndexerInv, fetch_logs
  PROVE  IndexerInv'
<1>1. /\ poll.pc = "logs"
      /\ poll' = [poll EXCEPT !.pc = "apply", !.todo = LogsOf(next_from_block, poll.to)]
      /\ UNCHANGED <<height, chain, vault, bootHeight, mirror, ready, next_from_block, checkpoint, faults>>
  BY DEF fetch_logs, PollFrame
<1>2. LogInv' /\ CheckpointFollows'
  BY <1>1, ProcessStep, SameFile
<1>3. Coherent(mirror)'
  BY <1>1 DEF IndexerInv, Coherent
<1>4. CursorIsSound'
  BY <1>1, Zenon DEF IndexerInv, CursorIsSound
<1> PICK m, a, c, k, last, t :
      /\ m = mirror /\ a = next_from_block /\ c = poll.to + 1 /\ t = faults.torn
      /\ k = EventsBefore(a) /\ last = EventsBefore(c)
  OBVIOUS
<1>5. /\ a \in 0..(MaxHeight + 1) /\ c \in 0..(MaxHeight + 1) /\ a <= c
      /\ k \in 0..Len(chain) /\ last \in 0..Len(chain) /\ Len(chain) \in Nat
  <2>1. a <= poll.to /\ poll.to \in Nat
    BY <1>1, Points DEF IndexerInv, PollFollows
  <2> QED BY <2>1, <1>1, Points
<1>6. k <= last
  BY <1>5, EventsBeforeMonotone DEF IndexerInv
<1>7. poll'.todo = SubSeq(chain, k + 1, last) /\ poll'.pc = "apply" /\ poll'.to = poll.to /\ poll'.latest = poll.latest
  BY <1>1 DEF IndexerInv, IndexerTypeOK, Poll, LogsOf
<1>8. /\ SubSeq(chain, k + 1, last) \in Seq(VaultEvent)
      /\ Len(SubSeq(chain, k + 1, last)) = last - k
      /\ \A j \in 1..(last - k) : SubSeq(chain, k + 1, last)[j] = chain[k + j]
  <2>1. chain \in Seq(VaultEvent)
    BY DEF IndexerInv, IndexerTypeOK
  <2> QED BY <2>1, <1>5, <1>6
<1>9. IndexerTypeOK'
  <2>1. poll' \in Poll
    BY <1>1, <1>7, <1>8 DEF IndexerInv, IndexerTypeOK, Poll
  <2> QED BY <2>1, <1>1 DEF IndexerInv, IndexerTypeOK
<1>10. PollFollows'
  <2> PICK q : q = IF t = 0 THEN k ELSE last
    OBVIOUS
  <2>1. Follows(m, k, q)
    BY <1>1 DEF IndexerInv, PollFollows, Mirrors
  <2>2. Follows(m, k, q)' /\ EventsBefore(a)' = k /\ EventsBefore(c)' = last
    BY <1>1, <2>1, ProcessStep
  <2>3. Follows(mirror, k, IF faults.torn = 0 THEN k ELSE EventsBefore(poll.to + 1))'
    BY <1>1, <1>7, <2>2
  <2>4. ToBlock(poll.latest)' = ToBlock(poll.latest)
    BY <1>1, <1>7 DEF ToBlock
  <2>5. /\ bootHeight <= poll.latest /\ poll.latest <= height
        /\ poll.to = ToBlock(poll.latest) /\ next_from_block <= poll.to
    BY <1>1 DEF IndexerInv, PollFollows
  <2>6. /\ k \in k..last /\ Len(poll'.todo) = last - k
        /\ \A j \in 1..Len(poll'.todo) : poll'.todo[j] = chain'[k + j]
    <3> PICK s : s = SubSeq(chain, k + 1, last)
      OBVIOUS
    <3>1. poll'.todo = s /\ chain' = chain /\ Len(s) = last - k
      BY <1>1, <1>7, <1>8
    <3>2. \A j \in 1..Len(s) : s[j] = chain[k + j]
      BY <1>8
    <3>3. k \in k..last
      BY <1>5, <1>6
    <3> QED BY <3>1, <3>2, <3>3
  <2>7. (\E j \in EventsBefore(next_from_block)..EventsBefore(poll.to + 1) :
           /\ Len(poll.todo) = EventsBefore(poll.to + 1) - j
           /\ \A i \in 1..Len(poll.todo) : poll.todo[i] = chain[j + i]
           /\ Mirrors(j, EventsBefore(poll.to + 1)))'
    <3>1. Mirrors(k, EventsBefore(poll.to + 1))'
      BY <2>3 DEF Mirrors
    <3> QED BY <3>1, <2>2, <2>6, <1>1, <1>7
  <2> QED BY <2>4, <2>5, <2>7, <1>1, <1>7 DEF PollFollows
<1> QED BY <1>2, <1>3, <1>4, <1>9, <1>10 DEF IndexerInv, LogInv

\* An RPC error ends the poll before anything is applied.
LEMMA RpcFailsInv ==
  ASSUME IndexerInv, RpcFails
  PROVE  IndexerInv'
<1>1. /\ poll.pc = "logs" /\ poll' = NotPolling
      /\ UNCHANGED <<height, chain, vault, bootHeight, mirror, ready, next_from_block, checkpoint, faults>>
  BY DEF RpcFails, PollFrame
<1>2. LogInv' /\ CheckpointFollows'
  BY <1>1, ProcessStep, SameFile
<1>3. Coherent(mirror)'
  BY <1>1 DEF IndexerInv, Coherent
<1>4. CursorIsSound'
  BY <1>1, Zenon DEF IndexerInv, CursorIsSound
<1>5. IndexerTypeOK'
  <2>1. NotPolling \in Poll
    BY DEF NotPolling, Poll
  <2> QED BY <2>1, <1>1 DEF IndexerInv, IndexerTypeOK
<1>6. PollFollows'
  <2> PICK m, a, b : m = mirror' /\ a = next_from_block' /\ b = poll.to + 1
    OBVIOUS
  <2>1. a \in 0..(height + 1) /\ b \in 0..(MaxHeight + 1)
    BY <1>1, Points
  <2>2. Follows(m, EventsBefore(a), IF faults'.torn = 0 THEN EventsBefore(a) ELSE EventsBefore(b))
    BY <1>1 DEF IndexerInv, PollFollows, Mirrors
  <2>3. b <= ToBlock(height)' + 1
    <3>1. ToBlock(height)' = ToBlock(height)
      BY <1>1 DEF ToBlock
    <3>2. poll.to = ToBlock(poll.latest) /\ poll.latest <= height /\ poll.latest \in Nat
      BY <1>1 DEF IndexerInv, PollFollows, IndexerTypeOK, Poll
    <3>3. height \in Nat
      BY Points
    <3>4. ToBlock(poll.latest) <= ToBlock(height) /\ ToBlock(poll.latest) \in Int /\ ToBlock(height) \in Int
      BY <3>2, <3>3, BatchEnd DEF IndexerInv
    <3> QED BY <3>1, <3>2, <3>4
  <2> QED BY <2>1, <2>2, <2>3, <1>1, EnterIdle
<1> QED BY <1>2, <1>3, <1>4, <1>5, <1>6 DEF IndexerInv, LogInv

\* Where a batch that is being applied stands.
LEMMA InBatch ==
  ASSUME IndexerInv, poll.pc = "apply"
  PROVE  /\ next_from_block \in 0..(height + 1) /\ poll.to + 1 \in 0..(height + 1)
         /\ poll.to + 1 \in 0..(MaxHeight + 1)
         /\ EventsBefore(next_from_block) \in 0..Len(chain)
         /\ EventsBefore(poll.to + 1) \in 0..Len(chain) /\ Len(chain) \in Nat
         /\ poll.todo \in Seq(VaultEvent)
         /\ \E k \in 0..Len(chain) :
              /\ EventsBefore(next_from_block) <= k /\ k <= EventsBefore(poll.to + 1)
              /\ Len(poll.todo) = EventsBefore(poll.to + 1) - k
              /\ \A j \in 1..Len(poll.todo) : poll.todo[j] = chain[k + j]
              /\ Follows(mirror, k, IF faults.torn = 0 THEN k ELSE EventsBefore(poll.to + 1))
<1>1. /\ next_from_block \in 0..(height + 1) /\ poll.to + 1 \in 0..(height + 1)
      /\ poll.to + 1 \in 0..(MaxHeight + 1)
      /\ EventsBefore(next_from_block) \in 0..Len(chain)
      /\ EventsBefore(poll.to + 1) \in 0..Len(chain) /\ Len(chain) \in Nat
  BY Points
<1>2. poll.todo \in Seq(VaultEvent)
  BY DEF IndexerInv, IndexerTypeOK, Poll
<1>3. PICK k \in EventsBefore(next_from_block)..EventsBefore(poll.to + 1) :
        /\ Len(poll.todo) = EventsBefore(poll.to + 1) - k
        /\ \A j \in 1..Len(poll.todo) : poll.todo[j] = chain[k + j]
        /\ Mirrors(k, EventsBefore(poll.to + 1))
  BY DEF IndexerInv, PollFollows
<1>4. /\ k \in 0..Len(chain)
      /\ EventsBefore(next_from_block) <= k /\ k <= EventsBefore(poll.to + 1)
  BY <1>1, <1>3
<1>5. Follows(mirror, k, IF faults.torn = 0 THEN k ELSE EventsBefore(poll.to + 1))
  BY <1>3 DEF Mirrors
<1> QED BY <1>1, <1>2, <1>3, <1>4, <1>5

\* The next event of a batch is applied.
LEMMA ApplyEventInv ==
  ASSUME IndexerInv, ApplyEvent
  PROVE  IndexerInv'
<1>1. /\ poll.pc = "apply" /\ poll.todo # <<>>
      /\ mirror' = process_event(mirror, Head(poll.todo))
      /\ poll' = [poll EXCEPT !.todo = Tail(@)]
      /\ UNCHANGED <<height, chain, vault, bootHeight, ready, next_from_block, checkpoint, faults>>
  BY DEF ApplyEvent, PollFrame
<1>2. LogInv' /\ CheckpointFollows'
  BY <1>1, ProcessStep, SameFile
<1>3. CursorIsSound'
  BY <1>1, Zenon DEF IndexerInv, CursorIsSound
<1> PICK a, c, last, t, s :
      /\ a = next_from_block /\ c = poll.to + 1 /\ t = faults.torn
      /\ last = EventsBefore(c) /\ s = poll.todo
  OBVIOUS
<1>4. PICK k \in 0..Len(chain) :
        /\ EventsBefore(a) <= k /\ k <= last
        /\ Len(s) = last - k
        /\ \A j \in 1..Len(s) : s[j] = chain[k + j]
        /\ Follows(mirror, k, IF t = 0 THEN k ELSE last)
  BY <1>1, InBatch
<1>5. s \in Seq(VaultEvent) /\ last \in 0..Len(chain) /\ Len(chain) \in Nat /\ EventsBefore(a) \in Nat
  BY <1>1, InBatch
<1>6. Len(s) \in Nat \ {0} /\ Head(s) = s[1] /\ Tail(s) \in Seq(VaultEvent)
      /\ Len(Tail(s)) = Len(s) - 1 /\ \A j \in 1..Len(Tail(s)) : Tail(s)[j] = s[j + 1]
  BY <1>1, <1>5
<1>7. k < last /\ k \in Nat /\ 1 \in 1..Len(s)
  BY <1>4, <1>5, <1>6
<1>8. Head(s) = chain[k + 1]
  BY <1>4, <1>6, <1>7
<1> PICK m, m2 : m = mirror /\ m2 = mirror'
  OBVIOUS
<1>9. m2 = process_event(m, chain[k + 1]) /\ m \in TreeMirror /\ Coherent(m)
  BY <1>1, <1>8 DEF IndexerInv, IndexerTypeOK
<1>10. m2 \in TreeMirror /\ Coherent(m2) /\ Follows(m2, k + 1, IF t = 0 THEN k + 1 ELSE last)
  <2>1. CASE t = 0
    <3>1. Follows(m, k, k + 1)
      <4>1. Follows(m, k, k) /\ k + 1 \in Nat /\ k <= k + 1
        BY <1>4, <1>7, <2>1
      <4> QED BY <4>1, <1>7, FollowsFurther
    <3>2. k + 1 \in 0..Len(chain) /\ k < k + 1
      BY <1>5, <1>7
    <3> QED BY <2>1, <3>1, <3>2, <1>7, <1>9, ApplyFollows DEF IndexerInv
  <2>2. CASE t # 0
    <3>1. Follows(m, k, last)
      BY <1>4, <2>2
    <3> QED BY <2>2, <3>1, <1>5, <1>7, <1>9, ApplyFollows DEF IndexerInv
  <2> QED BY <2>1, <2>2
<1>11. /\ poll'.pc = "apply" /\ poll'.to = poll.to /\ poll'.latest = poll.latest
       /\ poll'.todo = Tail(s) /\ poll' \in Poll
  BY <1>1, <1>6 DEF IndexerInv, IndexerTypeOK, Poll
<1>12. IndexerTypeOK'
  BY <1>1, <1>10, <1>11 DEF IndexerInv, IndexerTypeOK
<1>13. Coherent(mirror)'
  BY <1>10 DEF Coherent
<1>14. PollFollows'
  <2> PICK q : q = IF t = 0 THEN k + 1 ELSE last
    OBVIOUS
  <2>1. Follows(m2, k + 1, q)' /\ EventsBefore(a)' = EventsBefore(a) /\ EventsBefore(c)' = last
    BY <1>1, <1>10, ProcessStep
  <2>2. Follows(mirror, k + 1, IF faults.torn = 0 THEN k + 1 ELSE EventsBefore(poll.to + 1))'
    BY <1>1, <1>11, <2>1
  <2>3. ToBlock(poll.latest)' = ToBlock(poll.latest)
    BY <1>1, <1>11 DEF ToBlock
  <2>4. /\ bootHeight <= poll.latest /\ poll.latest <= height
        /\ poll.to = ToBlock(poll.latest) /\ next_from_block <= poll.to
    BY <1>1 DEF IndexerInv, PollFollows
  <2>5. k + 1 \in EventsBefore(a)..last /\ Len(Tail(s)) = last - (k + 1)
    BY <1>4, <1>5, <1>6, <1>7
  <2>6. \A j \in 1..Len(Tail(s)) : Tail(s)[j] = chain[(k + 1) + j]
    <3> TAKE j \in 1..Len(Tail(s))
    <3>1. j + 1 \in 1..Len(s) /\ k + (j + 1) = (k + 1) + j
      BY <1>6, <1>7
    <3>2. s[j + 1] = chain[k + (j + 1)]
      BY <1>4, <3>1
    <3> QED BY <3>1, <3>2, <1>6
  <2>7. (\E x \in EventsBefore(next_from_block)..EventsBefore(poll.to + 1) :
           /\ Len(poll.todo) = EventsBefore(poll.to + 1) - x
           /\ \A i \in 1..Len(poll.todo) : poll.todo[i] = chain[x + i]
           /\ Mirrors(x, EventsBefore(poll.to + 1)))'
    <3>1. Mirrors(k + 1, EventsBefore(poll.to + 1))'
      <4> PICK y : y = k + 1
        OBVIOUS
      <4>1. Follows(mirror, y, IF faults.torn = 0 THEN y ELSE EventsBefore(poll.to + 1))'
        BY <2>2
      <4>2. Mirrors(y, EventsBefore(poll.to + 1))'
        BY <4>1 DEF Mirrors
      <4> QED BY <4>2
    <3> QED BY <3>1, <2>1, <2>5, <2>6, <1>1, <1>11
  <2> QED BY <2>3, <2>4, <2>7, <1>1, <1>11 DEF PollFollows
<1> QED BY <1>2, <1>3, <1>12, <1>13, <1>14 DEF IndexerInv, LogInv

(***************************************************************************)
(* A batch that fails to decode leaves some of its events applied; the     *)
(* cursor is behind them, and they are events of the next batch.           *)
(***************************************************************************)
LEMMA DecodeFailsInv ==
  ASSUME IndexerInv, DecodeFails
  PROVE  IndexerInv'
<1>1. /\ poll.pc = "apply" /\ poll' = NotPolling /\ faults.torn < MaxTorn
      /\ faults' = [faults EXCEPT !.torn = @ + 1]
      /\ UNCHANGED <<height, chain, vault, bootHeight, mirror, ready, next_from_block, checkpoint>>
  BY DEF DecodeFails, PollFrame
<1>2. LogInv' /\ CheckpointFollows'
  BY <1>1, ProcessStep, SameFile
<1>3. Coherent(mirror)'
  BY <1>1 DEF IndexerInv, Coherent
<1>4. CursorIsSound'
  BY <1>1, Zenon DEF IndexerInv, CursorIsSound
<1>5. faults' \in [crashes : 0..MaxCrashes, torn : 0..MaxTorn, disk : 0..MaxDiskFaults] /\ faults'.torn # 0
  <2>1. faults \in [crashes : 0..MaxCrashes, torn : 0..MaxTorn, disk : 0..MaxDiskFaults]
    BY DEF IndexerInv, IndexerTypeOK
  <2>2. faults.torn + 1 \in 0..MaxTorn /\ faults.torn + 1 # 0
    BY <2>1, <1>1, IndexerAssumption
  <2> QED BY <2>1, <2>2, <1>1
<1>6. IndexerTypeOK'
  <2>1. NotPolling \in Poll
    BY DEF NotPolling, Poll
  <2> QED BY <2>1, <1>1, <1>5 DEF IndexerInv, IndexerTypeOK
<1>7. PollFollows'
  <2> PICK m, a, b, t, last : /\ m = mirror' /\ a = next_from_block' /\ b = poll.to + 1 /\ t = faults.torn
                              /\ last = EventsBefore(b)
    OBVIOUS
  <2>1. PICK k \in 0..Len(chain) :
          EventsBefore(a) <= k /\ k <= last /\ Follows(m, k, IF t = 0 THEN k ELSE last)
    BY <1>1, InBatch
  <2>2. /\ a \in 0..(height + 1) /\ b \in 0..(MaxHeight + 1) /\ Len(chain) \in Nat
        /\ EventsBefore(a) \in 0..Len(chain) /\ last \in 0..Len(chain)
    BY <1>1, InBatch
  <2>3. Follows(m, k, last)
    <3>1. CASE t = 0
      <4>1. Follows(m, k, k) /\ k \in Nat /\ last \in Nat
        BY <2>1, <2>2, <3>1
      <4> QED BY <4>1, <2>1, FollowsFurther
    <3>2. CASE t # 0
      BY <2>1, <3>2
    <3> QED BY <3>1, <3>2
  <2>4. Follows(m, EventsBefore(a), last)
    <3>1. last \in Nat
      BY <2>2
    <3> QED BY <3>1, <2>1, <2>2, <2>3, FollowsBack DEF IndexerInv
  <2>5. Follows(m, EventsBefore(a), IF faults'.torn = 0 THEN EventsBefore(a) ELSE EventsBefore(b))
    BY <2>4, <1>5
  <2>6. b <= ToBlock(height)' + 1
    <3>1. ToBlock(height)' = ToBlock(height)
      BY <1>1 DEF ToBlock
    <3>2. poll.to = ToBlock(poll.latest) /\ poll.latest <= height /\ poll.latest \in Nat
      BY <1>1 DEF IndexerInv, PollFollows, IndexerTypeOK, Poll
    <3>3. height \in Nat
      BY Points
    <3>4. ToBlock(poll.latest) <= ToBlock(height) /\ ToBlock(poll.latest) \in Int /\ ToBlock(height) \in Int
      BY <3>2, <3>3, BatchEnd DEF IndexerInv
    <3> QED BY <3>1, <3>2, <3>4
  <2> QED BY <2>2, <2>5, <2>6, <1>1, EnterIdle
<1> QED BY <1>2, <1>3, <1>4, <1>6, <1>7 DEF IndexerInv, LogInv

\* After its last event the mirror has the vault's leaves at the end of the batch,
\* however often its events were applied; the cursor moves behind them.
LEMMA BatchEnds ==
  ASSUME IndexerInv, poll.pc = "apply", poll.todo = <<>>,
         next_from_block' = poll.to + 1, poll' = NotPolling,
         UNCHANGED <<height, chain, vault, bootHeight, mirror>>,
         faults'.torn = faults.torn
  PROVE  /\ Follows(mirror, EventsBefore(poll.to + 1), EventsBefore(poll.to + 1))
         /\ PollFollows'
         /\ poll.to + 1 \in 0..(height + 1) /\ poll.to + 1 \in 0..(MaxHeight + 1)
         /\ next_from_block < poll.to + 1 /\ bootHeight <= poll.latest
<1> PICK m, a, t : m = mirror' /\ a = poll.to + 1 /\ t = faults.torn
  OBVIOUS
<1>1. PICK k \in 0..Len(chain) :
        /\ k <= EventsBefore(a) /\ Len(poll.todo) = EventsBefore(a) - k
        /\ Follows(m, k, IF t = 0 THEN k ELSE EventsBefore(a))
  BY InBatch
<1>2. /\ a \in 0..(height + 1) /\ a \in 0..(MaxHeight + 1) /\ Len(chain) \in Nat
      /\ EventsBefore(a) \in 0..Len(chain)
  BY InBatch
<1>3. k = EventsBefore(a)
  <2>1. Len(poll.todo) = 0
    OBVIOUS
  <2> QED BY <1>1, <1>2, <2>1
<1>4. Follows(m, EventsBefore(a), EventsBefore(a))
  BY <1>1, <1>3
<1>5. next_from_block < poll.to + 1 /\ bootHeight <= poll.latest /\ height \in Nat /\ next_from_block \in Nat
  <2>1. next_from_block <= poll.to /\ bootHeight <= poll.latest /\ poll.to \in Nat /\ next_from_block \in Nat
    BY Points DEF IndexerInv, PollFollows
  <2> QED BY <2>1, Points
<1>6. a <= ToBlock(height)' + 1
  <2> PICK x : x = ToBlock(height)'
    OBVIOUS
  <2>1. x = IF height <= a + MaxBlockRange - 1 THEN height ELSE a + MaxBlockRange - 1
    BY DEF ToBlock
  <2>2. \A y, r, h \in Nat : y <= h + 1 /\ r # 0 =>
          y <= (IF h <= y + r - 1 THEN h ELSE y + r - 1) + 1
    OBVIOUS
  <2>3. a \in Nat /\ MaxBlockRange \in Nat /\ MaxBlockRange # 0 /\ a <= height + 1
    BY <1>2, <1>5, IndexerAssumption
  <2>4. a <= (IF height <= a + MaxBlockRange - 1 THEN height ELSE a + MaxBlockRange - 1) + 1
    BY <2>2, <2>3, <1>5, Zenon
  <2> QED BY <2>1, <2>4, Zenon
<1>7. PollFollows'
  <2>1. Follows(m, EventsBefore(a), IF faults'.torn = 0 THEN EventsBefore(a) ELSE EventsBefore(a))
    BY <1>4
  <2> QED BY <2>1, <1>2, <1>6, EnterIdle
<1> QED BY <1>2, <1>4, <1>5, <1>7

\* The end of a batch writes the file.
LEMMA BatchDoneInv ==
  ASSUME IndexerInv, BatchDone
  PROVE  IndexerInv'
<1>1. /\ poll.pc = "apply" /\ poll.todo = <<>> /\ next_from_block' = poll.to + 1
      /\ checkpoint' = persist_checkpoint /\ poll' = NotPolling
      /\ ready' = (ready \/ CaughtUp(poll.to, poll.latest))
      /\ UNCHANGED <<height, chain, vault, bootHeight, mirror, faults>>
  BY DEF BatchDone, PollFrame
<1>2. LogInv'
  BY <1>1, ProcessStep
<1>3. Coherent(mirror)'
  BY <1>1 DEF IndexerInv, Coherent
<1>4. /\ Follows(mirror, EventsBefore(poll.to + 1), EventsBefore(poll.to + 1))
      /\ PollFollows'
      /\ poll.to + 1 \in 0..(height + 1) /\ poll.to + 1 \in 0..(MaxHeight + 1)
      /\ next_from_block < poll.to + 1 /\ bootHeight <= poll.latest
  BY <1>1, BatchEnds
<1>5. snapshot(mirror) = mirror /\ mirror \in TreeMirror
  BY SnapshotKeeps DEF IndexerInv, IndexerTypeOK
<1>6. ASSUME Checkpointing
      PROVE  CheckpointFollows' /\ checkpoint' \in Checkpoint
  <2>1. checkpoint' = [next |-> poll.to + 1, mirror |-> mirror]
    BY <1>1, <1>5, <1>6 DEF persist_checkpoint
  <2> PICK m, b, k : m = mirror /\ b = poll.to + 1 /\ k = EventsBefore(b)
    OBVIOUS
  <2>2. checkpoint'.next = b /\ checkpoint'.mirror = m /\ height' = height
    BY <1>1, <2>1
  <2>3. Follows(m, k, k)' /\ EventsBefore(b)' = k /\ b <= height + 1 /\ Coherent(m)
    <3>1. b <= height + 1
      BY <1>4, Points
    <3> QED BY <3>1, <1>1, <1>4, ProcessStep DEF IndexerInv
  <2>4. Follows(checkpoint.mirror, EventsBefore(checkpoint.next), EventsBefore(checkpoint.next))'
    BY <2>2, <2>3
  <2>5. CheckpointFollows'
    BY <2>2, <2>3, <2>4 DEF CheckpointFollows, Coherent
  <2>6. checkpoint' \in Checkpoint
    <3>1. poll.to + 1 \in Nat
      BY <1>4, Points
    <3> QED BY <2>1, <3>1, <1>5 DEF Checkpoint
  <2> QED BY <2>5, <2>6
<1>7. ASSUME ~Checkpointing
      PROVE  CheckpointFollows' /\ checkpoint' \in Checkpoint
  <2>1. checkpoint' = checkpoint
    BY <1>1, <1>7 DEF persist_checkpoint
  <2> QED BY <2>1, <1>1, SameFile DEF IndexerInv, IndexerTypeOK
<1>8. CursorIsSound'
  <2>1. /\ height \in Nat /\ bootHeight \in Nat /\ next_from_block \in Nat /\ poll.to \in Nat
        /\ bootHeight <= height
    BY <1>1, Points, IndexerAssumption DEF IndexerInv, IndexerTypeOK, CursorIsSound
  <2>2. ready => bootHeight < next_from_block
    BY Zenon DEF IndexerInv, CursorIsSound
  <2>3. bootHeight < next_from_block => bootHeight < poll.to + 1
    BY <2>1, <1>4
  <2>4. CaughtUp(poll.to, poll.latest) => bootHeight < poll.to + 1
    BY <2>1, <1>4 DEF CaughtUp
  <2>5. ready' => bootHeight < poll.to + 1
    BY <2>2, <2>3, <2>4, <1>1, Zenon
  <2>6. poll.to + 1 <= height + 1
    BY <2>1, <1>4
  <2> QED BY <2>1, <2>5, <2>6, <1>1, Zenon DEF CursorIsSound
<1>9. IndexerTypeOK'
  <2>1. NotPolling \in Poll
    BY DEF NotPolling, Poll
  <2>2. ready' \in BOOLEAN
    BY <1>1, Zenon DEF IndexerInv, IndexerTypeOK, CaughtUp
  <2>3. checkpoint' \in Checkpoint
    BY <1>6, <1>7
  <2>4. next_from_block' \in 0..(MaxHeight + 1)
    BY <1>1, <1>4
  <2> QED BY <2>1, <2>2, <2>3, <2>4, <1>1 DEF IndexerInv, IndexerTypeOK
<1> QED BY <1>2, <1>3, <1>4, <1>6, <1>7, <1>8, <1>9 DEF IndexerInv, LogInv

\* A file that cannot be written stays, and so does what it says.
LEMMA PersistFailsInv ==
  ASSUME IndexerInv, PersistFails
  PROVE  IndexerInv'
<1>1. /\ poll.pc = "apply" /\ poll.todo = <<>> /\ next_from_block' = poll.to + 1
      /\ faults.disk < MaxDiskFaults /\ faults' = [faults EXCEPT !.disk = @ + 1]
      /\ poll' = NotPolling
      /\ UNCHANGED <<height, chain, vault, bootHeight, mirror, ready, checkpoint>>
  BY DEF PersistFails, PollFrame
<1>2. LogInv' /\ CheckpointFollows'
  BY <1>1, ProcessStep, SameFile
<1>3. Coherent(mirror)'
  BY <1>1 DEF IndexerInv, Coherent
<1>4. faults' \in [crashes : 0..MaxCrashes, torn : 0..MaxTorn, disk : 0..MaxDiskFaults]
      /\ faults'.torn = faults.torn
  <2>1. faults \in [crashes : 0..MaxCrashes, torn : 0..MaxTorn, disk : 0..MaxDiskFaults]
    BY DEF IndexerInv, IndexerTypeOK
  <2>2. faults.disk + 1 \in 0..MaxDiskFaults
    BY <2>1, <1>1, IndexerAssumption
  <2> QED BY <2>1, <2>2, <1>1
<1>5. /\ PollFollows'
      /\ poll.to + 1 \in 0..(height + 1) /\ poll.to + 1 \in 0..(MaxHeight + 1)
      /\ next_from_block < poll.to + 1
  BY <1>1, <1>4, BatchEnds
<1>6. CursorIsSound'
  <2>1. /\ height \in Nat /\ bootHeight \in Nat /\ next_from_block \in Nat /\ poll.to \in Nat
        /\ bootHeight <= height
    BY <1>1, Points, IndexerAssumption DEF IndexerInv, IndexerTypeOK, CursorIsSound
  <2>2. ready => bootHeight < next_from_block
    BY Zenon DEF IndexerInv, CursorIsSound
  <2>3. bootHeight < next_from_block => bootHeight < poll.to + 1
    BY <2>1, <1>5
  <2>4. poll.to + 1 <= height + 1
    BY <2>1, <1>5
  <2> QED BY <2>1, <2>2, <2>3, <2>4, <1>1, Zenon DEF CursorIsSound
<1>7. IndexerTypeOK'
  <2>1. NotPolling \in Poll
    BY DEF NotPolling, Poll
  <2>2. next_from_block' \in 0..(MaxHeight + 1)
    BY <1>1, <1>5
  <2> QED BY <2>1, <2>2, <1>1, <1>4 DEF IndexerInv, IndexerTypeOK
<1> QED BY <1>2, <1>3, <1>5, <1>6, <1>7 DEF IndexerInv, LogInv

\* A new process goes on from the file, or from the beginning.
LEMMA RestartInv ==
  ASSUME IndexerInv, Restart
  PROVE  IndexerInv'
<1>1. /\ faults.crashes < MaxCrashes /\ faults' = [faults EXCEPT !.crashes = @ + 1]
      /\ mirror' = RestoredMirror
      /\ next_from_block' = IF checkpoint.next > 0 THEN checkpoint.next ELSE FromBlock
      /\ ready' = FALSE /\ poll' = NotPolling /\ bootHeight' = height
      /\ UNCHANGED <<height, chain, vault, checkpoint>>
  BY DEF Restart
<1>2. LogInv' /\ CheckpointFollows'
  BY <1>1, ProcessStep, SameFile
<1>3. faults' \in [crashes : 0..MaxCrashes, torn : 0..MaxTorn, disk : 0..MaxDiskFaults]
  <2>1. faults \in [crashes : 0..MaxCrashes, torn : 0..MaxTorn, disk : 0..MaxDiskFaults]
    BY DEF IndexerInv, IndexerTypeOK
  <2>2. faults.crashes + 1 \in 0..MaxCrashes
    BY <2>1, <1>1, IndexerAssumption
  <2> QED BY <2>1, <2>2, <1>1
<1> PICK m, a : m = mirror' /\ a = next_from_block'
  OBVIOUS
<1>4. height \in Nat /\ MaxHeight \in Nat /\ height <= MaxHeight
  BY Points DEF IndexerInv, IndexerTypeOK
<1>5. m \in TreeMirror /\ Coherent(m) /\ a \in 0..(height + 1) /\ Follows(m, EventsBefore(a), EventsBefore(a))
  <2>1. CASE checkpoint.next > 0
    <3>1. checkpoint.mirror \in TreeMirror /\ Coherent(checkpoint.mirror)
      BY <2>1 DEF IndexerInv, IndexerTypeOK, Checkpoint, CheckpointFollows
    <3>2. m = checkpoint.mirror /\ a = checkpoint.next
      BY <1>1, <2>1, <3>1, SnapshotKeeps DEF RestoredMirror
    <3>3. Follows(m, EventsBefore(a), EventsBefore(a))
      BY <2>1, <3>2 DEF IndexerInv, CheckpointFollows
    <3> QED BY <2>1, <3>1, <3>2, <3>3, Points
  <2>2. CASE ~(checkpoint.next > 0)
    <3>1. m = EmptyMirror /\ a = 0
      BY <1>1, <2>2 DEF RestoredMirror, FromBlock
    <3>2. EventsBefore(0) = 0
      <4> PICK i : i = EventsBefore(0)
        OBVIOUS
      <4>1. i \in 0..Len(chain) /\ \A j \in 1..Len(chain) : chain[j].block < 0 <=> j <= i
        BY <1>4 DEF IndexerInv, LogIsOrdered
      <4>2. CASE i \in 1..Len(chain)
        <5>1. chain[i].block < 0
          BY <4>1, <4>2, Points
        <5>2. chain[i] \in VaultEvent
          BY <4>2 DEF IndexerInv, IndexerTypeOK
        <5>3. chain[i].block \in Nat
          BY <5>2 DEF VaultEvent
        <5> QED BY <5>1, <5>3
      <4> QED BY <4>1, <4>2, Points
    <3> QED BY <3>1, <3>2, <1>4, EmptyFollows
  <2> QED BY <2>1, <2>2
<1>6. IndexerTypeOK'
  <2>1. NotPolling \in Poll
    BY DEF NotPolling, Poll
  <2>2. next_from_block' \in 0..(MaxHeight + 1)
    BY <1>4, <1>5
  <2>3. bootHeight' \in 0..MaxHeight
    BY <1>1, <1>4
  <2> QED BY <2>1, <2>2, <2>3, <1>1, <1>3, <1>5 DEF IndexerInv, IndexerTypeOK
<1>7. Coherent(mirror)'
  BY <1>5 DEF Coherent
<1>8. CursorIsSound'
  BY <1>1, <1>4, <1>5 DEF CursorIsSound
<1>9. PollFollows'
  <2>1. Follows(m, EventsBefore(a), IF faults'.torn = 0 THEN EventsBefore(a) ELSE EventsBefore(a))
    BY <1>5
  <2>2. a \in 0..(MaxHeight + 1)
    BY <1>4, <1>5
  <2>3. a <= ToBlock(height)' + 1
    <3> PICK x : x = ToBlock(height)'
      OBVIOUS
    <3>1. x = IF height <= a + MaxBlockRange - 1 THEN height ELSE a + MaxBlockRange - 1
      BY <1>1 DEF ToBlock
    <3>2. \A y, r, h \in Nat : y <= h + 1 /\ r # 0 =>
            y <= (IF h <= y + r - 1 THEN h ELSE y + r - 1) + 1
      OBVIOUS
    <3>3. a \in Nat /\ MaxBlockRange \in Nat /\ MaxBlockRange # 0 /\ a <= height + 1
      BY <1>4, <1>5, IndexerAssumption
    <3>4. a <= (IF height <= a + MaxBlockRange - 1 THEN height ELSE a + MaxBlockRange - 1) + 1
      BY <3>2, <3>3, <1>4, Zenon
    <3> QED BY <3>1, <3>4, Zenon
  <2> QED BY <2>1, <2>2, <2>3, <1>1, <1>5, EnterIdle
<1> QED BY <1>2, <1>6, <1>7, <1>8, <1>9 DEF IndexerInv, LogInv

-----------------------------------------------------------------------------
(* Theorems *)

\* The empty indexer agrees with the empty chain.
LEMMA InitInv == IndexerInit => IndexerInv
<1> SUFFICES ASSUME IndexerInit PROVE IndexerInv
  OBVIOUS
<1>1. /\ height = 0 /\ chain = <<>> /\ vault = [n \in Notes |-> "none"] /\ mirror = EmptyMirror
      /\ ready = FALSE /\ next_from_block = 0 /\ poll = NotPolling /\ checkpoint = NoCheckpoint
      /\ faults = [crashes |-> 0, torn |-> 0, disk |-> 0] /\ bootHeight = 0
  BY DEF IndexerInit, FromBlock
<1>2. Len(chain) = 0 /\ 1..Len(chain) = {}
  BY <1>1
<1>3. IndexerTypeOK
  <2>1. NotPolling \in Poll /\ NoCheckpoint \in Checkpoint /\ EmptyMirror \in TreeMirror
    BY EmptyFollows DEF NotPolling, Poll, NoCheckpoint, Checkpoint
  <2>2. chain \in Seq(VaultEvent) /\ Len(chain) <= MaxEvents
    BY <1>1, <1>2, IndexerAssumption
  <2>3. faults \in [crashes : 0..MaxCrashes, torn : 0..MaxTorn, disk : 0..MaxDiskFaults]
    BY <1>1, IndexerAssumption
  <2>4. height \in 0..MaxHeight /\ bootHeight \in 0..MaxHeight /\ next_from_block \in 0..(MaxHeight + 1)
    BY <1>1, IndexerAssumption
  <2> QED BY <2>1, <2>2, <2>3, <2>4, <1>1 DEF IndexerTypeOK
<1>4. \A b : EventsBefore(b) = 0
  BY <1>2, FS_EmptySet DEF EventsBefore
<1>5. LogIsOrdered
  BY <1>2, <1>4 DEF LogIsOrdered
<1>6. RootsFollowEvents /\ RootsDifferByEvents
  <2>1. RootsFollowEvents
    BY <1>2 DEF RootsFollowEvents
  <2>2. \A j, k \in 0..Len(chain) : j = k
    BY <1>2
  <2>3. RootsDifferByEvents
    BY <2>2 DEF RootsDifferByEvents
  <2> QED BY <2>1, <2>3
<1>7. VaultMatchesLog
  <2>1. RootAfter(Len(chain)) = {} /\ DepositsUpTo(Len(chain)) = {}
    BY <1>2 DEF RootAfter, DepositsUpTo
  <2>2. \A n \in Notes : vault[n] = "none"
    BY <1>1
  <2> QED BY <2>1, <2>2 DEF VaultMatchesLog, ActiveNotes
<1>8. Coherent(mirror) /\ CheckpointFollows /\ CursorIsSound
  BY <1>1, EmptyFollows DEF CheckpointFollows, NoCheckpoint, CursorIsSound
<1>9. PollFollows
  BY <1>1, <1>4, EmptyFollows DEF PollFollows, Mirrors, NotPolling
<1> QED BY <1>3, <1>5, <1>6, <1>7, <1>8, <1>9 DEF IndexerInv

\* A step that changes nothing.
LEMMA StutterInv ==
  ASSUME IndexerInv, UNCHANGED vars
  PROVE  IndexerInv'
<1> USE DEF vars
<1>1. LogInv' /\ CheckpointFollows'
  BY ProcessStep, SameFile
<1>2. IndexerTypeOK'
  BY DEF IndexerInv, IndexerTypeOK
<1>3. Coherent(mirror)' /\ CursorIsSound'
  BY Zenon DEF IndexerInv, Coherent, CursorIsSound
<1>4. PollFollows'
  <2> PICK c : c = ToBlock(height') + 1
    OBVIOUS
  <2>1. height' \in Nat /\ height <= height' /\ height' <= MaxHeight
    BY Points DEF IndexerInv, IndexerTypeOK
  <2>2. /\ \A b : EventsBefore(b)' = EventsBefore(b)
        /\ \A m, k, q : Follows(m, k, q)' = Follows(m, k, q)
    BY ProcessStep
  <2> QED BY <2>1, <2>2, ChainStep
<1> QED BY <1>1, <1>2, <1>3, <1>4 DEF IndexerInv, LogInv

(***************************************************************************)
(* The inductive invariant: the log of the vault, the mirror, the poller's *)
(* cursor and the checkpoint file agree at every step of poll_once, for    *)
(* any number of notes, blocks, restarts, undecodable batches and failed   *)
(* writes.                                                                 *)
(***************************************************************************)
THEOREM IndexerInvariance == IndexerSpec => []IndexerInv
<1>1. IndexerInv /\ [IndexerNext]_vars => IndexerInv'
  <2> SUFFICES ASSUME IndexerInv, [IndexerNext]_vars PROVE IndexerInv'
    OBVIOUS
  <2> QED BY VaultStepInv, MineInv, FetchBlockNumberInv, FetchLogsInv, ApplyEventInv, BatchDoneInv,
             RpcFailsInv, DecodeFailsInv, PersistFailsInv, RestartInv, StutterInv
          DEF IndexerNext, PollStep
<1> QED BY InitInv, <1>1, PTL DEF IndexerSpec

(***************************************************************************)
(* Cursor and mirror on disk agree: persist_checkpoint never stores a tree *)
(* that is not the vault's after the blocks before the stored cursor.      *)
(***************************************************************************)
THEOREM IndexerCheckpointMatchesVault == IndexerSpec => []CheckpointMatchesVault
<1>1. IndexerInv => CheckpointMatchesVault
  <2> SUFFICES ASSUME IndexerInv, checkpoint.next > 0
               PROVE  /\ checkpoint.mirror.leaves = RootAfter(EventsBefore(checkpoint.next))
                      /\ checkpoint.mirror.original_leaves = DepositsUpTo(EventsBefore(checkpoint.next))
    BY DEF CheckpointMatchesVault
  <2>1. EventsBefore(checkpoint.next) \in 0..Len(chain)
    BY Points
  <2>2. checkpoint.mirror \in TreeMirror
    BY DEF IndexerInv, IndexerTypeOK, Checkpoint
  <2>3. Follows(checkpoint.mirror, EventsBefore(checkpoint.next), EventsBefore(checkpoint.next))
    BY DEF IndexerInv, CheckpointFollows
  <2> QED BY <2>1, <2>2, <2>3, FollowsExactly DEF IndexerInv
<1> QED BY <1>1, IndexerInvariance, PTL

(***************************************************************************)
(* A tree that the endpoints serve is one the vault had, no older than the *)
(* start of the process, while no batch has failed half-way: ensure_ready  *)
(* holds readers back for all batches of a catch-up.                       *)
(***************************************************************************)
THEOREM IndexerServedRootExisted == IndexerSpec => []ServedRootExisted
<1>1. IndexerInv => ServedRootExisted
  <2> SUFFICES ASSUME IndexerInv, faults.torn = 0, ready
               PROVE  \E k \in EventsBefore(bootHeight + 1)..Len(chain) :
                        /\ mirror.leaves = RootAfter(k)
                        /\ mirror.next_note_id = Cardinality(DepositsUpTo(k))
    BY DEF ServedRootExisted, Served, ensure_ready
  <2>1. /\ Len(chain) \in Nat /\ next_from_block \in 0..(height + 1) /\ bootHeight \in Nat
        /\ height \in Nat /\ height <= MaxHeight /\ MaxHeight \in Nat
    BY Points, IndexerAssumption DEF IndexerInv, IndexerTypeOK
  <2>2. bootHeight < next_from_block
    BY DEF IndexerInv, CursorIsSound
  <2>3. /\ bootHeight + 1 \in 0..(MaxHeight + 1) /\ next_from_block \in 0..(MaxHeight + 1)
        /\ bootHeight + 1 <= next_from_block
    BY <2>1, <2>2
  <2>4. EventsBefore(bootHeight + 1) <= EventsBefore(next_from_block)
    BY <2>3, EventsBeforeMonotone DEF IndexerInv
  <2>5. EventsBefore(bootHeight + 1) \in 0..Len(chain) /\ EventsBefore(next_from_block) \in 0..Len(chain)
    BY <2>3 DEF IndexerInv, LogIsOrdered
  <2>6. \E k \in 0..Len(chain) : EventsBefore(next_from_block) <= k /\ Follows(mirror, k, k)
    <3>1. poll.pc \in {"idle", "logs", "apply", "stopped"}
      BY DEF IndexerInv, IndexerTypeOK, Poll
    <3>2. CASE poll.pc \in {"idle", "logs", "stopped"}
      <4>1. Follows(mirror, EventsBefore(next_from_block), EventsBefore(next_from_block))
        BY <3>2 DEF IndexerInv, PollFollows, Mirrors
      <4> QED BY <4>1, <2>5
    <3>3. CASE poll.pc = "apply"
      BY <3>3, InBatch
    <3> QED BY <3>1, <3>2, <3>3
  <2>7. PICK k \in 0..Len(chain) : EventsBefore(next_from_block) <= k /\ Follows(mirror, k, k)
    BY <2>6
  <2>8. mirror \in TreeMirror /\ mirror.next_note_id \in Nat
    BY NoteIds DEF IndexerInv, IndexerTypeOK, TreeMirror
  <2>9. mirror.leaves = RootAfter(k) /\ mirror.original_leaves = DepositsUpTo(k)
    BY <2>7, <2>8, FollowsExactly DEF IndexerInv
  <2>10. DepositsUpTo(k) = 0..(mirror.next_note_id - 1)
    BY <2>9 DEF IndexerInv, Coherent
  <2>11. Cardinality(0..(mirror.next_note_id - 1)) = mirror.next_note_id
    <3> PICK d \in Nat : d = mirror.next_note_id
      BY <2>8
    <3>1. Cardinality(0..(d - 1)) = IF 0 > d - 1 THEN 0 ELSE (d - 1) - 0 + 1
      <4>1. 0 \in Int /\ d - 1 \in Int
        OBVIOUS
      <4> QED BY <4>1, FS_Interval, Zenon
    <3>2. (IF 0 > d - 1 THEN 0 ELSE (d - 1) - 0 + 1) = d
      OBVIOUS
    <3> QED BY <3>1, <3>2
  <2>12. k \in EventsBefore(bootHeight + 1)..Len(chain)
    BY <2>1, <2>4, <2>5, <2>7
  <2> QED BY <2>9, <2>10, <2>11, <2>12
<1> QED BY <1>1, IndexerInvariance, PTL

=============================================================================
