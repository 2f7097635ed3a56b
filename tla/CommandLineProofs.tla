------------------------- MODULE CommandLineProofs -------------------------
(***************************************************************************)
(* Proofs about CommandLine: CliInv is inductive, and what it says of the  *)
(* secrets, the transactions and the reports.                              *)
(***************************************************************************)
EXTENDS CommandLine, FiniteSetTheorems, TLAPS

-----------------------------------------------------------------------------
(* Amounts and note ids *)

\* The amounts are numbers, hold 0 and what may be deposited, and what is left of one.
LEMMA AmountsClosed ==
  /\ Amounts \subseteq Nat /\ 0 \in Amounts /\ Credits \subseteq Amounts
  /\ \A a \in Amounts : \A b \in Nat : b <= a => b \in Amounts
<1>1. MaxNotes * Cap \in Nat /\ Credits \subseteq Nat
  BY CommandLineAssumption
<1> QED BY <1>1 DEF Amounts

\* The next note id is the one after the notes there are.
LEMMA NextNote ==
  ASSUME CliTypeOK, NotesAreDense
  PROVE  /\ NextNoteId \in 1..MaxNotes + 1 /\ NextNoteId \notin NotesOnChain
         /\ Cardinality(NotesOnChain) \in 0..MaxNotes
         /\ NotesOnChain = 1..Cardinality(NotesOnChain)
<1>1. PICK k \in 0..MaxNotes : NotesOnChain = 1..k
  BY DEF NotesAreDense
<1>2. k \in Nat /\ MaxNotes \in Nat /\ k <= MaxNotes
  BY CommandLineAssumption
<1>3. Cardinality(1..k) = k
  BY <1>2, FS_Interval
<1> QED BY <1>1, <1>2, <1>3 DEF NextNoteId

-----------------------------------------------------------------------------
(* Steps of the vault *)

\* A deposit takes the next id, and every other note stays as it was.
LEMMA DepositEffect ==
  ASSUME CliTypeOK, NotesAreDense, NEW n, n = NextNoteId, n \in Notes,
         NEW s \in Secrets \cup {Nobody}, NEW a \in Amounts, Deposited(n, s, a)
  PROVE  /\ vault' \in [Notes -> NoteOnChain] /\ server' \in [Notes -> Amounts]
         /\ \A m \in Notes : m # n => vault'[m] = vault[m] /\ server'[m] = server[m]
         /\ vault[n].status = "none"
         /\ vault'[n].status = "active" /\ vault'[n].owner = s /\ server'[n] = a
         /\ n \notin NotesOnChain /\ NotesOnChain' = NotesOnChain \cup {n}
         /\ NotesAreDense'
<1>1. /\ n \in 1..MaxNotes + 1 /\ n \notin NotesOnChain
      /\ n = Cardinality(NotesOnChain) + 1 /\ Cardinality(NotesOnChain) \in 0..MaxNotes
      /\ NotesOnChain = 1..Cardinality(NotesOnChain)
  BY NextNote DEF NextNoteId
<1>2. /\ vault' \in [Notes -> NoteOnChain] /\ server' \in [Notes -> Amounts]
      /\ \A m \in Notes : m # n => vault'[m] = vault[m] /\ server'[m] = server[m]
      /\ vault'[n].status = "active" /\ vault'[n].owner = s /\ server'[n] = a
  BY AmountsClosed DEF CliTypeOK, Deposited, NoteOnChain
<1>3. vault[n].status = "none"
  BY <1>1 DEF NotesOnChain
<1>4. NotesOnChain' = NotesOnChain \cup {n}
  BY <1>2, <1>3 DEF NotesOnChain
<1>5. NotesOnChain' = 1..n
  BY <1>1, <1>4
<1>6. NotesAreDense'
  BY <1>5, CommandLineAssumption DEF NotesAreDense, Notes
<1> QED BY <1>1, <1>2, <1>3, <1>4, <1>6

\* A step that keeps a note on chain, its owner and its id, keeps the ids.
LEMMA ChainKept ==
  ASSUME CliTypeOK, NotesAreDense, vault' \in [Notes -> NoteOnChain],
         \A m \in Notes : vault'[m].status = "none" <=> vault[m].status = "none"
  PROVE  NotesOnChain' = NotesOnChain /\ NotesAreDense'
<1>1. NotesOnChain' = NotesOnChain
  BY DEF NotesOnChain
<1> QED BY <1>1 DEF NotesAreDense

-----------------------------------------------------------------------------
(* Steps of the wallet *)

\* What a settled wallet holds.
LEMMA SettledEffect ==
  ASSUME CliInv, wallet.note # 0
  PROVE  /\ wallet \in SomeNote /\ Settled \in SomeNote
         /\ Settled.note = wallet.note /\ Settled.secret = wallet.secret
         /\ Settled.pending = FALSE /\ Settled.balance = server[wallet.note]
<1>1. wallet \in SomeNote
  BY DEF CliInv, CliTypeOK, NoNote
<1>2. server[wallet.note] \in Amounts /\ (~wallet.pending => server[wallet.note] = wallet.balance)
  BY <1>1 DEF CliInv, CliTypeOK, WalletIsKnown, SomeNote
<1> QED BY <1>1, <1>2 DEF Settled, SomeNote

\* A step that touches neither the files, the funding nor the chain.
LEMMA FilesKept ==
  ASSUME CliInv, UNCHANGED <<wallet, retired, archive, client, abandoned, vault, server>>,
         \A tx \in mempool' : tx \in mempool \/ tx.by # Nobody \/ tx.kind # "deposit"
  PROVE  /\ FundedNoteIsOurs' /\ EscrowedSecretIsKept' /\ RetiredStateIsCurrent'
         /\ NotesAreDense' /\ FundingIsFresh' /\ WalletIsKnown'
<1>1. NotesOnChain' = NotesOnChain
  BY DEF NotesOnChain
<1>2. FundedNoteIsOurs' /\ EscrowedSecretIsKept' /\ RetiredStateIsCurrent'
  BY DEF CliInv, FundedNoteIsOurs, EscrowedSecretIsKept, RetiredStateIsCurrent
<1>3. NotesAreDense' /\ WalletIsKnown'
  BY <1>1 DEF CliInv, NotesAreDense, WalletIsKnown
<1>4. FundingIsFresh'
  BY <1>1 DEF CliInv, FundingIsFresh
<1> QED BY <1>2, <1>3, <1>4

\* A step that keeps the note in the wallet and says the truth about its balance.
LEMMA WalletMoves ==
  ASSUME CliInv, wallet.note # 0,
         wallet'.note = wallet.note, wallet'.secret = wallet.secret,
         ~wallet'.pending => wallet'.balance = server[wallet.note],
         wallet'.pending => wallet'.balance >= Cap,
         UNCHANGED <<retired, archive, client, abandoned, vault, server, mempool>>
  PROVE  /\ FundedNoteIsOurs' /\ EscrowedSecretIsKept' /\ RetiredStateIsCurrent'
         /\ NotesAreDense' /\ FundingIsFresh' /\ WalletIsKnown'
<1>1. NotesOnChain' = NotesOnChain
  BY DEF NotesOnChain
<1>2. FundedNoteIsOurs' /\ EscrowedSecretIsKept' /\ RetiredStateIsCurrent'
  BY DEF CliInv, FundedNoteIsOurs, EscrowedSecretIsKept, RetiredStateIsCurrent
<1>3. NotesAreDense' /\ WalletIsKnown'
  BY <1>1 DEF CliInv, NotesAreDense, WalletIsKnown
<1>4. client.pc \in {"down", "serving"}
  BY DEF CliInv, FundingIsFresh, NoNote
<1>5. FundingIsFresh'
  BY <1>1, <1>4 DEF CliInv, FundingIsFresh, SentPcs
<1> QED BY <1>2, <1>3, <1>5

\* A reset puts the secret into the archive.
LEMMA WalletLeaves ==
  ASSUME CliInv, Serving, WalletReset,
         UNCHANGED <<retired, client, abandoned, vault, server, mempool>>
  PROVE  /\ wallet' = NoNote /\ plan' = NoPlan /\ archive' \subseteq Secrets
         /\ FundedNoteIsOurs' /\ EscrowedSecretIsKept' /\ RetiredStateIsCurrent'
         /\ NotesAreDense' /\ FundingIsFresh' /\ WalletIsKnown'
<1> USE DEF WalletReset, Serving
<1>1. NotesOnChain' = NotesOnChain
  BY DEF NotesOnChain
<1>2. archive \subseteq archive' /\ archive' \subseteq Secrets
  BY DEF CliInv, CliTypeOK, SomeNote, NoNote
<1>3. wallet.secret \in archive' \cup {Nobody}
  <2>1. CASE wallet = NoNote
    BY <2>1 DEF NoNote
  <2>2. CASE wallet \in SomeNote
    BY <2>2 DEF SomeNote, Notes
  <2> QED BY <2>1, <2>2 DEF CliInv, CliTypeOK
<1>4. wallet'.note = 0 /\ wallet'.secret = Nobody
  BY DEF NoNote
<1>5. EscrowedSecretIsKept'
  BY <1>2, <1>3 DEF CliInv, EscrowedSecretIsKept
<1>6. FundedNoteIsOurs' /\ RetiredStateIsCurrent' /\ NotesAreDense' /\ WalletIsKnown'
  BY <1>1, <1>4 DEF CliInv, FundedNoteIsOurs, RetiredStateIsCurrent, NotesAreDense, WalletIsKnown
<1>7. FundingIsFresh'
  BY <1>1 DEF CliInv, FundingIsFresh, SentPcs
<1> QED BY <1>2, <1>5, <1>6, <1>7

-----------------------------------------------------------------------------
(* Steps of a command *)

\* What is asked of one command.
CommandOK(c) ==
  /\ cmd[c].pc # "idle" => cmd[c].note \in Notes /\ cmd[c].mode # "none"
  /\ cmd[c].pc = "withdraw" => cmd[c].mode # "finalize" /\ cmd[c].destination \in Destinations
  /\ cmd[c].pc \in {"send", "sent", "wait", "reset"} /\ cmd[c].mode # "finalize" =>
       cmd[c].plan \in Plan /\ validate_withdrawal_plan(c, cmd[c].plan)
  /\ cmd[c].pc \in {"wait", "reset"} /\ cmd[c].mode = "mutual" =>
       LET n == vault[cmd[c].note] IN
       n.status = "closed" /\ n.payee = cmd[c].destination /\ n.amount = cmd[c].plan.balance

\* A step of one command that leaves the vault alone.
LEMMA CommandMoves ==
  ASSUME CliInv, NEW c \in Commands, UNCHANGED vault,
         \A d \in Commands : d # c => cmd'[d] = cmd[d], CommandOK(c)'
  PROVE  CommandsWellFormed'
BY DEF CliInv, CommandsWellFormed, CommandOK, validate_withdrawal_plan

\* An idle command is well formed.
LEMMA IdleCommand ==
  ASSUME CliInv, NEW c \in Commands, cmd' = [cmd EXCEPT ![c] = Idle]
  PROVE  /\ cmd' \in [Commands -> Command] /\ cmd'[c] = Idle
         /\ \A d \in Commands : d # c => cmd'[d] = cmd[d]
         /\ CommandOK(c)'
<1>1. Idle \in Command
  BY CommandLineAssumption DEF Idle, Command
<1>2. /\ cmd' \in [Commands -> Command] /\ cmd'[c] = Idle
      /\ \A d \in Commands : d # c => cmd'[d] = cmd[d]
  BY <1>1 DEF CliInv, CliTypeOK
<1> QED BY <1>2 DEF Idle, CommandOK

\* A command that waits for no transaction may move without touching the mempool.
LEMMA MempoolKept ==
  ASSUME CliInv, NEW c \in Commands, cmd[c].pc # "sent",
         \A d \in Commands : d # c => cmd'[d] = cmd[d],
         UNCHANGED <<mempool, client, abandoned>>
  PROVE  MempoolWellFormed'
<1>1. ASSUME NEW tx \in mempool PROVE TxMeansSomething(tx)' /\ TxIsAwaited(tx)'
  <2>1. TxMeansSomething(tx) /\ TxIsAwaited(tx)
    BY DEF CliInv, MempoolWellFormed
  <2>2. tx.by # c
    BY <2>1 DEF TxIsAwaited
  <2> QED BY <2>1, <2>2 DEF TxMeansSomething, TxIsAwaited
<1> QED BY <1>1 DEF CliInv, MempoolWellFormed

\* The settle call of a withdrawal.
LEMMA ManagedWithdrawalInv ==
  ASSUME CliInv, NEW c \in Commands, NEW mode \in {"mutual", "escape"}, NEW d \in Destinations,
         run_managed_withdrawal(c, mode, d)
  PROVE  CliInv'
<1> USE DEF run_managed_withdrawal, At, Serving, chainVars, fundVars
<1>1. /\ wallet \in SomeNote /\ wallet' \in SomeNote /\ wallet'.pending = FALSE
      /\ wallet'.note = wallet.note /\ wallet'.secret = wallet.secret
      /\ wallet'.balance = server[wallet.note]
  BY SettledEffect
<1>2. /\ FundedNoteIsOurs' /\ EscrowedSecretIsKept' /\ RetiredStateIsCurrent'
      /\ NotesAreDense' /\ FundingIsFresh' /\ WalletIsKnown'
  BY <1>1, WalletMoves
<1> DEFINE new == [Idle EXCEPT !.pc = "withdraw", !.mode = mode, !.destination = d,
                               !.note = wallet.note]
<1>3. wallet.note \in Notes /\ wallet.note \in 0..MaxNotes /\ 0 \in 0..MaxNotes
  BY <1>1, CommandLineAssumption DEF SomeNote, Notes
<1>4. /\ new \in Command /\ new.pc = "withdraw" /\ new.mode = mode
      /\ new.destination = d /\ new.note = wallet.note
  BY <1>3 DEF Idle, Command
<1>5. /\ cmd' \in [Commands -> Command]
      /\ cmd'[c].pc = "withdraw" /\ cmd'[c].mode = mode
      /\ cmd'[c].destination = d /\ cmd'[c].note = wallet.note
      /\ \A e \in Commands : e # c => cmd'[e] = cmd[e]
  BY <1>4 DEF CliInv, CliTypeOK
<1>6. CommandsWellFormed'
  BY <1>3, <1>5, CommandMoves DEF CommandOK
<1>7. MempoolWellFormed'
  BY <1>5, MempoolKept
<1>8. CliTypeOK'
  BY <1>1, <1>5 DEF CliInv, CliTypeOK
<1> QED BY <1>2, <1>6, <1>7, <1>8 DEF CliInv

\* A finalization reads the note's status and the wallet's note.
LEMMA FinalizeEscapeInv ==
  ASSUME CliInv, NEW c \in Commands, NEW n \in Notes, finalize_escape_withdrawal(c, n)
  PROVE  CliInv'
<1> USE DEF finalize_escape_withdrawal, At, Serving, chainVars, fundVars
<1> DEFINE pc == IF vault[n].status = "closed" THEN "wait" ELSE "send"
           new == [Idle EXCEPT !.pc = pc, !.mode = "finalize", !.note = n, !.local = wallet.note]
<1>1. wallet.note \in 0..MaxNotes /\ n \in 0..MaxNotes
  BY CommandLineAssumption DEF Notes
<1>2. /\ new \in Command /\ new.pc \in {"wait", "send"} /\ new.mode = "finalize"
      /\ new.note = n
  BY <1>1 DEF Idle, Command
<1>3. /\ cmd' \in [Commands -> Command]
      /\ cmd'[c].pc \in {"wait", "send"} /\ cmd'[c].mode = "finalize" /\ cmd'[c].note = n
      /\ \A e \in Commands : e # c => cmd'[e] = cmd[e]
  BY <1>2 DEF CliInv, CliTypeOK
<1>4. CommandsWellFormed'
  BY <1>3, CommandMoves DEF CommandOK
<1>5. MempoolWellFormed'
  BY <1>3, MempoolKept
<1>6. CliTypeOK'
  BY <1>3 DEF CliInv, CliTypeOK
<1> QED BY <1>4, <1>5, <1>6, FilesKept DEF CliInv

\* The plan the daemon answers with is a plan, and validate_withdrawal_plan lets only the
\* plan of the settled note through.
LEMMA PrepareInv ==
  ASSUME CliInv, NEW c \in Commands, PrepareWithdrawal(c)
  PROVE  CliInv'
<1> USE DEF PrepareWithdrawal, At, Serving, chainVars, fundVars
<1>1. /\ cmd[c] \in Command /\ cmd[c].mode \in {"mutual", "escape"}
      /\ cmd[c].destination \in Destinations /\ cmd[c].note \in Notes
  BY DEF CliInv, CliTypeOK, CommandsWellFormed, Command
<1>2. PICK p \in PlanFor(cmd[c].mode, cmd[c].destination) :
        /\ plan' = p
        /\ cmd' = [cmd EXCEPT ![c] = IF validate_withdrawal_plan(c, p)
                                       THEN [cmd[c] EXCEPT !.pc = "send", !.plan = p] ELSE Idle]
  BY DEF CliInv, CliTypeOK
<1>3. p \in Plan
  <2>1. CASE plan.mode = cmd[c].mode /\ plan.destination = cmd[c].destination
    BY <1>1, <1>2, <2>1 DEF PlanFor, CliInv, CliTypeOK, NoPlan
  <2>2. CASE ~(plan.mode = cmd[c].mode /\ plan.destination = cmd[c].destination)
    <3>1. /\ wallet.note # 0
          /\ p = [mode |-> cmd[c].mode, destination |-> cmd[c].destination, note |-> wallet.note,
                  secret |-> wallet.secret, balance |-> wallet.balance]
      BY <1>2, <2>2 DEF PlanFor
    <3>2. wallet \in SomeNote
      BY <3>1, SettledEffect
    <3> QED BY <1>1, <3>1, <3>2 DEF SomeNote, Plan
  <2> QED BY <2>1, <2>2
<1>4. CASE validate_withdrawal_plan(c, p)
  <2> DEFINE new == [cmd[c] EXCEPT !.pc = "send", !.plan = p]
  <2>1. /\ new \in Command /\ new.pc = "send" /\ new.mode = cmd[c].mode /\ new.plan = p
        /\ new.note = cmd[c].note /\ new.destination = cmd[c].destination
    BY <1>1, <1>3 DEF Command
  <2>2. /\ cmd' \in [Commands -> Command] /\ cmd'[c] = new
        /\ \A e \in Commands : e # c => cmd'[e] = cmd[e]
    BY <1>2, <1>4, <2>1 DEF CliInv, CliTypeOK
  <2> HIDE DEF new
  <2>3. CommandsWellFormed'
    BY <1>1, <1>3, <1>4, <2>1, <2>2, CommandMoves DEF CommandOK, validate_withdrawal_plan
  <2>4. MempoolWellFormed'
    BY <2>2, MempoolKept
  <2>5. CliTypeOK'
    BY <1>2, <1>3, <2>2 DEF CliInv, CliTypeOK
  <2> QED BY <2>3, <2>4, <2>5, FilesKept DEF CliInv
<1>5. CASE ~validate_withdrawal_plan(c, p)
  <2>1. cmd' = [cmd EXCEPT ![c] = Idle]
    BY <1>2, <1>5
  <2>2. CommandsWellFormed'
    BY <2>1, IdleCommand, CommandMoves
  <2>3. MempoolWellFormed'
    BY <2>1, IdleCommand, MempoolKept
  <2>4. CliTypeOK'
    BY <1>2, <1>3, <2>1, IdleCommand DEF CliInv, CliTypeOK
  <2> QED BY <2>2, <2>3, <2>4, FilesKept DEF CliInv
<1> QED BY <1>4, <1>5

\* Goto moves one command and keeps everything else about it.
LEMMA GotoEffect ==
  ASSUME CliInv, NEW c \in Commands, NEW pc \in {"sent", "wait", "reset"}, Goto(c, pc)
  PROVE  /\ cmd' \in [Commands -> Command]
         /\ \A e \in Commands : e # c => cmd'[e] = cmd[e]
         /\ cmd'[c].pc = pc /\ cmd'[c].mode = cmd[c].mode /\ cmd'[c].note = cmd[c].note
         /\ cmd'[c].destination = cmd[c].destination /\ cmd'[c].plan = cmd[c].plan
BY DEF CliInv, CliTypeOK, Goto, Command

\* A command that waits for no transaction sends one that carries what it holds.
LEMMA SendKeepsMempool ==
  ASSUME CliInv, NEW c \in Commands, cmd[c].pc = "send", Goto(c, "sent"),
         NEW tx \in Tx, mempool' = mempool \cup {tx}, UNCHANGED <<client, abandoned>>,
         tx.by = c, tx.kind # "deposit", tx.note \in Notes,
         tx.kind \in {"mutual", "escape"} => tx.destination \in Destinations,
         tx.kind = cmd[c].mode, tx.note = cmd[c].note,
         IF cmd[c].mode = "finalize"
           THEN tx.secret = Nobody /\ tx.amount = 0 /\ tx.destination = Nobody
           ELSE /\ tx.secret = cmd[c].plan.secret /\ tx.amount = cmd[c].plan.balance
                /\ tx.destination = cmd[c].plan.destination
  PROVE  MempoolWellFormed'
<1>1. /\ \A e \in Commands : e # c => cmd'[e] = cmd[e]
      /\ cmd'[c].pc = "sent" /\ cmd'[c].mode = cmd[c].mode /\ cmd'[c].note = cmd[c].note
      /\ cmd'[c].plan = cmd[c].plan
  BY GotoEffect
<1>2. c # "client" /\ c # Nobody
  BY CommandLineAssumption
<1>3. ASSUME NEW t \in mempool PROVE TxMeansSomething(t)' /\ TxIsAwaited(t)'
  <2>1. TxMeansSomething(t) /\ TxIsAwaited(t)
    BY DEF CliInv, MempoolWellFormed
  <2>2. t.by # c
    BY <2>1 DEF TxIsAwaited
  <2> QED BY <1>1, <2>1, <2>2 DEF TxMeansSomething, TxIsAwaited
<1>4. TxMeansSomething(tx)' /\ TxIsAwaited(tx)'
  BY <1>1, <1>2 DEF TxMeansSomething, TxIsAwaited
<1> QED BY <1>3, <1>4 DEF CliInv, MempoolWellFormed

\* The transaction of a withdrawal is that of the plan that was checked.
LEMMA ContractCallInv ==
  ASSUME CliInv, NEW c \in Commands, run_withdrawal_contract_call(c)
  PROVE  CliInv'
<1> USE DEF run_withdrawal_contract_call, At, fundVars
<1> DEFINE tx == WithdrawTx(cmd[c].plan, c)
<1>1. /\ cmd[c].note \in Notes /\ cmd[c].plan \in Plan
      /\ cmd[c].plan.mode = cmd[c].mode /\ cmd[c].plan.note = cmd[c].note
      /\ cmd[c].plan.destination = cmd[c].destination
  BY DEF CliInv, CommandsWellFormed, validate_withdrawal_plan
<1>2. /\ tx \in Tx /\ tx.by = c /\ tx.kind = cmd[c].mode /\ tx.note = cmd[c].note
      /\ tx.secret = cmd[c].plan.secret /\ tx.amount = cmd[c].plan.balance
      /\ tx.destination = cmd[c].plan.destination /\ tx.destination \in Destinations
  BY <1>1, CommandLineAssumption DEF WithdrawTx, Tx, Plan, Notes
<1> HIDE DEF tx
<1>3. mempool' = mempool \cup {tx}
  BY DEF tx
<1>4. MempoolWellFormed'
  BY <1>1, <1>2, <1>3, SendKeepsMempool
<1>5. /\ cmd' \in [Commands -> Command]
      /\ \A e \in Commands : e # c => cmd'[e] = cmd[e]
      /\ cmd'[c].pc = "sent" /\ cmd'[c].mode = cmd[c].mode /\ cmd'[c].note = cmd[c].note
      /\ cmd'[c].destination = cmd[c].destination /\ cmd'[c].plan = cmd[c].plan
  BY GotoEffect
<1>6. CommandsWellFormed'
  BY <1>1, <1>5, CommandMoves DEF CommandOK, validate_withdrawal_plan
<1>7. /\ FundedNoteIsOurs' /\ EscrowedSecretIsKept' /\ RetiredStateIsCurrent'
      /\ NotesAreDense' /\ FundingIsFresh' /\ WalletIsKnown'
  BY <1>2, <1>3, FilesKept
<1>8. CliTypeOK'
  BY <1>5 DEF CliInv, CliTypeOK
<1> QED BY <1>4, <1>6, <1>7, <1>8 DEF CliInv

\* The transaction of a finalization names its note.
LEMMA FinalizeCallInv ==
  ASSUME CliInv, NEW c \in Commands, run_finalize_escape_call(c)
  PROVE  CliInv'
<1> USE DEF run_finalize_escape_call, At, fundVars
<1> DEFINE tx == FinalizeTx(cmd[c].note, c)
<1>1. cmd[c].note \in Notes
  BY DEF CliInv, CommandsWellFormed
<1>2. /\ tx \in Tx /\ tx.by = c /\ tx.kind = cmd[c].mode /\ tx.note = cmd[c].note
      /\ tx.secret = Nobody /\ tx.amount = 0 /\ tx.destination = Nobody
  BY <1>1, CommandLineAssumption, AmountsClosed DEF FinalizeTx, Tx, Notes
<1> HIDE DEF tx
<1>3. mempool' = mempool \cup {tx}
  BY DEF tx
<1>4. MempoolWellFormed'
  BY <1>1, <1>2, <1>3, SendKeepsMempool
<1>5. /\ cmd' \in [Commands -> Command]
      /\ \A e \in Commands : e # c => cmd'[e] = cmd[e]
      /\ cmd'[c].pc = "sent" /\ cmd'[c].mode = cmd[c].mode /\ cmd'[c].note = cmd[c].note
  BY GotoEffect
<1>6. CommandsWellFormed'
  BY <1>1, <1>5, CommandMoves DEF CommandOK
<1>7. /\ FundedNoteIsOurs' /\ EscrowedSecretIsKept' /\ RetiredStateIsCurrent'
      /\ NotesAreDense' /\ FundingIsFresh' /\ WalletIsKnown'
  BY <1>2, <1>3, FilesKept
<1>8. CliTypeOK'
  BY <1>5 DEF CliInv, CliTypeOK
<1> QED BY <1>4, <1>6, <1>7, <1>8 DEF CliInv

\* A command that has seen its note's status goes on to the reset or ends.
LEMMA WaitForStatusInv ==
  ASSUME CliInv, NEW c \in Commands, wait_for_note_status(c)
  PROVE  CliInv'
<1> USE DEF wait_for_note_status, At, chainVars, fundVars
<1>1. \/ Goto(c, "reset")
      \/ cmd' = [cmd EXCEPT ![c] = Idle]
  BY DEF Goto, CliInv, CliTypeOK
<1>2. CASE Goto(c, "reset")
  <2>1. /\ cmd' \in [Commands -> Command]
        /\ \A e \in Commands : e # c => cmd'[e] = cmd[e]
        /\ cmd'[c].pc = "reset" /\ cmd'[c].mode = cmd[c].mode /\ cmd'[c].note = cmd[c].note
        /\ cmd'[c].destination = cmd[c].destination /\ cmd'[c].plan = cmd[c].plan
    BY <1>2, GotoEffect
  <2>2. CommandOK(c)
    BY DEF CliInv, CommandsWellFormed, CommandOK
  <2>3. CommandsWellFormed'
    BY <2>1, <2>2, CommandMoves DEF CommandOK, validate_withdrawal_plan
  <2>4. MempoolWellFormed'
    BY <2>1, MempoolKept
  <2>5. CliTypeOK'
    BY <2>1 DEF CliInv, CliTypeOK
  <2> QED BY <2>3, <2>4, <2>5, FilesKept DEF CliInv
<1>3. CASE cmd' = [cmd EXCEPT ![c] = Idle]
  <2>1. CommandsWellFormed'
    BY <1>3, IdleCommand, CommandMoves
  <2>2. MempoolWellFormed'
    BY <1>3, IdleCommand, MempoolKept
  <2>3. CliTypeOK'
    BY <1>3, IdleCommand DEF CliInv, CliTypeOK
  <2> QED BY <2>1, <2>2, <2>3, FilesKept DEF CliInv
<1> QED BY <1>1, <1>2, <1>3

\* The reset of a command archives whatever is in the wallet.
LEMMA ResetWalletInv ==
  ASSUME CliInv, NEW c \in Commands, ResetWallet(c)
  PROVE  CliInv'
<1> USE DEF ResetWallet, At, chainVars, fundVars
<1>1. /\ wallet' = NoNote /\ plan' = NoPlan /\ archive' \subseteq Secrets
      /\ FundedNoteIsOurs' /\ EscrowedSecretIsKept' /\ RetiredStateIsCurrent'
      /\ NotesAreDense' /\ FundingIsFresh' /\ WalletIsKnown'
  BY WalletLeaves
<1>2. CommandsWellFormed'
  BY IdleCommand, CommandMoves
<1>3. MempoolWellFormed'
  BY IdleCommand, MempoolKept
<1>4. CliTypeOK'
  BY <1>1, IdleCommand DEF CliInv, CliTypeOK
<1> QED BY <1>1, <1>2, <1>3, <1>4 DEF CliInv

\* Orphan changes who waits for a transaction and nothing else about it.
LEMMA OrphanEffect ==
  ASSUME CliInv, NEW by, NEW t \in Orphan(by)
  PROVE  \E tx \in mempool :
           \/ t = tx /\ tx.by # by
           \/ /\ tx.by = by /\ t.by = Nobody /\ t.kind = tx.kind /\ t.note = tx.note
              /\ t.secret = tx.secret /\ t.amount = tx.amount
              /\ t.destination = tx.destination /\ t \in Tx
<1>1. PICK tx \in mempool : t = IF tx.by = by THEN [tx EXCEPT !.by = Nobody] ELSE tx
  BY DEF Orphan
<1>2. tx \in Tx
  BY DEF CliInv, MempoolWellFormed
<1> QED BY <1>1, <1>2 DEF Tx

\* A command may end anywhere; its transaction stays.
LEMMA CommandEndsInv ==
  ASSUME CliInv, NEW c \in Commands, CommandEnds(c)
  PROVE  CliInv'
<1> USE DEF CommandEnds, At, fundVars
<1>1. /\ cmd' \in [Commands -> Command] /\ cmd'[c] = Idle
      /\ \A d \in Commands : d # c => cmd'[d] = cmd[d]
      /\ CommandsWellFormed'
  BY IdleCommand, CommandMoves
<1>2. c # "client" /\ c # Nobody /\ Nobody \notin Commands /\ Nobody # "client"
  BY CommandLineAssumption
<1>3. ASSUME NEW t \in mempool'
      PROVE  /\ t \in Tx /\ TxMeansSomething(t)' /\ TxIsAwaited(t)'
             /\ t \in mempool \/ t.kind # "deposit"
  <2>1. PICK tx \in mempool :
           \/ t = tx /\ tx.by # c
           \/ /\ tx.by = c /\ t.by = Nobody /\ t.kind = tx.kind /\ t.note = tx.note
              /\ t.secret = tx.secret /\ t.amount = tx.amount
              /\ t.destination = tx.destination /\ t \in Tx
    BY OrphanEffect
  <2>2. tx \in Tx /\ TxMeansSomething(tx) /\ TxIsAwaited(tx)
    BY DEF CliInv, MempoolWellFormed
  <2>3. CASE t = tx /\ tx.by # c
    BY <1>1, <2>2, <2>3 DEF TxMeansSomething, TxIsAwaited
  <2>4. CASE tx.by = c /\ t.by = Nobody
    <3>1. tx.kind # "deposit"
      BY <1>2, <2>2, <2>4 DEF TxMeansSomething
    <3> QED BY <1>2, <2>1, <2>2, <2>4, <3>1 DEF TxMeansSomething, TxIsAwaited
  <2> QED BY <2>1, <2>3, <2>4
<1>4. MempoolWellFormed'
  BY <1>3 DEF MempoolWellFormed
<1>5. /\ FundedNoteIsOurs' /\ EscrowedSecretIsKept' /\ RetiredStateIsCurrent'
      /\ NotesAreDense' /\ FundingIsFresh' /\ WalletIsKnown'
  BY <1>3, FilesKept
<1>6. CliTypeOK'
  BY <1>1 DEF CliInv, CliTypeOK
<1> QED BY <1>1, <1>4, <1>5, <1>6 DEF CliInv

-----------------------------------------------------------------------------
(* Steps of the client *)

\* When neither the commands nor the vault change, nor what a command waits for.
LEMMA CommandsKept ==
  ASSUME CliInv, UNCHANGED <<cmd, vault>>
  PROVE  CommandsWellFormed'
BY DEF CliInv, CommandsWellFormed, validate_withdrawal_plan

\* A funding process that waits for no transaction may move without touching the mempool.
LEMMA MempoolKeptByClient ==
  ASSUME CliInv, client.pc # "deposit_sent", UNCHANGED <<mempool, cmd, abandoned>>
  PROVE  MempoolWellFormed'
<1>1. ASSUME NEW tx \in mempool PROVE TxMeansSomething(tx)' /\ TxIsAwaited(tx)'
  <2>1. TxMeansSomething(tx) /\ TxIsAwaited(tx)
    BY DEF CliInv, MempoolWellFormed
  <2>2. tx.by # "client"
    BY <2>1 DEF TxIsAwaited
  <2> QED BY <2>1, <2>2 DEF TxMeansSomething, TxIsAwaited
<1> QED BY <1>1 DEF CliInv, MempoolWellFormed

\* A funding that begins, or is refused, holds no secret yet.
LEMMA FundingBeginsEffect ==
  ASSUME CliInv, NEW a \in Credits, NEW address, FundingBegins(a, address)
  PROVE  /\ client' \in Funding /\ client'.pc \in {"down", "prepare"}
         /\ client'.secret = Nobody
<1>1. a \in Amounts /\ 0 \in Amounts /\ 0 \in 0..MaxNotes + 1
  BY AmountsClosed, CommandLineAssumption
<1>2. \/ client' = NoFunding
      \/ client' = [NoFunding EXCEPT !.pc = "prepare", !.amount = a]
  BY DEF FundingBegins
<1>3. NoFunding \in Funding /\ NoFunding.pc = "down" /\ NoFunding.secret = Nobody
  BY <1>1 DEF NoFunding, Funding
<1>4. [NoFunding EXCEPT !.pc = "prepare", !.amount = a] \in Funding
  BY <1>1, <1>3 DEF Funding
<1>5. /\ [NoFunding EXCEPT !.pc = "prepare", !.amount = a].pc = "prepare"
      /\ [NoFunding EXCEPT !.pc = "prepare", !.amount = a].secret = Nobody
  BY DEF NoFunding
<1> QED BY <1>2, <1>3, <1>4, <1>5

\* The client serves, funds or rotates: a note that is retired has no unanswered request.
LEMMA ClientStartsInv ==
  ASSUME CliInv, NEW m \in Manifests, NEW a \in Credits, NEW address, NEW noFund \in BOOLEAN,
         run_one_command_client(m, a, address, noFund)
  PROVE  CliInv'
<1> USE DEF run_one_command_client, chainVars
<1>1. client.pc = "down" /\ client.secret = Nobody
  BY DEF CliInv, FundingIsFresh
<1>2. MempoolWellFormed' /\ CommandsWellFormed'
  BY <1>1, MempoolKeptByClient, CommandsKept
<1>3. NotesOnChain' = NotesOnChain /\ NotesAreDense'
  BY DEF NotesOnChain, CliInv, NotesAreDense
<1>4. CASE UNCHANGED <<wallet, retired>> /\ client' = [NoFunding EXCEPT !.pc = "serving"]
  <2>1. client' \in Funding /\ client'.pc = "serving" /\ client'.secret = Nobody
    BY <1>4, AmountsClosed, CommandLineAssumption DEF NoFunding, Funding
  <2>2. CliTypeOK'
    BY <1>4, <2>1 DEF CliInv, CliTypeOK
  <2>3. FundedNoteIsOurs' /\ EscrowedSecretIsKept' /\ RetiredStateIsCurrent' /\ WalletIsKnown'
    BY <1>1, <1>3, <1>4, <2>1
    DEF CliInv, FundedNoteIsOurs, EscrowedSecretIsKept, RetiredStateIsCurrent, WalletIsKnown
  <2>4. FundingIsFresh'
    BY <2>1 DEF FundingIsFresh, SentPcs
  <2> QED BY <1>2, <1>3, <2>2, <2>3, <2>4 DEF CliInv
<1>5. CASE UNCHANGED <<wallet, retired>> /\ wallet.note = 0 /\ FundingBegins(a, address)
  <2>1. /\ client' \in Funding /\ client'.pc \in {"down", "prepare"}
        /\ client'.secret = Nobody
    BY <1>5, FundingBeginsEffect
  <2>2. CliTypeOK'
    BY <1>5, <2>1 DEF CliInv, CliTypeOK
  <2>3. FundedNoteIsOurs' /\ EscrowedSecretIsKept' /\ RetiredStateIsCurrent' /\ WalletIsKnown'
    BY <1>1, <1>3, <1>5, <2>1
    DEF CliInv, FundedNoteIsOurs, EscrowedSecretIsKept, RetiredStateIsCurrent, WalletIsKnown
  <2>4. wallet = NoNote
    BY <1>5 DEF CliInv, CliTypeOK, SomeNote, Notes
  <2>5. FundingIsFresh'
    BY <1>5, <2>1, <2>4 DEF FundingIsFresh, SentPcs
  <2> QED BY <1>2, <1>3, <2>2, <2>3, <2>5 DEF CliInv
<1>6. CASE Retirable /\ retire_low_balance_note /\ FundingBegins(a, address)
  <2>1. /\ client' \in Funding /\ client'.pc \in {"down", "prepare"}
        /\ client'.secret = Nobody
    BY <1>6, FundingBeginsEffect
  <2>2. /\ wallet.note # 0 /\ ~wallet.pending /\ wallet' = NoNote
        /\ retired' = retired \cup {wallet}
    BY <1>6 DEF Retirable, retire_low_balance_note
  <2>3. wallet \in SomeNote /\ wallet'.note = 0
    BY <2>2, SettledEffect DEF NoNote
  <2>4. CliTypeOK'
    BY <2>1, <2>2, <2>3 DEF CliInv, CliTypeOK
  <2>5. RetiredStateIsCurrent' /\ FundedNoteIsOurs' /\ WalletIsKnown'
    BY <1>3, <2>2, <2>3
    DEF CliInv, FundedNoteIsOurs, RetiredStateIsCurrent, WalletIsKnown
  <2>6. EscrowedSecretIsKept'
    BY <1>1, <2>1, <2>2 DEF CliInv, EscrowedSecretIsKept
  <2>7. FundingIsFresh'
    BY <2>1, <2>2 DEF FundingIsFresh, SentPcs
  <2> QED BY <1>2, <1>3, <2>4, <2>5, <2>6, <2>7 DEF CliInv
<1> QED BY <1>4, <1>5, <1>6

\* The secret of a funding is a fresh one.
LEMMA PrepareDepositInv ==
  ASSUME CliInv, NEW s \in Secrets, prepare_deposit(s)
  PROVE  CliInv'
<1> USE DEF prepare_deposit, chainVars
<1>1. /\ client.secret = Nobody /\ wallet = NoNote
      /\ MempoolWellFormed' /\ CommandsWellFormed'
  BY MempoolKeptByClient, CommandsKept DEF CliInv, FundingIsFresh
<1>2. NotesOnChain' = NotesOnChain /\ NotesAreDense'
  BY DEF NotesOnChain, CliInv, NotesAreDense
<1>3. /\ client' \in Funding /\ client'.pc = "deposit" /\ client'.secret = s
      /\ client'.note # 0
  <2>1. indexed + 1 \in 0..MaxNotes + 1 /\ indexed + 1 # 0 /\ client \in Funding
    BY CommandLineAssumption DEF CliInv, CliTypeOK
  <2> QED BY <2>1 DEF Funding
<1>4. /\ \A r \in retired : r.secret # s
      /\ \A n \in Notes : vault[n].owner # s
      /\ \A tx \in mempool : tx.secret # s
  BY DEF UsedSecrets
<1>5. CliTypeOK'
  BY <1>3 DEF CliInv, CliTypeOK
<1>6. FundedNoteIsOurs' /\ EscrowedSecretIsKept' /\ RetiredStateIsCurrent' /\ WalletIsKnown'
  BY <1>1, <1>2, <1>3
  DEF CliInv, FundedNoteIsOurs, EscrowedSecretIsKept, RetiredStateIsCurrent, WalletIsKnown
<1>7. FundingIsFresh'
  BY <1>1, <1>3, <1>4 DEF CliInv, CliTypeOK, FundingIsFresh, SentPcs
<1> QED BY <1>1, <1>2, <1>5, <1>6, <1>7 DEF CliInv

\* The deposit that is sent carries the secret the process holds.
LEMMA SendDepositInv ==
  ASSUME CliInv, SendDeposit
  PROVE  CliInv'
<1> USE DEF SendDeposit
<1>0. PICK tx : tx = DepositTx(client.secret, client.note, client.amount, "client")
  OBVIOUS
<1>1. client \in Funding /\ client.secret \in Secrets /\ client.note # 0 /\ wallet = NoNote
  BY DEF CliInv, CliTypeOK, FundingIsFresh
<1>2. /\ client' \in Funding /\ client'.pc = "deposit_sent" /\ client'.secret = client.secret
      /\ client'.note = client.note /\ client'.amount = client.amount
  BY <1>1 DEF Funding, SentPcs
<1>3. /\ tx \in Tx /\ tx.by = "client" /\ tx.kind = "deposit" /\ tx.secret = client.secret
      /\ tx.note = client.note /\ tx.amount = client.amount /\ tx.destination = Nobody
  <2>1. client.note \in 0..MaxNotes + 1 /\ client.amount \in Amounts
    BY <1>1 DEF Funding
  <2>2. client.note \in 1..MaxNotes + 1
    BY <1>1, <2>1, CommandLineAssumption
  <2>3. tx = [kind |-> "deposit", note |-> client.note, secret |-> client.secret,
              amount |-> client.amount, destination |-> Nobody, by |-> "client"]
    BY <1>0 DEF DepositTx
  <2>4. tx \in Tx
    BY <1>1, <2>1, <2>2, <2>3 DEF Tx
  <2> QED BY <2>3, <2>4
<1>4. mempool' = mempool \cup {tx}
  BY <1>0
<1>5. "client" \notin Commands /\ "client" # Nobody
  BY CommandLineAssumption
<1>6. MempoolWellFormed'
  <2>1. ASSUME NEW t \in mempool PROVE TxMeansSomething(t)' /\ TxIsAwaited(t)'
    <3>1. TxMeansSomething(t) /\ TxIsAwaited(t)
      BY DEF CliInv, MempoolWellFormed
    <3>2. t.by # "client"
      BY <3>1 DEF TxIsAwaited
    <3> QED BY <3>1, <3>2 DEF TxMeansSomething, TxIsAwaited
  <2>2. TxMeansSomething(tx)' /\ TxIsAwaited(tx)'
    BY <1>1, <1>2, <1>3, <1>5 DEF TxMeansSomething, TxIsAwaited
  <2> QED BY <1>3, <1>4, <2>1, <2>2 DEF CliInv, MempoolWellFormed
<1>7. NotesOnChain' = NotesOnChain /\ NotesAreDense' /\ CommandsWellFormed'
  BY CommandsKept DEF NotesOnChain, CliInv, NotesAreDense
<1>8. FundedNoteIsOurs' /\ EscrowedSecretIsKept' /\ RetiredStateIsCurrent' /\ WalletIsKnown'
  BY <1>2, <1>7
  DEF CliInv, FundedNoteIsOurs, EscrowedSecretIsKept, RetiredStateIsCurrent, WalletIsKnown
<1>9. FundingIsFresh'
  BY <1>1, <1>2, <1>3, <1>4, <1>5 DEF CliInv, FundingIsFresh, SentPcs
<1>10. CliTypeOK'
  BY <1>2 DEF CliInv, CliTypeOK
<1> QED BY <1>6, <1>7, <1>8, <1>9, <1>10 DEF CliInv

\* The note that is confirmed is the one that was deposited.
LEMMA ConfirmFundingInv ==
  ASSUME CliInv, ConfirmFunding
  PROVE  CliInv'
<1> USE DEF ConfirmFunding, wait_for_indexed_note, chainVars
<1>1. /\ client \in Funding /\ client.secret \in Secrets
      /\ client.note \in NotesOnChain /\ client.note \in Notes
      /\ vault[client.note].owner = client.secret
      /\ server[client.note] = client.amount /\ \A r \in retired : r.secret # client.secret
  BY DEF CliInv, CliTypeOK, FundingIsFresh, SentPcs, NotesOnChain
<1>2. /\ wallet' \in SomeNote /\ wallet'.note = client.note /\ wallet'.secret = client.secret
      /\ wallet'.balance = client.amount /\ wallet'.pending = FALSE
  BY <1>1 DEF SomeNote, Funding
<1>3. client' \in Funding /\ client'.pc = "serving" /\ client'.secret = Nobody
  <2>1. 0 \in Amounts /\ 0 \in 0..MaxNotes + 1
    BY AmountsClosed, CommandLineAssumption
  <2> QED BY <2>1 DEF NoFunding, Funding
<1>4. wallet.secret = Nobody
  BY DEF CliInv, FundingIsFresh, NoNote
<1>5. MempoolWellFormed' /\ CommandsWellFormed'
  BY MempoolKeptByClient, CommandsKept
<1>6. NotesOnChain' = NotesOnChain /\ NotesAreDense'
  BY DEF NotesOnChain, CliInv, NotesAreDense
<1>7. FundedNoteIsOurs' /\ RetiredStateIsCurrent' /\ WalletIsKnown'
  BY <1>1, <1>2, <1>6 DEF CliInv, FundedNoteIsOurs, RetiredStateIsCurrent, WalletIsKnown
<1>8. EscrowedSecretIsKept'
  BY <1>2, <1>4 DEF CliInv, EscrowedSecretIsKept
<1>9. FundingIsFresh'
  BY <1>3 DEF FundingIsFresh, SentPcs
<1>10. CliTypeOK'
  BY <1>2, <1>3 DEF CliInv, CliTypeOK
<1> QED BY <1>5, <1>6, <1>7, <1>8, <1>9, <1>10 DEF CliInv

\* The client may end anywhere; a secret is abandoned only after its deposit was sent.
LEMMA ClientEndsInv ==
  ASSUME CliInv, ClientEnds
  PROVE  CliInv'
<1> USE DEF ClientEnds
<1>1. client' \in Funding /\ client'.pc = "down" /\ client'.secret = Nobody
  BY AmountsClosed, CommandLineAssumption DEF NoFunding, Funding
<1>2. /\ abandoned \subseteq abandoned' /\ abandoned' \subseteq Secrets
      /\ client.pc \in SentPcs => client.secret \in abandoned'
  BY DEF CliInv, CliTypeOK, FundingIsFresh
<1>3. "client" \notin Commands /\ "client" # Nobody /\ Nobody \notin Commands
  BY CommandLineAssumption
<1>4. ASSUME NEW t \in mempool'
      PROVE  t \in Tx /\ TxMeansSomething(t)' /\ TxIsAwaited(t)'
  <2>1. PICK tx \in mempool :
           \/ t = tx /\ tx.by # "client"
           \/ /\ tx.by = "client" /\ t.by = Nobody /\ t.kind = tx.kind /\ t.note = tx.note
              /\ t.secret = tx.secret /\ t.amount = tx.amount
              /\ t.destination = tx.destination /\ t \in Tx
    BY OrphanEffect
  <2>2. tx \in Tx /\ TxMeansSomething(tx) /\ TxIsAwaited(tx)
    BY DEF CliInv, MempoolWellFormed
  <2>3. CASE t = tx /\ tx.by # "client"
    BY <1>2, <2>2, <2>3 DEF TxMeansSomething, TxIsAwaited
  <2>4. CASE tx.by = "client" /\ t.by = Nobody
    <3>1. tx.kind = "deposit" /\ tx.secret \in abandoned' /\ tx.secret \in Secrets
      BY <1>2, <2>2, <2>4 DEF TxMeansSomething, TxIsAwaited, SentPcs
    <3> QED BY <1>3, <2>1, <2>4, <3>1 DEF TxMeansSomething, TxIsAwaited
  <2> QED BY <2>1, <2>3, <2>4
<1>5. MempoolWellFormed' /\ CommandsWellFormed'
  BY <1>4, CommandsKept DEF MempoolWellFormed
<1>6. NotesOnChain' = NotesOnChain /\ NotesAreDense'
  BY DEF NotesOnChain, CliInv, NotesAreDense
<1>7. FundedNoteIsOurs' /\ RetiredStateIsCurrent' /\ WalletIsKnown'
  BY <1>6 DEF CliInv, FundedNoteIsOurs, RetiredStateIsCurrent, WalletIsKnown
<1>8. EscrowedSecretIsKept'
  <2>1. CASE client.pc \in SentPcs
    BY <1>2, <2>1 DEF CliInv, EscrowedSecretIsKept
  <2>2. CASE client.pc \notin SentPcs
    <3>1. \A n \in Notes : vault[n].owner = Nobody \/ vault[n].owner # client.secret
      BY <2>2 DEF CliInv, CliTypeOK, Funding, FundingIsFresh
    <3> QED BY <1>2, <3>1 DEF CliInv, EscrowedSecretIsKept
  <2> QED BY <2>1, <2>2
<1>9. FundingIsFresh'
  BY <1>1 DEF FundingIsFresh, SentPcs
<1>10. CliTypeOK'
  BY <1>1, <1>2, CommandLineAssumption DEF CliInv, CliTypeOK
<1> QED BY <1>5, <1>6, <1>7, <1>8, <1>9, <1>10 DEF CliInv

-----------------------------------------------------------------------------
(* Steps of the daemon *)

\* A step that leaves commands, funding and transactions alone.
LEMMA OthersKept ==
  ASSUME CliInv, UNCHANGED <<client, cmd, mempool, abandoned>>
  PROVE  MempoolWellFormed'
<1>1. ASSUME NEW tx \in mempool PROVE TxMeansSomething(tx)' /\ TxIsAwaited(tx)'
  BY DEF CliInv, MempoolWellFormed, TxMeansSomething, TxIsAwaited
<1> QED BY <1>1 DEF CliInv, MempoolWellFormed

\* A request is sent from a wallet that can pay the cap.
LEMMA SendRequestInv ==
  ASSUME CliInv, SendRequest
  PROVE  CliInv'
<1> USE DEF SendRequest, chainVars, fundVars
<1>1. /\ wallet' \in SomeNote /\ wallet'.note = wallet.note /\ wallet'.secret = wallet.secret
      /\ wallet'.balance = wallet.balance /\ wallet'.pending = TRUE
  BY SettledEffect DEF SomeNote
<1>2. /\ FundedNoteIsOurs' /\ EscrowedSecretIsKept' /\ RetiredStateIsCurrent'
      /\ NotesAreDense' /\ FundingIsFresh' /\ WalletIsKnown'
  BY <1>1, WalletMoves
<1>3. MempoolWellFormed' /\ CommandsWellFormed'
  BY OthersKept, CommandsKept
<1>4. CliTypeOK'
  BY <1>1 DEF CliInv, CliTypeOK
<1> QED BY <1>2, <1>3, <1>4 DEF CliInv

\* An answer tells the wallet what the server has.
LEMMA ReceiveAnswerInv ==
  ASSUME CliInv, ReceiveAnswer
  PROVE  CliInv'
<1> USE DEF ReceiveAnswer, chainVars, fundVars
<1>1. wallet.note # 0
  BY DEF CliInv, CliTypeOK, NoNote, SomeNote, Notes
<1>2. /\ wallet' \in SomeNote /\ wallet'.note = wallet.note /\ wallet'.secret = wallet.secret
      /\ wallet'.balance = server[wallet.note] /\ wallet'.pending = FALSE
  BY <1>1, SettledEffect
<1>3. /\ FundedNoteIsOurs' /\ EscrowedSecretIsKept' /\ RetiredStateIsCurrent'
      /\ NotesAreDense' /\ FundingIsFresh' /\ WalletIsKnown'
  BY <1>1, <1>2, WalletMoves
<1>4. MempoolWellFormed' /\ CommandsWellFormed'
  BY OthersKept, CommandsKept
<1>5. CliTypeOK'
  BY <1>2 DEF CliInv, CliTypeOK
<1> QED BY <1>3, <1>4, <1>5 DEF CliInv

\* An application's look at its withdrawal touches the plan only.
LEMMA AppConfirmsInv ==
  ASSUME CliInv, AppConfirms
  PROVE  CliInv'
<1> USE DEF AppConfirms, chainVars, fundVars
<1>1. wallet \in SomeNote
  BY SettledEffect
<1>2. CliTypeOK'
  BY <1>1, CommandLineAssumption DEF CliInv, CliTypeOK, SomeNote, Notes
<1> QED BY <1>2, FilesKept, OthersKept, CommandsKept DEF CliInv

\* The reset of an application, like the one of a command.
LEMMA AppResetsInv ==
  ASSUME CliInv, AppResets
  PROVE  CliInv'
<1> USE DEF AppResets, chainVars, fundVars
<1>1. /\ wallet' = NoNote /\ plan' = NoPlan /\ archive' \subseteq Secrets
      /\ FundedNoteIsOurs' /\ EscrowedSecretIsKept' /\ RetiredStateIsCurrent'
      /\ NotesAreDense' /\ FundingIsFresh' /\ WalletIsKnown'
  BY WalletLeaves
<1>2. CliTypeOK'
  BY <1>1, CommandLineAssumption DEF CliInv, CliTypeOK
<1> QED BY <1>1, <1>2, OthersKept, CommandsKept DEF CliInv

-----------------------------------------------------------------------------
(* Steps of the vault, of the indexer and of the server *)

\* A new note changes nothing for the notes and commands there are.
LEMMA NewNoteKeeps ==
  ASSUME CliInv, NEW n \in Notes, n \notin NotesOnChain, NotesOnChain' = NotesOnChain \cup {n},
         \A m \in Notes : m # n => vault'[m] = vault[m] /\ server'[m] = server[m],
         UNCHANGED <<retired, cmd>>
  PROVE  /\ RetiredStateIsCurrent' /\ CommandsWellFormed'
         /\ \A r \in retired : /\ r.note \in NotesOnChain' /\ r.note \in Notes
                               /\ vault'[r.note].owner = r.secret /\ vault[r.note].owner = r.secret
<1>1. \A r \in retired : r.note \in NotesOnChain /\ r.note \in Notes /\ r.note # n
  BY DEF CliInv, WalletIsKnown, NotesOnChain
<1>2. RetiredStateIsCurrent'
  BY <1>1 DEF CliInv, RetiredStateIsCurrent
<1>3. \A m \in Notes : vault[m].status = "closed" => vault'[m] = vault[m]
  BY DEF NotesOnChain
<1>4. CommandsWellFormed'
  BY <1>3 DEF CliInv, CommandsWellFormed, validate_withdrawal_plan
<1> QED BY <1>1, <1>2, <1>4 DEF CliInv, WalletIsKnown

\* An application's deposit puts the new note into the wallet.
LEMMA AppDepositInv ==
  ASSUME CliInv, NEW s \in Secrets, NEW a \in Credits, AppDeposit(s, a)
  PROVE  CliInv'
<1> USE DEF AppDeposit, Serving, fundVars
<1>0. PICK n : n = NextNoteId
  OBVIOUS
<1>1. a \in Amounts /\ n \in Notes /\ CliTypeOK /\ NotesAreDense
  BY <1>0, AmountsClosed DEF CliInv
<1>2. /\ vault' \in [Notes -> NoteOnChain] /\ server' \in [Notes -> Amounts]
      /\ \A m \in Notes : m # n => vault'[m] = vault[m] /\ server'[m] = server[m]
      /\ vault'[n].owner = s /\ server'[n] = a
      /\ n \notin NotesOnChain /\ NotesOnChain' = NotesOnChain \cup {n} /\ NotesAreDense'
  BY <1>0, <1>1, DepositEffect
<1>3. /\ wallet' \in SomeNote /\ wallet'.note = n /\ wallet'.secret = s
      /\ wallet'.balance = a /\ wallet'.pending = FALSE
  BY <1>0, <1>1 DEF SomeNote
<1>4. /\ RetiredStateIsCurrent' /\ CommandsWellFormed' /\ MempoolWellFormed'
      /\ \A r \in retired : r.note \in NotesOnChain' /\ vault'[r.note].owner = r.secret
  BY <1>1, <1>2, NewNoteKeeps, OthersKept
<1>5. \A r \in retired : r.secret # s
  BY DEF UsedSecrets
<1>6. FundedNoteIsOurs' /\ WalletIsKnown'
  BY <1>2, <1>3, <1>4, <1>5 DEF FundedNoteIsOurs, WalletIsKnown
<1>7. wallet.secret = Nobody
  BY DEF CliInv, CliTypeOK, SomeNote, NoNote, Notes
<1>8. EscrowedSecretIsKept'
  BY <1>2, <1>3, <1>7 DEF CliInv, EscrowedSecretIsKept
<1>9. FundingIsFresh'
  BY DEF CliInv, FundingIsFresh, SentPcs
<1>10. CliTypeOK'
  BY <1>2, <1>3 DEF CliInv, CliTypeOK
<1> QED BY <1>2, <1>4, <1>6, <1>8, <1>9, <1>10 DEF CliInv

\* A deposit by someone else takes the next id, also one that a funding was guessing at.
LEMMA OtherDepositInv ==
  ASSUME CliInv, OtherDeposit
  PROVE  CliInv'
<1> USE DEF OtherDeposit, fundVars
<1>0. PICK n : n = NextNoteId
  OBVIOUS
<1>1. 0 \in Amounts /\ n \in Notes /\ CliTypeOK /\ NotesAreDense
  BY <1>0, AmountsClosed DEF CliInv
<1>2. /\ vault' \in [Notes -> NoteOnChain] /\ server' \in [Notes -> Amounts]
      /\ \A m \in Notes : m # n => vault'[m] = vault[m] /\ server'[m] = server[m]
      /\ vault'[n].owner = Nobody
      /\ n \notin NotesOnChain /\ NotesOnChain' = NotesOnChain \cup {n} /\ NotesAreDense'
  BY <1>0, <1>1, DepositEffect
<1>3. /\ RetiredStateIsCurrent' /\ CommandsWellFormed' /\ MempoolWellFormed'
      /\ \A r \in retired : r.note \in NotesOnChain' /\ vault'[r.note].owner = r.secret
  BY <1>1, <1>2, NewNoteKeeps, OthersKept
<1>4. wallet.note # 0 => wallet.note \in NotesOnChain /\ wallet.note \in Notes
  BY DEF CliInv, WalletIsKnown, NotesOnChain
<1>5. FundedNoteIsOurs' /\ WalletIsKnown'
  BY <1>2, <1>3, <1>4 DEF CliInv, FundedNoteIsOurs, WalletIsKnown
<1>6. EscrowedSecretIsKept'
  BY <1>2 DEF CliInv, EscrowedSecretIsKept
<1>7. FundingIsFresh'
  <2>1. client.pc = "indexing" => client.note \in NotesOnChain /\ client.note \in Notes
    BY DEF CliInv, FundingIsFresh, NotesOnChain
  <2>2. Nobody \notin Secrets
    BY CommandLineAssumption
  <2> QED BY <1>2, <2>1, <2>2 DEF CliInv, FundingIsFresh, SentPcs
<1>8. CliTypeOK'
  BY <1>2 DEF CliInv, CliTypeOK
<1> QED BY <1>2, <1>3, <1>5, <1>6, <1>7, <1>8 DEF CliInv

\* An open note that changes its status keeps its owner; a closed one does not change.
LEMMA StatusKeeps ==
  ASSUME CliInv, NEW n \in Notes, vault' \in [Notes -> NoteOnChain],
         \A m \in Notes : m # n => vault'[m] = vault[m],
         vault[n].status \in {"active", "pending_withdrawal"}, vault'[n].status # "none",
         vault'[n].owner = vault[n].owner,
         UNCHANGED <<wallet, retired, archive, client, server, abandoned>>,
         mempool' \subseteq mempool
  PROVE  /\ FundedNoteIsOurs' /\ EscrowedSecretIsKept' /\ RetiredStateIsCurrent'
         /\ NotesAreDense' /\ FundingIsFresh' /\ WalletIsKnown'
         /\ \A m \in Notes : vault[m].status = "closed" => vault'[m] = vault[m]
<1>1. NotesOnChain' = NotesOnChain /\ NotesAreDense'
  BY ChainKept DEF CliInv
<1>2. \A m \in Notes : vault'[m].owner = vault[m].owner
  OBVIOUS
<1>3. \A m \in NotesOnChain : m \in Notes
  BY DEF NotesOnChain
<1>4. FundedNoteIsOurs' /\ WalletIsKnown' /\ RetiredStateIsCurrent'
  BY <1>1, <1>2, <1>3 DEF CliInv, FundedNoteIsOurs, WalletIsKnown, RetiredStateIsCurrent
<1>5. EscrowedSecretIsKept'
  BY <1>2 DEF CliInv, EscrowedSecretIsKept
<1>6. FundingIsFresh'
  BY <1>1, <1>2, <1>3 DEF CliInv, FundingIsFresh
<1> QED BY <1>1, <1>4, <1>5, <1>6

\* A challenge reopens a note that is closing; a claim closes one that is open.
LEMMA ChallengeOrClaimInv ==
  ASSUME CliInv, NEW n \in Notes, ChallengeOrClaim(n)
  PROVE  CliInv'
<1> USE DEF ChallengeOrClaim, fundVars
<1>1. vault[n] \in NoteOnChain /\ 0 \in Amounts
  BY AmountsClosed DEF CliInv, CliTypeOK
<1>2. /\ vault' \in [Notes -> NoteOnChain]
      /\ \A m \in Notes : m # n => vault'[m] = vault[m]
      /\ vault[n].status \in {"active", "pending_withdrawal"} /\ vault'[n].status # "none"
      /\ vault'[n].owner = vault[n].owner
  <2>1. PICK new \in NoteOnChain : /\ vault' = [vault EXCEPT ![n] = new]
                                  /\ new.status # "none" /\ new.owner = vault[n].owner
    <3> DEFINE reopened == [vault[n] EXCEPT !.status = "active", !.payee = Nobody, !.amount = 0]
               claimed == [vault[n] EXCEPT !.status = "closed", !.payee = Treasury]
    <3>1. /\ reopened \in NoteOnChain /\ reopened.status # "none"
          /\ reopened.owner = vault[n].owner
          /\ claimed \in NoteOnChain /\ claimed.status # "none" /\ claimed.owner = vault[n].owner
      BY <1>1 DEF NoteOnChain
    <3>2. \/ vault' = [vault EXCEPT ![n] = reopened]
          \/ vault' = [vault EXCEPT ![n] = claimed]
      BY DEF CliInv, CliTypeOK
    <3> HIDE DEF reopened, claimed
    <3> QED BY <3>1, <3>2
  <2>2. vault[n].status \in {"active", "pending_withdrawal"}
    OBVIOUS
  <2> QED BY <2>1, <2>2 DEF CliInv, CliTypeOK
<1>3. /\ FundedNoteIsOurs' /\ EscrowedSecretIsKept' /\ RetiredStateIsCurrent'
      /\ NotesAreDense' /\ FundingIsFresh' /\ WalletIsKnown' /\ MempoolWellFormed'
      /\ \A m \in Notes : vault[m].status = "closed" => vault'[m] = vault[m]
  BY <1>2, StatusKeeps, OthersKept
<1>4. CommandsWellFormed'
  BY <1>3 DEF CliInv, CommandsWellFormed, validate_withdrawal_plan
<1>5. CliTypeOK'
  BY <1>2 DEF CliInv, CliTypeOK
<1> QED BY <1>3, <1>4, <1>5 DEF CliInv

\* The indexer sees only notes that are there.
LEMMA IndexerInv ==
  ASSUME CliInv, IndexerAdvances
  PROVE  CliInv'
<1> USE DEF IndexerAdvances, fundVars
<1>1. Cardinality(NotesOnChain) \in 0..MaxNotes
  BY NextNote DEF CliInv
<1>2. indexed' \in 0..MaxNotes
  BY <1>1, CommandLineAssumption DEF CliInv, CliTypeOK
<1>3. CliTypeOK'
  BY <1>2 DEF CliInv, CliTypeOK
<1> QED BY <1>3, FilesKept, OthersKept, CommandsKept DEF CliInv

\* The server charges the note of the wallet, whose request is unanswered, at most the cap.
LEMMA ServerChargesInv ==
  ASSUME CliInv, NEW charge \in 1..Cap, ServerCharges(charge)
  PROVE  CliInv'
<1> USE DEF ServerCharges, fundVars
<1>1. /\ wallet \in SomeNote /\ wallet.note # 0 /\ wallet.note \in Notes
      /\ wallet.balance >= Cap /\ vault[wallet.note].owner = wallet.secret
      /\ server[wallet.note] \in Amounts
  BY DEF CliInv, CliTypeOK, NoNote, SomeNote, Notes, WalletIsKnown, FundedNoteIsOurs
<1>2. server[wallet.note] - charge \in Amounts
  <2>1. PICK b \in Amounts : b = server[wallet.note]
    BY <1>1
  <2>2. b \in Nat /\ Cap \in Nat /\ charge \in Nat /\ charge <= Cap /\ Cap <= b
    BY <1>1, <2>1, AmountsClosed, CommandLineAssumption
  <2>3. b - charge \in Nat /\ b - charge <= b
    BY <2>2
  <2> QED BY <2>1, <2>3, AmountsClosed
<1>3. /\ server' \in [Notes -> Amounts]
      /\ \A m \in Notes : m # wallet.note => server'[m] = server[m]
  BY <1>1, <1>2 DEF CliInv, CliTypeOK
<1>4. \A r \in retired : r.note # wallet.note /\ r.note \in Notes
  BY <1>1 DEF CliInv, WalletIsKnown, NotesOnChain
<1>5. NotesOnChain' = NotesOnChain /\ NotesAreDense'
  BY DEF NotesOnChain, CliInv, NotesAreDense
<1>6. RetiredStateIsCurrent' /\ FundedNoteIsOurs' /\ EscrowedSecretIsKept' /\ WalletIsKnown'
  BY <1>3, <1>4, <1>5
  DEF CliInv, RetiredStateIsCurrent, FundedNoteIsOurs, EscrowedSecretIsKept, WalletIsKnown
<1>7. client.pc \in {"down", "serving"}
  BY <1>1 DEF CliInv, FundingIsFresh, NoNote
<1>8. FundingIsFresh'
  BY <1>5, <1>7 DEF CliInv, FundingIsFresh, SentPcs
<1>9. CliTypeOK'
  BY <1>3 DEF CliInv, CliTypeOK
<1> QED BY <1>5, <1>6, <1>8, <1>9, OthersKept, CommandsKept DEF CliInv

\* A process waits for one transaction at a time.
LEMMA AwaitedIsUnique ==
  ASSUME CliInv, NEW tx \in mempool, NEW t \in mempool, t.by = tx.by, tx.by # Nobody
  PROVE  t = tx
<1>1. /\ tx \in Tx /\ TxMeansSomething(tx) /\ TxIsAwaited(tx)
      /\ t \in Tx /\ TxMeansSomething(t) /\ TxIsAwaited(t)
  BY DEF CliInv, MempoolWellFormed
<1>2. tx.by = "client" \/ tx.by \in Commands
  BY <1>1 DEF Tx
<1>3. /\ t.kind = tx.kind /\ t.note = tx.note /\ t.secret = tx.secret
      /\ t.amount = tx.amount /\ t.destination = tx.destination
  BY <1>1, <1>2 DEF TxMeansSomething, TxIsAwaited, Tx
<1> QED BY <1>1, <1>3 DEF Tx

\* A deposit that is mined opens the funding's note, or one whose secret was abandoned; one
\* that reverts ends its funding, whose secret has opened nothing.
LEMMA MineDepositInv ==
  ASSUME CliInv, NEW tx \in mempool, tx.kind = "deposit", Mine(tx)
  PROVE  CliInv'
<1> USE DEF Mine, run_cast_signed
<1>1. /\ tx \in Tx /\ tx.secret \in Secrets /\ tx.by \in {"client", Nobody}
      /\ tx.by = Nobody => tx.secret \in abandoned
      /\ tx.by = "client" => /\ client.pc = "deposit_sent" /\ tx.secret = client.secret
                             /\ tx.note = client.note /\ tx.amount = client.amount
      /\ tx.amount \in Amounts
  BY DEF CliInv, MempoolWellFormed, TxMeansSomething, TxIsAwaited, Tx
<1>2. /\ client \in Funding
      /\ client.pc \in {"deposit", "deposit_sent"} =>
          /\ client.secret \in Secrets
          /\ wallet = NoNote /\ \A r \in retired : r.secret # client.secret
          /\ \A n \in Notes : vault[n].owner # client.secret
          /\ \A t \in mempool : t.by = Nobody => t.secret # client.secret \/ t.kind # "deposit"
      /\ "client" \notin Commands /\ "client" # Nobody
  BY CommandLineAssumption DEF CliInv, CliTypeOK, FundingIsFresh, SentPcs
<1>3. \/ tx.by = Nobody /\ client' = client
      \/ /\ tx.by = "client" /\ Applies(tx) /\ client' \in Funding /\ client'.pc = "indexing"
         /\ client'.secret = client.secret /\ client'.note = client.note
         /\ client'.amount = client.amount
      \/ /\ tx.by = "client" /\ ~Applies(tx) /\ client' \in Funding /\ client'.pc = "down"
         /\ client'.secret = Nobody
  <2>1. NoFunding \in Funding /\ NoFunding.pc = "down" /\ NoFunding.secret = Nobody
    <3>1. 0 \in Amounts /\ 0 \in 0..MaxNotes + 1
      BY AmountsClosed, CommandLineAssumption
    <3> QED BY <3>1 DEF NoFunding, Funding
  <2>2. [client EXCEPT !.pc = "indexing"] \in Funding
    BY <1>2 DEF Funding, SentPcs
  <2>3. /\ [client EXCEPT !.pc = "indexing"].pc = "indexing"
        /\ [client EXCEPT !.pc = "indexing"].secret = client.secret
        /\ [client EXCEPT !.pc = "indexing"].note = client.note
        /\ [client EXCEPT !.pc = "indexing"].amount = client.amount
    BY <1>2 DEF Funding
  <2> QED BY <1>1, <1>2, <2>1, <2>2, <2>3
<1>4. MempoolWellFormed'
  <2>1. ASSUME NEW t \in mempool' PROVE TxMeansSomething(t)' /\ TxIsAwaited(t)'
    <3>1. t \in mempool /\ t # tx /\ TxMeansSomething(t) /\ TxIsAwaited(t)
      BY DEF CliInv, MempoolWellFormed
    <3>2. tx.by = "client" => t.by # "client"
      BY <1>2, <3>1, AwaitedIsUnique
    <3> QED BY <1>3, <3>1, <3>2 DEF TxMeansSomething, TxIsAwaited
  <2> QED BY <2>1 DEF CliInv, MempoolWellFormed
<1>5. CASE ~Applies(tx)
  <2>1. UNCHANGED <<vault, server, cmd, wallet, retired, archive, plan, app, indexed, abandoned>>
    BY <1>5
  <2>2. NotesOnChain' = NotesOnChain /\ NotesAreDense' /\ CommandsWellFormed'
    BY <2>1, CommandsKept DEF NotesOnChain, CliInv, NotesAreDense
  <2>3. FundedNoteIsOurs' /\ RetiredStateIsCurrent' /\ WalletIsKnown'
    BY <2>1, <2>2 DEF CliInv, FundedNoteIsOurs, RetiredStateIsCurrent, WalletIsKnown
  <2>4. EscrowedSecretIsKept'
    BY <1>1, <1>2, <1>3, <1>5, <2>1 DEF CliInv, EscrowedSecretIsKept
  <2>5. FundingIsFresh'
    BY <1>3, <1>5, <2>1, <2>2 DEF CliInv, FundingIsFresh, SentPcs
  <2>6. CliTypeOK'
    BY <1>3, <1>5, <2>1 DEF CliInv, CliTypeOK
  <2> QED BY <1>4, <2>2, <2>3, <2>4, <2>5, <2>6 DEF CliInv
<1>6. CASE Applies(tx)
  <2>1. PICK n : n = tx.note
    OBVIOUS
  <2>2. n = NextNoteId /\ n \in Notes /\ Deposited(n, tx.secret, tx.amount)
    BY <1>6, <2>1 DEF Applies, Apply
  <2>3. /\ vault' \in [Notes -> NoteOnChain] /\ server' \in [Notes -> Amounts]
        /\ \A m \in Notes : m # n => vault'[m] = vault[m] /\ server'[m] = server[m]
        /\ vault'[n].owner = tx.secret /\ server'[n] = tx.amount
        /\ n \notin NotesOnChain /\ NotesOnChain' = NotesOnChain \cup {n} /\ NotesAreDense'
    BY <1>1, <2>2, DepositEffect DEF CliInv
  <2>4. /\ RetiredStateIsCurrent' /\ CommandsWellFormed'
        /\ \A r \in retired : r.note \in NotesOnChain' /\ vault'[r.note].owner = r.secret
    BY <2>2, <2>3, NewNoteKeeps
  <2>5. wallet.note # 0 => wallet.note \in NotesOnChain /\ wallet.note \in Notes
    BY DEF CliInv, WalletIsKnown, NotesOnChain
  <2>6. FundedNoteIsOurs' /\ WalletIsKnown'
    BY <2>3, <2>4, <2>5 DEF CliInv, FundedNoteIsOurs, WalletIsKnown
  <2>7. CASE tx.by = Nobody
    <3>1. client' = client /\ tx.secret \in abandoned
      BY <1>1, <1>2, <1>3, <2>7
    <3>2. EscrowedSecretIsKept'
      BY <2>3, <3>1 DEF CliInv, EscrowedSecretIsKept
    <3>3. client.pc = "indexing" => client.note \in NotesOnChain /\ client.note \in Notes
      BY DEF CliInv, FundingIsFresh, NotesOnChain
    <3>4. client.pc \in {"deposit", "deposit_sent"} => tx.secret # client.secret
      BY <1>2, <2>7
    <3>5. FundingIsFresh'
      BY <2>3, <3>1, <3>3, <3>4 DEF CliInv, FundingIsFresh, SentPcs
    <3>6. CliTypeOK'
      BY <2>3, <3>1 DEF CliInv, CliTypeOK
    <3> QED BY <1>4, <2>3, <2>4, <2>6, <3>2, <3>5, <3>6 DEF CliInv
  <2>8. CASE tx.by = "client"
    <3>1. /\ client' \in Funding /\ client'.pc = "indexing" /\ client'.secret = client.secret
          /\ client'.note = n /\ client'.amount = tx.amount /\ tx.secret = client.secret
          /\ client.pc = "deposit_sent"
      BY <1>1, <1>2, <1>3, <1>6, <2>1, <2>8
    <3>2. EscrowedSecretIsKept'
      BY <2>3, <3>1 DEF CliInv, EscrowedSecretIsKept
    <3>3. client'.note # 0
      BY <2>2, <3>1 DEF Notes
    <3>4. FundingIsFresh'
      BY <1>1, <1>2, <2>3, <3>1, <3>3 DEF FundingIsFresh, SentPcs
    <3>5. CliTypeOK'
      BY <2>3, <3>1 DEF CliInv, CliTypeOK
    <3> QED BY <1>4, <2>3, <2>4, <2>6, <3>2, <3>4, <3>5 DEF CliInv
  <2> QED BY <1>1, <2>7, <2>8
<1> QED BY <1>5, <1>6

\* A withdrawal or a finalization that applies changes the status of an open note; a mutual
\* close pays what the transaction says.
LEMMA ApplyEffect ==
  ASSUME CliInv, NEW tx \in mempool, tx.kind # "deposit", Applies(tx), Apply(tx)
  PROVE  /\ tx.note \in Notes /\ vault' \in [Notes -> NoteOnChain] /\ UNCHANGED server
         /\ \A m \in Notes : m # tx.note => vault'[m] = vault[m]
         /\ vault[tx.note].status \in {"active", "pending_withdrawal"}
         /\ vault'[tx.note].status # "none" /\ vault'[tx.note].owner = vault[tx.note].owner
         /\ tx.kind = "mutual" =>
              /\ vault'[tx.note].status = "closed" /\ vault'[tx.note].payee = tx.destination
              /\ vault'[tx.note].amount = tx.amount
<1>1. /\ tx \in Tx /\ tx.note \in Notes /\ tx.amount \in Amounts
      /\ tx.kind \in {"mutual", "escape", "finalize"}
      /\ tx.kind \in {"mutual", "escape"} => tx.destination \in Destinations
  BY DEF CliInv, MempoolWellFormed, TxMeansSomething, Tx
<1>2. PICK n \in Notes : n = tx.note
  BY <1>1
<1>3. vault[n] \in NoteOnChain /\ vault \in [Notes -> NoteOnChain]
  BY DEF CliInv, CliTypeOK
<1>4. vault[n].status \in {"active", "pending_withdrawal"}
  BY <1>1, <1>2 DEF Applies
<1> DEFINE closing == [vault[n] EXCEPT !.status = "closed", !.payee = tx.destination,
                                       !.amount = tx.amount]
           escaping == [vault[n] EXCEPT !.status = "pending_withdrawal", !.payee = tx.destination,
                                        !.amount = tx.amount]
           final == [vault[n] EXCEPT !.status = "closed"]
<1>5. CASE tx.kind = "mutual"
  <2>1. vault' = [vault EXCEPT ![n] = closing] /\ UNCHANGED server
    BY <1>2, <1>3, <1>5 DEF Apply
  <2>2. /\ closing \in NoteOnChain /\ closing.status = "closed"
        /\ closing.owner = vault[n].owner /\ closing.payee = tx.destination
        /\ closing.amount = tx.amount
    BY <1>1, <1>3, <1>5 DEF NoteOnChain
  <2> HIDE DEF closing
  <2> QED BY <1>2, <1>3, <1>4, <2>1, <2>2
<1>6. CASE tx.kind = "escape"
  <2>1. vault' = [vault EXCEPT ![n] = escaping] /\ UNCHANGED server
    BY <1>2, <1>3, <1>6 DEF Apply
  <2>2. /\ escaping \in NoteOnChain /\ escaping.status = "pending_withdrawal"
        /\ escaping.owner = vault[n].owner
    BY <1>1, <1>3, <1>6 DEF NoteOnChain
  <2> HIDE DEF escaping
  <2> QED BY <1>2, <1>3, <1>4, <1>6, <2>1, <2>2
<1>7. CASE tx.kind = "finalize"
  <2>1. vault' = [vault EXCEPT ![n] = final] /\ UNCHANGED server
    BY <1>2, <1>3, <1>7 DEF Apply
  <2>2. /\ final \in NoteOnChain /\ final.status = "closed" /\ final.owner = vault[n].owner
    BY <1>3 DEF NoteOnChain
  <2> HIDE DEF final
  <2> QED BY <1>2, <1>3, <1>4, <1>7, <2>1, <2>2
<1> QED BY <1>1, <1>5, <1>6, <1>7

\* A withdrawal that is mined lets its command go on only if it was applied.
LEMMA MineWithdrawalInv ==
  ASSUME CliInv, NEW tx \in mempool, tx.kind # "deposit", Mine(tx)
  PROVE  CliInv'
<1> USE DEF Mine, run_cast_transaction
<1>1. /\ tx \in Tx /\ TxMeansSomething(tx) /\ TxIsAwaited(tx)
      /\ tx.by \in Commands \cup {Nobody}
  BY DEF CliInv, MempoolWellFormed, TxMeansSomething, Tx
<1>2. Nobody \notin Commands /\ UNCHANGED <<client, wallet, retired, archive, plan, app, indexed, abandoned>>
  BY CommandLineAssumption
<1>3. /\ FundedNoteIsOurs' /\ EscrowedSecretIsKept' /\ RetiredStateIsCurrent'
      /\ NotesAreDense' /\ FundingIsFresh' /\ WalletIsKnown'
      /\ vault' \in [Notes -> NoteOnChain] /\ UNCHANGED server
      /\ \A m \in Notes : vault[m].status = "closed" => vault'[m] = vault[m]
  <2>1. CASE Applies(tx)
    <3>1. Apply(tx)
      BY <2>1
    <3> QED BY <1>2, <2>1, <3>1, ApplyEffect, StatusKeeps
  <2>2. CASE ~Applies(tx)
    BY <1>2, <2>2, FilesKept DEF CliInv, CliTypeOK
  <2> QED BY <2>1, <2>2
<1>4. /\ cmd' \in [Commands -> Command]
      /\ \A d \in Commands : d # tx.by => cmd'[d] = cmd[d]
      /\ tx.by \in Commands => CommandOK(tx.by)'
  <2>1. CASE tx.by = Nobody
    BY <1>2, <2>1 DEF CliInv, CliTypeOK
  <2>2. CASE tx.by \in Commands /\ ~Applies(tx)
    <3>1. cmd' = [cmd EXCEPT ![tx.by] = Idle]
      BY <1>2, <2>2
    <3> QED BY <2>2, <3>1, IdleCommand
  <2>3. CASE tx.by \in Commands /\ Applies(tx)
    <3>1. Goto(tx.by, "wait")
      BY <1>2, <2>3 DEF Goto, CliInv, CliTypeOK
    <3>2. PICK c \in Commands : c = tx.by
      BY <2>3
    <3>3. /\ cmd' \in [Commands -> Command]
          /\ \A e \in Commands : e # c => cmd'[e] = cmd[e]
          /\ cmd'[c].pc = "wait" /\ cmd'[c].mode = cmd[c].mode /\ cmd'[c].note = cmd[c].note
          /\ cmd'[c].destination = cmd[c].destination /\ cmd'[c].plan = cmd[c].plan
      BY <3>1, <3>2, GotoEffect
    <3>4. CommandOK(c) /\ cmd[c].pc = "sent"
      BY <1>1, <3>2 DEF CliInv, CommandsWellFormed, CommandOK, TxIsAwaited
    <3>5. cmd[c].mode = "mutual" =>
            /\ vault'[cmd[c].note].status = "closed"
            /\ vault'[cmd[c].note].payee = cmd[c].destination
            /\ vault'[cmd[c].note].amount = cmd[c].plan.balance
      <4>1. Apply(tx)
        BY <2>3
      <4>2. /\ tx.kind = cmd[c].mode /\ tx.note = cmd[c].note
            /\ cmd[c].mode = "mutual" =>
                 /\ tx.amount = cmd[c].plan.balance /\ tx.destination = cmd[c].plan.destination
                 /\ cmd[c].plan.destination = cmd[c].destination
        BY <1>1, <3>2, <3>4 DEF TxIsAwaited, CommandOK, validate_withdrawal_plan
      <4> QED BY <2>3, <4>1, <4>2, ApplyEffect
    <3>6. CommandOK(c)'
      BY <3>3, <3>4, <3>5 DEF CommandOK, validate_withdrawal_plan
    <3> QED BY <3>2, <3>3, <3>6
  <2> QED BY <1>1, <2>1, <2>2, <2>3
<1>5. CommandsWellFormed'
  <2>1. ASSUME NEW c \in Commands PROVE CommandOK(c)'
    <3>1. CASE c = tx.by
      BY <1>4, <3>1
    <3>2. CASE c # tx.by
      BY <1>3, <1>4, <3>2 DEF CliInv, CommandsWellFormed, CommandOK, validate_withdrawal_plan
    <3> QED BY <3>1, <3>2
  <2> QED BY <2>1 DEF CommandsWellFormed, CommandOK
<1>6. MempoolWellFormed'
  <2>1. ASSUME NEW t \in mempool' PROVE TxMeansSomething(t)' /\ TxIsAwaited(t)'
    <3>1. t \in mempool /\ t # tx /\ TxMeansSomething(t) /\ TxIsAwaited(t)
      BY DEF CliInv, MempoolWellFormed
    <3>2. t.by \in Commands => t.by # tx.by
      BY <1>2, <3>1, AwaitedIsUnique
    <3> QED BY <1>2, <1>4, <3>1, <3>2 DEF TxMeansSomething, TxIsAwaited
  <2> QED BY <2>1 DEF CliInv, MempoolWellFormed
<1>7. CliTypeOK'
  BY <1>2, <1>3, <1>4 DEF CliInv, CliTypeOK
<1> QED BY <1>3, <1>5, <1>6, <1>7 DEF CliInv

-----------------------------------------------------------------------------
(* The invariant is inductive *)

\* Nothing is funded, sent or kept at first.
LEMMA CliInitInv == CliInit => CliInv
<1> SUFFICES ASSUME CliInit PROVE CliInv
  OBVIOUS
<1> USE DEF CliInit
<1>1. 0 \in Amounts /\ 0 \in 0..MaxNotes /\ 0 \in 0..MaxNotes + 1
  BY AmountsClosed, CommandLineAssumption
<1>2. Idle \in Command /\ NoFunding \in Funding /\ Untouched \in NoteOnChain
  BY <1>1 DEF Idle, Command, NoFunding, Funding, Untouched, NoteOnChain
<1>3. CliTypeOK
  BY <1>1, <1>2 DEF CliTypeOK
<1>4. wallet.note = 0 /\ client.pc = "down" /\ client.secret = Nobody
  BY DEF NoNote, NoFunding
<1>5. NotesOnChain = 1..0
  BY DEF NotesOnChain, Untouched
<1>6. NotesAreDense
  BY <1>1, <1>5 DEF NotesAreDense
<1>7. FundedNoteIsOurs /\ EscrowedSecretIsKept /\ RetiredStateIsCurrent /\ WalletIsKnown
  BY <1>4 DEF FundedNoteIsOurs, EscrowedSecretIsKept, RetiredStateIsCurrent, WalletIsKnown, Untouched
<1>8. MempoolWellFormed /\ FundingIsFresh
  BY <1>4 DEF MempoolWellFormed, FundingIsFresh, SentPcs
<1>9. CommandsWellFormed
  BY DEF CommandsWellFormed, Idle
<1> QED BY <1>3, <1>6, <1>7, <1>8, <1>9 DEF CliInv

\* Every step of a process, of the daemon and of the outside keeps the invariant.
LEMMA CliNextInv == CliInv /\ [CliNext]_vars => CliInv'
<1> SUFFICES ASSUME CliInv, [CliNext]_vars PROVE CliInv'
  OBVIOUS
<1>1. ASSUME NEW c \in Commands, Withdraw(c) PROVE CliInv'
  BY <1>1, ManagedWithdrawalInv, FinalizeEscapeInv, PrepareInv, ContractCallInv, FinalizeCallInv,
     WaitForStatusInv, ResetWalletInv, CommandEndsInv DEF Withdraw
<1>2. CASE Fund
  BY <1>2, ClientStartsInv, PrepareDepositInv, SendDepositInv, ConfirmFundingInv, ClientEndsInv
  DEF Fund
<1>3. CASE Daemon
  BY <1>3, SendRequestInv, ReceiveAnswerInv, AppDepositInv, AppConfirmsInv, AppResetsInv DEF Daemon
<1>4. CASE Environment
  BY <1>4, MineDepositInv, MineWithdrawalInv, OtherDepositInv, IndexerInv, ChallengeOrClaimInv,
     ServerChargesInv DEF Environment
<1>5. CASE UNCHANGED vars
  <2>1. CliTypeOK'
    BY <1>5 DEF vars, CliInv, CliTypeOK
  <2> QED BY <1>5, <2>1, FilesKept, OthersKept, CommandsKept DEF vars, CliInv
<1> QED BY <1>1, <1>2, <1>3, <1>4, <1>5 DEF CliNext

-----------------------------------------------------------------------------
(* The theorems *)

(***************************************************************************)
(* The invariant holds for every number of commands, notes, secrets and    *)
(* amounts, wherever the processes end and whenever their transactions are *)
(* mined.                                                                  *)
(***************************************************************************)
THEOREM CliInvariance == CliSpec => []CliInv
BY CliInitInv, CliNextInv, PTL DEF CliSpec

(***************************************************************************)
(* No step of the command line, of an application or of a crash loses the  *)
(* secret of an open note, but a funding that ends after its deposit was   *)
(* sent (fund_public_deployment).                                          *)
(***************************************************************************)
THEOREM CliEscrowedSecretIsKept == CliSpec => []EscrowedSecretIsKept
<1>1. CliInv => EscrowedSecretIsKept
  BY DEF CliInv
<1> QED BY <1>1, CliInvariance, PTL

(***************************************************************************)
(* What `zkapi withdraw` prints after a mutual close is what the vault     *)
(* paid: cast's exit status and validate_withdrawal_plan are enough.       *)
(***************************************************************************)
THEOREM CliReportedPayout == CliSpec => []ReportedPayout
<1>1. CliInv => ReportedPayout
  BY DEF CliInv, CommandsWellFormed, ReportedPayout
<1> QED BY <1>1, CliInvariance, PTL

(***************************************************************************)
(* A transaction in flight is for the note that its command settled        *)
(* (run_managed_withdrawal), also after the wallet was rotated.            *)
(***************************************************************************)
THEOREM CliSentForSettledNote == CliSpec => []SentForSettledNote
<1>1. CliInv => SentForSettledNote
  BY DEF CliInv, MempoolWellFormed, TxIsAwaited, SentForSettledNote
<1> QED BY <1>1, CliInvariance, PTL

(***************************************************************************)
(* A retired note is in its last state (retire_low_balance_note): nothing  *)
(* that was in flight is charged to it later.                              *)
(***************************************************************************)
THEOREM CliRetiredStateIsCurrent == CliSpec => []RetiredStateIsCurrent
<1>1. CliInv => RetiredStateIsCurrent
  BY DEF CliInv
<1> QED BY <1>1, CliInvariance, PTL

=============================================================================
